------------------------- MODULE ExperimentalProofs -------------------------
(***************************************************************************)
(* Proofs about the experimental features: the books, the journal and the  *)
(* limits of the trading session, the past of the synthetic price feed,    *)
(* that looking at a pet is harmless, and that pruning a draft tree keeps  *)
(* the likeliest of it.  For any instruments, prices, orders and limits    *)
(* whose cash buffer covers slippage and commission; for any requests for  *)
(* history; for any pets, whatever they are called, and however the clock  *)
(* moves; for any drafts and any tree grown from them.                     *)
(***************************************************************************)
EXTENDS TradingSession, PriceFeed, Pets, DraftTree, Sums, FunctionTheorems, SequenceTheorems, TLAPS

-----------------------------------------------------------------------------
(***************************************************************************)
(* The trading session.                                                    *)
(***************************************************************************)
Kinds == {"proposal", "fill", "rejected", "halt", "resume"}

Entries == [kind : Kinds, id : Nat]

Proposals ==
  [order : OrderRecords, fill : FillRecords \cup {None},
   status : {"refused", "advisory", "pending", "filled", "rejected"}]

SessionTypes ==
  /\ feed \in Feeds /\ hour \in 1..Len(feed)
  /\ cash \in Int /\ qty \in [Symbols -> Int]
  /\ basis \in [Symbols -> Int] /\ realised \in [Symbols -> Int]
  /\ fills \in Seq(FillRecords)
  /\ halted \in BOOLEAN
  /\ proposals \in Seq(Proposals)
  /\ journal \in Seq(Entries)
  /\ ordersToday \in 0..MaxOrdersPerDay /\ sessionDay \in Nat
  /\ executing \in Nat

(* What waits has no fill yet.                                             *)
Unfilled == \A id \in DOMAIN proposals : proposals[id].status = "pending" => proposals[id].fill = None

(* What the journal says of the proposals, and of the session.             *)
Journalled ==
  /\ \A id \in DOMAIN proposals : Before(Len(journal), "proposal", id) # {}
  /\ \A j \in DOMAIN journal : journal[j].kind \in {"fill", "rejected"} =>
       journal[j].id \in DOMAIN proposals /\ proposals[journal[j].id].status # "pending"
  /\ ~halted => \A h \in Before(Len(journal), "halt", 0) :
                  \E r \in Before(Len(journal), "resume", 0) : r > h

(* A day's first fill may go uncounted, and no other.                      *)
On(d, fs) == {i \in DOMAIN fs : fs[i].day = d}

Counted ==
  /\ sessionDay <= day
  /\ \A i \in DOMAIN fills : fills[i].day <= sessionDay
  /\ Cardinality(On(sessionDay, fills)) <= ordersToday + 1
  /\ \A d \in Nat : Cardinality(On(d, fills)) <= MaxOrdersPerDay + 1

SessionInv ==
  /\ SessionTypes /\ Unfilled /\ Journalled /\ Counted
  /\ NoOverdraft /\ FillsAudited /\ BookBalances

-----------------------------------------------------------------------------
(***************************************************************************)
(* Arithmetic of shares and products.                                      *)
(***************************************************************************)
(* A product grows with its factors.                                       *)
LEMMA Products ==
  ASSUME NEW a \in Nat, NEW b \in Nat, NEW c \in Nat, a <= b
  PROVE  a * c <= b * c
  <1>1. PICK d \in Nat : b = a + d
    <2>1. b - a \in Nat /\ b = a + (b - a)
      OBVIOUS
    <2>2. QED
      BY <2>1
  <1>2. b * c = a * c + d * c /\ d * c \in Nat /\ a * c \in Nat
    BY <1>1
  <1>3. QED
    BY <1>2

LEMMA Quotients ==
  ASSUME NEW n \in Nat, NEW b \in Nat \ {0}
  PROVE  n \div b \in Nat /\ (n \div b) * b <= n
  OBVIOUS

(* A share of an amount is at most the amount.                             *)
LEMMA Shares ==
  ASSUME NEW n \in Nat, NEW b \in Nat \ {0}, NEW p \in 0..b
  PROVE  (n * p) \div b \in 0..n
  <1>1. PICK m \in Nat : m = n * p
    OBVIOUS
  <1>2. m <= n * b
    <2>1. p * n <= b * n
      BY Products
    <2>2. QED
      BY <1>1, <2>1
  <1>3. PICK q \in Nat : q = m \div b /\ q * b <= m
    BY Quotients
  <1>4. q <= n
    <2>1. SUFFICES ASSUME q >= n + 1 PROVE FALSE
      OBVIOUS
    <2>2. (n + 1) * b <= q * b
      BY <2>1, Products
    <2>3. (n + 1) * b = n * b + b /\ n * b \in Nat
      OBVIOUS
    <2>4. q * b \in Nat
      OBVIOUS
    <2>5. QED
      BY <1>2, <1>3, <2>2, <2>3, <2>4
  <1>5. QED
    BY <1>1, <1>3, <1>4

(* What slippage and commission add to a purchase, at most.                *)
LEMMA Costs ==
  ASSUME NEW b \in Nat \ {0}, NEW slip \in Nat, NEW fee \in Nat,
         NEW q \in Nat, NEW touch \in Nat,
         NEW s \in Nat, s = touch + (touch * slip) \div b,
         NEW c \in Nat, c = (q * s * fee) \div b
  PROVE  (q * s + c) * (b * b) <= (q * touch) * ((b + slip) * (b + fee))
  <1>1. s * b <= touch * (b + slip)
    <2>1. PICK k \in Nat : k = touch * slip
      OBVIOUS
    <2>2. PICK d \in Nat : d = k \div b /\ d * b <= k
      BY Quotients
    <2>3. s * b = touch * b + d * b
      BY <2>1, <2>2
    <2>4. touch * (b + slip) = touch * b + k
      BY <2>1
    <2>5. touch * b \in Nat /\ d * b \in Nat
      OBVIOUS
    <2>6. QED
      BY <2>2, <2>3, <2>4, <2>5
  <1>2. PICK p \in Nat : p = q * s
    OBVIOUS
  <1>3. (p + c) * b <= p * (b + fee)
    <2>1. PICK k \in Nat : k = p * fee
      OBVIOUS
    <2>2. c = k \div b
      BY <1>2, <2>1
    <2>3. c * b <= k
      BY <2>2, Quotients
    <2>4. (p + c) * b = p * b + c * b /\ p * (b + fee) = p * b + k
      BY <2>1
    <2>5. p * b \in Nat /\ c * b \in Nat
      OBVIOUS
    <2>6. QED
      BY <2>3, <2>4, <2>5
  <1>4. p * b <= (q * touch) * (b + slip)
    <2>1. PICK k \in Nat : k = s * b
      OBVIOUS
    <2>2. PICK t \in Nat : t = touch * (b + slip)
      OBVIOUS
    <2>3. k * q <= t * q
      BY <1>1, <2>1, <2>2, Products
    <2>4. p * b = k * q
      BY <1>2, <2>1
    <2>5. (q * touch) * (b + slip) = t * q
      BY <2>2
    <2>6. QED
      BY <2>3, <2>4, <2>5
  <1>5. PICK lhs \in Nat : lhs = (p + c) * b
    OBVIOUS
  <1>6. PICK mid \in Nat : mid = p * (b + fee)
    OBVIOUS
  <1>7. lhs * b <= mid * b
    BY <1>3, <1>5, <1>6, Products
  <1>8. mid * b = (p * b) * (b + fee)
    BY <1>6
  <1>9. PICK x \in Nat : x = p * b
    OBVIOUS
  <1>10. PICK y \in Nat : y = (q * touch) * (b + slip)
    OBVIOUS
  <1>11. x * (b + fee) <= y * (b + fee)
    BY <1>4, <1>9, <1>10, Products
  <1>12. y * (b + fee) = (q * touch) * ((b + slip) * (b + fee))
    BY <1>10
  <1>13. (q * s + c) * (b * b) = lhs * b
    BY <1>2, <1>5
  <1>14. lhs * b <= y * (b + fee)
    BY <1>7, <1>8, <1>9, <1>11
  <1>15. QED
    BY <1>12, <1>13, <1>14

(* A common factor cancels.                                                *)
LEMMA Cancel ==
  ASSUME NEW a \in Nat, NEW c \in Nat, NEW b \in Nat \ {0}, a * b <= c * b
  PROVE  a <= c
  <1>1. SUFFICES ASSUME a >= c + 1 PROVE FALSE
    OBVIOUS
  <1>2. (c + 1) * b <= a * b
    BY <1>1, Products
  <1>3. (c + 1) * b = c * b + b /\ c * b \in Nat /\ a * b \in Nat
    OBVIOUS
  <1>4. QED
    BY <1>2, <1>3

(* Cash beyond the notional is at least the buffer, a share of the equity, *)
(* of which the notional is at most the largest weight: it pays for what   *)
(* the purchase costs beyond the notional.                                 *)
LEMMA Affordable ==
  ASSUME NEW b \in Nat \ {0}, NEW u \in Nat, b * b <= u,
         NEW weight \in Nat, NEW buffer \in Nat, weight * (u - b * b) <= buffer * (b * b),
         NEW money \in Nat, NEW equity \in Nat, NEW n \in Nat, n <= money,
         buffer * equity <= (money - n) * 100, n * 100 <= weight * equity,
         NEW cost \in Nat, cost * (b * b) <= n * u
  PROVE  cost <= money
  <1>1. PICK bb \in Nat \ {0} : bb = b * b
    OBVIOUS
  <1>2. PICK x \in Nat : x = u - bb /\ u = bb + x
    BY <1>1
  <1>3. PICK m \in Nat : m = money - n /\ money = n + m
    OBVIOUS
  <1>4. PICK wx \in Nat : wx = weight * x
    OBVIOUS
  <1>5. PICK fb \in Nat : fb = buffer * bb
    OBVIOUS
  <1>6. wx * equity <= fb * equity
    <2>1. wx <= fb
      BY <1>1, <1>2, <1>4, <1>5
    <2>2. QED
      BY <2>1, Products
  <1>7. PICK fe \in Nat : fe = buffer * equity
    OBVIOUS
  <1>8. fe * bb <= (m * 100) * bb
    BY <1>3, <1>7, Products
  <1>9. PICK we \in Nat : we = weight * equity
    OBVIOUS
  <1>10. (n * 100) * x <= we * x
    BY <1>9, Products
  <1>11. we * x = wx * equity /\ fe * bb = fb * equity
    BY <1>4, <1>5, <1>7, <1>9
  <1>12. (n * x) * 100 <= (m * bb) * 100
    <2>1. (n * x) * 100 = (n * 100) * x /\ (m * bb) * 100 = (m * 100) * bb
      OBVIOUS
    <2>2. {(n * 100) * x, we * x, wx * equity, fb * equity, (m * 100) * bb} \subseteq Nat
      OBVIOUS
    <2>3. QED
      BY <1>6, <1>8, <1>10, <1>11, <2>1, <2>2
  <1>13. n * x <= m * bb
    <2>1. n * x \in Nat /\ m * bb \in Nat
      OBVIOUS
    <2>2. QED
      BY <1>12, <2>1
  <1>14. n * u = n * bb + n * x /\ money * bb = n * bb + m * bb
    BY <1>2, <1>3
  <1>15. cost * bb <= money * bb
    <2>1. {n * bb, n * x, m * bb, cost * bb} \subseteq Nat
      OBVIOUS
    <2>2. cost * bb <= n * u
      BY <1>1
    <2>3. QED
      BY <1>13, <1>14, <2>1, <2>2
  <1>16. QED
    BY <1>15, Cancel

-----------------------------------------------------------------------------
(***************************************************************************)
(* Prices and fills.                                                       *)
(***************************************************************************)
(* The hour has a day and a price for everything, and days do not go back. *)
LEMMA Moments ==
  ASSUME SessionTypes
  PROVE  /\ day \in Nat /\ last \in [Symbols -> Nat]
         /\ Len(feed) \in Nat
         /\ \A i \in 1..(Len(feed) - 1) : feed[i].day \in Nat /\ feed[i + 1].day \in Nat
                                          /\ feed[i].day <= feed[i + 1].day
  <1>1. feed \in Histories /\ hour \in 1..Len(feed)
    BY TradingAssumption DEF SessionTypes
  <1>2. /\ feed \in Seq([day : Nat, last : [Symbols -> Nat], trading : BOOLEAN])
        /\ \A i \in 1..(Len(feed) - 1) : feed[i].day <= feed[i + 1].day
    BY <1>1 DEF Histories
  <1>3. ASSUME NEW i \in 1..Len(feed)
        PROVE  feed[i].day \in Nat /\ feed[i].last \in [Symbols -> Nat]
    <2>1. feed[i] \in [day : Nat, last : [Symbols -> Nat], trading : BOOLEAN]
      BY <1>2, ElementOfSeq
    <2>2. QED
      BY <2>1
  <1>4. Len(feed) \in Nat
    BY <1>2
  <1>5. day \in Nat /\ last \in [Symbols -> Nat]
    BY <1>1, <1>3 DEF day, last
  <1>6. ASSUME NEW i \in 1..(Len(feed) - 1)
        PROVE  feed[i].day \in Nat /\ feed[i + 1].day \in Nat /\ feed[i].day <= feed[i + 1].day
    <2>1. i \in 1..Len(feed) /\ i + 1 \in 1..Len(feed)
      BY <1>4
    <2>2. QED
      BY <1>2, <1>3, <2>1
  <1>7. QED
    BY <1>4, <1>5, <1>6

(* Bid and ask are amounts.                                                *)
LEMMA Quotes ==
  ASSUME SessionTypes, NEW s \in Symbols
  PROVE  Bid(s) \in Nat /\ Ask(s) \in Nat
  <1>1. PICK n \in Nat : n = last[s]
    BY Moments
  <1>2. PICK p : p = IF s \in Crypto THEN CryptoSpread ELSE IF Open(s) THEN OpenSpread ELSE ClosedSpread
    OBVIOUS
  <1>3. p \in 0..Bps /\ Bps \in Nat \ {0}
    BY <1>2, TradingAssumption
  <1>4. (n * p) \div Bps \in 0..n
    BY <1>3, Shares
  <1>5. HalfSpread(s) \in 0..n
    BY <1>1, <1>2, <1>4 DEF HalfSpread
  <1>6. QED
    BY <1>1, <1>5 DEF Bid, Ask

(* What an order that is not refused costs, or brings.                     *)
LEMMA FillFacts ==
  ASSUME SessionTypes, NEW o \in OrderRecords, ~Refused(o)
  PROVE  /\ FillOf(o) \in FillRecords
         /\ FillOf(o).symbol = o.symbol /\ FillOf(o).side = o.side
         /\ FillOf(o).qty = o.qty /\ FillOf(o).day = day
         /\ o.side = "sell" => FillOf(o).commission <= o.qty * FillOf(o).price
  <1>1. /\ o.symbol \in Symbols /\ o.side \in Sides /\ o.qty \in Int
        /\ Bps \in Nat \ {0} /\ Slippage \in 0..Bps /\ Commission \in 0..Bps
    BY TradingAssumption DEF OrderRecords
  <1>2. PICK q \in Nat \ {0} : q = o.qty
    BY <1>1 DEF Refused
  <1>3. PICK t \in Nat : t = Touch(o)
    BY <1>1, Quotes DEF Touch
  <1>4. PICK d \in 0..t : d = (t * Slippage) \div Bps
    BY <1>1, Shares
  <1>5. PICK p \in Nat : p = Slipped(o)
    <2>1. Slipped(o) = IF o.side = "buy" THEN t + d ELSE t - d
      BY <1>3, <1>4 DEF Slipped
    <2>2. QED
      BY <2>1, <1>3, <1>4
  <1>6. PICK v \in Nat : v = q * p
    OBVIOUS
  <1>7. PICK c \in 0..v : c = (v * Commission) \div Bps
    BY <1>1, Shares
  <1>8. FillOf(o) = [symbol |-> o.symbol, side |-> o.side, qty |-> q, price |-> p,
                     commission |-> c, day |-> day]
    BY <1>2, <1>5, <1>6, <1>7 DEF FillOf
  <1>9. day \in Nat
    BY Moments
  <1>10. FillOf(o) \in FillRecords
    BY <1>1, <1>2, <1>5, <1>7, <1>8, <1>9 DEF FillRecords
  <1>11. QED
    BY <1>2, <1>6, <1>7, <1>8, <1>10

(* What is held is worth something.                                        *)
LEMMA Worth ==
  ASSUME SessionTypes, NoOverdraft
  PROVE  cash \in Nat /\ Equity \in Nat /\ cash <= Equity
  <1>1. cash \in Nat /\ \A s \in Symbols : qty[s] \in Nat
    BY DEF SessionTypes, NoOverdraft
  <1>2. PICK f : f = [s \in Symbols |-> qty[s] * last[s]]
    OBVIOUS
  <1>3. \A s \in Symbols : f[s] \in Nat
    BY <1>1, <1>2, Moments
  <1>4. SumFunctionOnSet(f, Symbols) \in Nat
    BY <1>3, SumNat, TradingAssumption
  <1>5. PICK worth \in Nat : worth = MarketValue
    BY <1>2, <1>4 DEF MarketValue, SumFunction
  <1>6. Equity = cash + worth
    BY <1>5 DEF Equity
  <1>7. QED
    BY <1>1, <1>6

(* A purchase that is not refused is paid for.                             *)
LEMMA BuyPaid ==
  ASSUME SessionTypes, NoOverdraft, NEW o \in OrderRecords, ~Refused(o), o.side = "buy"
  PROVE  o.qty * FillOf(o).price + FillOf(o).commission <= cash
  <1>1. /\ o.symbol \in Symbols /\ o.qty \in Int /\ Bps \in Nat \ {0}
        /\ Slippage \in Nat /\ Commission \in Nat /\ MaxPositionWeight \in Nat /\ MinCashBuffer \in Nat
    BY TradingAssumption DEF OrderRecords
  <1>2. PICK q \in Nat : q = o.qty
    BY <1>1 DEF Refused
  <1>3. PICK t \in Nat : t = Ask(o.symbol)
    BY <1>1, Quotes
  <1>4. FillOf(o) \in FillRecords /\ FillOf(o).price = Slipped(o)
        /\ FillOf(o).commission = (q * Slipped(o) * Commission) \div Bps
    BY <1>2, FillFacts DEF FillOf
  <1>5. PICK p \in Nat : p = Slipped(o)
    BY <1>4 DEF FillRecords
  <1>6. PICK c \in Nat : c = FillOf(o).commission
    BY <1>4 DEF FillRecords
  <1>7. p = t + (t * Slippage) \div Bps /\ c = (q * p * Commission) \div Bps
    BY <1>3, <1>4, <1>5, <1>6 DEF Slipped, Touch
  <1>8. PICK n \in Nat : n = q * t
    OBVIOUS
  <1>9. Notional(o) = n
    <2>1. Abs(o.qty) = q
      BY <1>2 DEF Abs
    <2>2. QED
      BY <1>3, <1>8, <2>1 DEF Notional, Touch
  <1>10. PICK cost \in Nat : cost = q * p + c
    OBVIOUS
  <1>11. PICK u \in Nat : u = (Bps + Slippage) * (Bps + Commission)
    BY <1>1
  <1>12. cost * (Bps * Bps) <= n * u
    BY <1>1, <1>7, <1>8, <1>10, <1>11, Costs
  <1>13. cash \in Nat /\ Equity \in Nat /\ cash <= Equity
    BY Worth
  <1>14. n <= cash
    BY <1>9, <1>13 DEF Refused, BuyReason
  <1>15. cost <= cash
    <2>1. CASE Equity = 0
      <3>1. n * u = 0
        BY <1>13, <1>14, <2>1
      <3>2. PICK bb \in Nat \ {0} : bb = Bps * Bps
        BY <1>1
      <3>3. cost * bb <= 0 * bb
        BY <1>12, <3>1, <3>2
      <3>4. cost <= 0
        BY <3>3, Cancel
      <3>5. QED
        BY <1>13, <3>4
    <2>2. CASE Equity > 0
      <3>1. ~((cash - n) * 100 < MinCashBuffer * Equity)
        BY <1>9, <2>2 DEF Refused, BuyReason
      <3>2. ~((qty[o.symbol] * Ask(o.symbol) + n) * 100 > MaxPositionWeight * Equity)
        BY <1>9, <2>2 DEF Refused, BuyReason
      <3>3. PICK fe \in Nat : fe = MinCashBuffer * Equity
        BY <1>1, <1>13
      <3>4. fe <= (cash - n) * 100
        BY <1>13, <3>1, <3>3
      <3>5. PICK we \in Nat : we = MaxPositionWeight * Equity
        BY <1>1, <1>13
      <3>6. PICK held \in Nat : held = qty[o.symbol] * Ask(o.symbol)
        <4>1. PICK h \in Nat : h = qty[o.symbol]
          BY <1>1 DEF SessionTypes, NoOverdraft
        <4>2. h * t \in Nat
          OBVIOUS
        <4>3. QED
          BY <1>3, <4>1, <4>2
      <3>7. n * 100 <= we
        BY <3>2, <3>5, <3>6
      <3>8. Bps * Bps <= u
        <4>1. u = Bps * Bps + Bps * Commission + Slippage * Bps + Slippage * Commission
          BY <1>1, <1>11
        <4>2. {Bps * Bps, Bps * Commission, Slippage * Bps, Slippage * Commission} \subseteq Nat
          BY <1>1
        <4>3. QED
          BY <4>1, <4>2
      <3>9. MaxPositionWeight * (u - Bps * Bps) <= MinCashBuffer * (Bps * Bps)
        BY <1>11, BufferAssumption
      <3>10. QED
        BY <1>1, <1>12, <1>13, <1>14, <3>3, <3>4, <3>5, <3>7, <3>8, <3>9, Affordable
    <2>3. QED
      BY <1>13, <2>1, <2>2
  <1>16. QED
    BY <1>2, <1>4, <1>5, <1>6, <1>10, <1>15

(* Nor is more sold than is held: a fill leaves no debt.                   *)
LEMMA FillNoOverdraft ==
  ASSUME SessionTypes, NoOverdraft, NEW o \in OrderRecords, ~Refused(o), Book(FillOf(o))
  PROVE  NoOverdraft'
  <1>1. PICK f : f = FillOf(o)
    OBVIOUS
  <1>2. /\ f \in FillRecords /\ f.symbol = o.symbol /\ f.side = o.side /\ f.qty = o.qty
        /\ o.side = "sell" => f.commission <= o.qty * f.price
    BY <1>1, FillFacts
  <1>3. PICK q \in Nat : q = f.qty
    BY <1>2 DEF FillRecords
  <1>4. PICK c \in Nat : c = f.commission
    BY <1>2 DEF FillRecords
  <1>5. PICK v \in Nat : v = q * f.price
    BY <1>2 DEF FillRecords
  <1>6. o.symbol \in Symbols /\ o.side \in Sides
    BY DEF OrderRecords
  <1>7. cash' = cash + CashDelta(f) /\ cash \in Nat /\ \A s \in Symbols : qty[s] \in Nat
    BY <1>1 DEF Book, SessionTypes, NoOverdraft
  <1>8. qty \in [Symbols -> Int]
    BY DEF SessionTypes
  <1>9. CASE o.side = "buy"
    <2>1. cash' >= 0
      <3>1. v + c <= cash
        BY <1>1, <1>2, <1>3, <1>4, <1>5, <1>9, BuyPaid
      <3>2. CashDelta(f) = -v - c
        BY <1>2, <1>3, <1>4, <1>5, <1>9 DEF CashDelta
      <3>3. QED
        BY <1>7, <3>1, <3>2
    <2>2. qty' = [qty EXCEPT ![o.symbol] = @ + q]
      BY <1>1, <1>2, <1>3, <1>9 DEF Book
    <2>3. \A s \in Symbols : qty'[s] >= 0
      BY <1>7, <1>8, <2>2
    <2>4. QED
      BY <2>1, <2>3 DEF NoOverdraft
  <1>10. CASE o.side = "sell"
    <2>1. cash' >= 0
      <3>1. c <= v
        BY <1>2, <1>3, <1>4, <1>5, <1>10
      <3>2. CashDelta(f) = v - c
        BY <1>2, <1>3, <1>4, <1>5, <1>10 DEF CashDelta
      <3>3. QED
        BY <1>7, <3>1, <3>2
    <2>2. qty' = [qty EXCEPT ![o.symbol] = @ - q]
      BY <1>1, <1>2, <1>3, <1>10 DEF Book
    <2>3. q <= qty[o.symbol]
      BY <1>2, <1>3, <1>6, <1>7, <1>10 DEF Refused, SellReason
    <2>4. \A s \in Symbols : qty'[s] >= 0
      BY <1>7, <1>8, <2>2, <2>3
    <2>5. QED
      BY <2>1, <2>4 DEF NoOverdraft
  <1>11. QED
    BY <1>6, <1>9, <1>10 DEF Sides

-----------------------------------------------------------------------------
(***************************************************************************)
(* The steps: an approval executes a fill, and no other step touches the   *)
(* portfolio or the fill of a proposal.                                    *)
(***************************************************************************)
Executes(id, f) ==
  /\ id \in DOMAIN proposals /\ proposals[id].status = "pending"
  /\ f \in FillRecords /\ f.day = day
  /\ f.side = "sell" => qty[f.symbol] > 0
  /\ Book(f) /\ NoOverdraft'
  /\ proposals' \in Seq(Proposals) /\ DOMAIN proposals' = DOMAIN proposals
  /\ proposals'[id].fill = f /\ proposals'[id].status = "filled"
  /\ \A i \in DOMAIN proposals \ {id} : proposals'[i] = proposals[i]
  /\ ordersToday < MaxOrdersPerDay /\ ~halted
  /\ Mark(ordersToday + 1, Equity') /\ Record("fill", id)
  /\ UNCHANGED <<clock, halted>> /\ executing' = 0

Quiet ==
  /\ UNCHANGED portfolio
  /\ proposals' \in Seq(Proposals) /\ DOMAIN proposals \subseteq DOMAIN proposals'
  /\ \A i \in DOMAIN proposals :
       /\ proposals'[i].fill = proposals[i].fill
       /\ proposals'[i].status \in {proposals[i].status, "rejected"}
  /\ \A i \in DOMAIN proposals' \ DOMAIN proposals : proposals'[i].fill = None

LEMMA ApproveExecutes ==
  ASSUME SessionTypes, NoOverdraft, NEW id \in DOMAIN proposals, Approve(id)
  PROVE  \E f : Executes(id, f)
  <1>1. PICK o : o = proposals[id].order
    OBVIOUS
  <1>2. proposals \in Seq(Proposals) /\ proposals[id] \in Proposals
    BY ElementOfSeq DEF SessionTypes
  <1>3. o \in OrderRecords
    BY <1>1, <1>2 DEF Proposals
  <1>4. PICK f : f = FillOf(o)
    OBVIOUS
  <1>5. /\ ~Refused(o) /\ Book(f) /\ proposals[id].status = "pending"
        /\ proposals' = [proposals EXCEPT ![id].status = "filled", ![id].fill = f]
        /\ Mark(ordersToday + 1, Equity') /\ Record("fill", id)
        /\ UNCHANGED <<clock, halted>> /\ executing' = 0
    BY <1>1, <1>4 DEF Approve
  <1>6. f \in FillRecords /\ f.day = day /\ f.symbol = o.symbol /\ f.side = o.side /\ f.qty = o.qty
    BY <1>3, <1>4, <1>5, FillFacts
  <1>7. NoOverdraft'
    BY <1>3, <1>4, <1>5, FillNoOverdraft
  <1>8. ~halted /\ ordersToday < MaxOrdersPerDay
    <2>1. ordersToday \in Int /\ MaxOrdersPerDay \in Int
      BY TradingAssumption DEF SessionTypes
    <2>2. ~halted /\ ~(ordersToday >= MaxOrdersPerDay)
      BY <1>5 DEF Refused
    <2>3. QED
      BY <2>1, <2>2
  <1>9. f.side = "sell" => qty[f.symbol] > 0
    <2>1. o.symbol \in Symbols /\ o.qty \in Int /\ qty[o.symbol] \in Int
      BY <1>3 DEF OrderRecords, SessionTypes
    <2>2. o.qty > 0 /\ (o.side = "sell" => o.qty <= qty[o.symbol])
      BY <1>5, <2>1 DEF Refused, SellReason
    <2>3. QED
      BY <1>6, <2>1, <2>2
  <1>10. PICK p : p = [proposals[id] EXCEPT !.status = "filled", !.fill = f]
    OBVIOUS
  <1>11. p \in Proposals /\ p.fill = f /\ p.status = "filled"
    BY <1>2, <1>6, <1>10 DEF Proposals
  <1>12. proposals' = [proposals EXCEPT ![id] = p]
    BY <1>5, <1>10
  <1>13. /\ proposals' \in Seq(Proposals) /\ DOMAIN proposals' = DOMAIN proposals
         /\ proposals'[id] = p
         /\ \A i \in DOMAIN proposals \ {id} : proposals'[i] = proposals[i]
    BY <1>2, <1>11, <1>12, ExceptSeq
  <1>14. QED
    BY <1>5, <1>6, <1>7, <1>8, <1>9, <1>11, <1>13 DEF Executes

LEMMA ProposeQuiet ==
  ASSUME SessionTypes, NEW o \in Orders, Propose(o)
  PROVE  /\ Quiet /\ DOMAIN proposals' = DOMAIN proposals \cup {Len(proposals) + 1}
         /\ Record("proposal", Len(proposals) + 1)
         /\ \A i \in DOMAIN proposals : proposals'[i] = proposals[i]
  <1>1. PICK order : order = [o EXCEPT !.qty = RoundQty(@)]
    OBVIOUS
  <1>2. order \in OrderRecords
    <2>1. o \in OrderRecords /\ LotSize \in Nat \ {0}
      BY TradingAssumption
    <2>2. RoundQty(o.qty) \in Int
      <3>1. PICK q \in Int : q = o.qty
        BY <2>1 DEF OrderRecords
      <3>2. CASE q < 0
        <4>1. PICK k \in Int : k = (-q) \div LotSize
          BY <2>1
        <4>2. QED
          BY <2>1, <3>1, <3>2, <4>1 DEF RoundQty
      <3>3. CASE q >= 0
        <4>1. PICK k \in Int : k = q \div LotSize
          BY <2>1
        <4>2. QED
          BY <2>1, <3>1, <3>3, <4>1 DEF RoundQty
      <3>4. QED
        BY <3>2, <3>3
    <2>3. QED
      BY <1>1, <2>1, <2>2 DEF OrderRecords
  <1>3. PICK status \in {"refused", "advisory", "pending"} :
          proposals' = Append(proposals, [order |-> order, fill |-> None, status |-> status])
    <2>1. PICK status : status = IF Refused(order)' THEN "refused"
                                 ELSE IF autonomy = "advisory" THEN "advisory" ELSE "pending"
      OBVIOUS
    <2>2. status \in {"refused", "advisory", "pending"}
      BY <2>1
    <2>3. proposals' = Append(proposals, [order |-> order, fill |-> None, status |-> status])
      BY <1>1, <2>1 DEF Propose
    <2>4. QED
      BY <2>2, <2>3
  <1>4. PICK p : p = [order |-> order, fill |-> None, status |-> status]
    OBVIOUS
  <1>5. p \in Proposals /\ p.fill = None
    BY <1>2, <1>4 DEF Proposals
  <1>6. proposals \in Seq(Proposals) /\ proposals' = Append(proposals, p)
    BY <1>3, <1>4 DEF SessionTypes
  <1>7. /\ proposals' \in Seq(Proposals) /\ Len(proposals') = Len(proposals) + 1 /\ Len(proposals) \in Nat
        /\ DOMAIN proposals = 1..Len(proposals) /\ DOMAIN proposals' = 1..(Len(proposals) + 1)
        /\ \A i \in 1..Len(proposals) : proposals'[i] = proposals[i]
        /\ proposals'[Len(proposals) + 1] = p
    BY <1>5, <1>6, AppendProperties, LenProperties
  <1>8. UNCHANGED portfolio /\ Record("proposal", Len(proposals) + 1)
    BY DEF Propose
  <1>9. DOMAIN proposals' = DOMAIN proposals \cup {Len(proposals) + 1}
    BY <1>7
  <1>10. QED
    BY <1>5, <1>7, <1>8, <1>9 DEF Quiet

LEMMA RejectQuiet ==
  ASSUME SessionTypes, NEW id \in DOMAIN proposals, Reject(id)
  PROVE  /\ Quiet /\ DOMAIN proposals' = DOMAIN proposals
         /\ proposals'[id].status = "rejected"
  <1>1. proposals \in Seq(Proposals) /\ proposals[id] \in Proposals
    BY ElementOfSeq DEF SessionTypes
  <1>2. PICK p : p = [proposals[id] EXCEPT !.status = "rejected"]
    OBVIOUS
  <1>3. p \in Proposals /\ p.fill = proposals[id].fill /\ p.status = "rejected"
    BY <1>1, <1>2 DEF Proposals
  <1>4. proposals' = [proposals EXCEPT ![id] = p]
    BY <1>2 DEF Reject
  <1>5. /\ proposals' \in Seq(Proposals) /\ DOMAIN proposals' = DOMAIN proposals
        /\ proposals'[id] = p
        /\ \A i \in DOMAIN proposals \ {id} : proposals'[i] = proposals[i]
    BY <1>1, <1>3, <1>4, ExceptSeq
  <1>6. UNCHANGED portfolio
    BY DEF Reject
  <1>7. QED
    BY <1>3, <1>5, <1>6 DEF Quiet

LEMMA QuietElsewhere ==
  ASSUME SessionTypes,
         Tick \/ MarkNow \/ ApproveRaises \/ Halt \/ Resume \/ UNCHANGED vars
  PROVE  Quiet /\ UNCHANGED proposals
  BY DEF Quiet, Tick, MarkNow, ApproveRaises, Halt, Resume, vars, portfolio, SessionTypes

LEMMA StepCases ==
  ASSUME SessionTypes, NoOverdraft, [Next]_vars
  PROVE  Quiet \/ \E id \in DOMAIN proposals : Approve(id) /\ \E f : Executes(id, f)
  BY ApproveExecutes, ProposeQuiet, RejectQuiet, QuietElsewhere DEF Next

-----------------------------------------------------------------------------
(***************************************************************************)
(* Double entry.                                                           *)
(***************************************************************************)
(* The fills of the proposals, and those of one symbol.                    *)
Flow == [id \in Filled |-> CashDelta(proposals[id].fill)]

FilledOf(s) == {i \in Filled : proposals[i].fill.symbol = s}

Moved(s) ==
  [id \in FilledOf(s) |->
     IF proposals[id].fill.side = "buy" THEN proposals[id].fill.qty ELSE -proposals[id].fill.qty]

Fees == [i \in DOMAIN fills |-> fills[i].commission]

LEMMA Balance ==
  BookBalances <=>
    /\ cash = StartingCash + SumFunction(Flow)
    /\ \A s \in Symbols : qty[s] = SumFunction(Moved(s))
    /\ cash + SumFunction(basis) = StartingCash + SumFunction(realised) - SumFunction(Fees)
  BY DEF BookBalances, Total, Flow, FilledOf, Moved, Fees

(* Fills are amounts.                                                      *)
LEMMA Amounts ==
  ASSUME SessionTypes
  PROVE  /\ IsFiniteSet(Filled) /\ \A s : IsFiniteSet(FilledOf(s))
         /\ \A id \in Filled : proposals[id].fill \in FillRecords
         /\ \A f \in FillRecords : CashDelta(f) \in Int
         /\ \A id \in Filled : Flow[id] \in Int
         /\ \A s : \A id \in FilledOf(s) : Moved(s)[id] \in Int
         /\ IsFiniteSet(DOMAIN fills) /\ \A i \in DOMAIN fills : Fees[i] \in Int
  <1>1. proposals \in Seq(Proposals) /\ fills \in Seq(FillRecords)
    BY DEF SessionTypes
  <1>2. /\ DOMAIN proposals = 1..Len(proposals) /\ Len(proposals) \in Nat
        /\ DOMAIN fills = 1..Len(fills) /\ Len(fills) \in Nat
    BY <1>1, LenProperties
  <1>3. IsFiniteSet(DOMAIN proposals) /\ IsFiniteSet(DOMAIN fills)
    BY <1>2, FS_Interval
  <1>4. IsFiniteSet(Filled) /\ \A s : IsFiniteSet(FilledOf(s))
    <2>1. Filled \subseteq DOMAIN proposals /\ \A s : FilledOf(s) \subseteq DOMAIN proposals
      BY DEF Filled, FilledOf
    <2>2. QED
      BY <1>3, <2>1, FS_Subset
  <1>5. ASSUME NEW id \in Filled PROVE proposals[id].fill \in FillRecords
    <2>1. proposals[id] \in Proposals /\ proposals[id].fill # None
      BY <1>1, <1>2, ElementOfSeq DEF Filled
    <2>2. QED
      BY <2>1 DEF Proposals
  <1>6. ASSUME NEW f \in FillRecords PROVE CashDelta(f) \in Int
    <2>1. f.qty \in Nat /\ f.price \in Nat /\ f.commission \in Nat
      BY DEF FillRecords
    <2>2. PICK v \in Nat : v = f.qty * f.price
      BY <2>1
    <2>3. CashDelta(f) = IF f.side = "buy" THEN -v - f.commission ELSE v - f.commission
      BY <2>2 DEF CashDelta
    <2>4. QED
      BY <2>1, <2>3
  <1>7. \A id \in Filled : Flow[id] \in Int
    BY <1>5, <1>6 DEF Flow
  <1>8. ASSUME NEW s, NEW id \in FilledOf(s) PROVE Moved(s)[id] \in Int
    <2>1. proposals[id].fill \in FillRecords
      BY <1>5 DEF FilledOf
    <2>2. proposals[id].fill.qty \in Nat
      BY <2>1 DEF FillRecords
    <2>3. QED
      BY <2>2 DEF Moved
  <1>9. ASSUME NEW i \in DOMAIN fills PROVE Fees[i] \in Int
    <2>1. fills[i] \in FillRecords
      BY <1>1, <1>2, ElementOfSeq
    <2>2. QED
      BY <2>1 DEF Fees, FillRecords
  <1>10. QED
    BY <1>3, <1>4, <1>5, <1>6, <1>7, <1>8, <1>9

LEMMA QuietBalance ==
  ASSUME SessionTypes, BookBalances, Quiet
  PROVE  BookBalances'
  <1>1. UNCHANGED <<cash, qty, basis, realised, fills>>
    BY DEF Quiet, portfolio
  <1>2. Filled' = Filled /\ \A id \in Filled : proposals'[id].fill = proposals[id].fill
    BY DEF Quiet, Filled
  <1>3. Flow' = Flow
    BY <1>2 DEF Flow
  <1>4. ASSUME NEW s \in Symbols PROVE Moved(s)' = Moved(s)
    <2>1. FilledOf(s)' = FilledOf(s)
      BY <1>2 DEF FilledOf
    <2>2. \A id \in FilledOf(s) : proposals'[id].fill = proposals[id].fill
      BY <1>2 DEF FilledOf
    <2>3. QED
      BY <2>1, <2>2 DEF Moved
  <1>5. Fees' = Fees
    BY <1>1 DEF Fees
  <1>6. QED
    BY <1>1, <1>3, <1>4, <1>5, Balance DEF BookBalances, Total, Flow, FilledOf, Moved, Fees

(* An executed proposal was not filled before.                             *)
LEMMA FilledOnce ==
  ASSUME SessionTypes, Unfilled, NEW id, NEW f, Executes(id, f)
  PROVE  /\ id \notin Filled /\ Filled' = Filled \cup {id} /\ proposals'[id].fill = f
         /\ \A i \in Filled : proposals'[i].fill = proposals[i].fill
  <1>1. f # None
    BY TradingAssumption DEF Executes
  <1>2. id \notin Filled
    BY DEF Executes, Unfilled, Filled
  <1>3. \A i \in DOMAIN proposals \ {id} : proposals'[i] = proposals[i]
    BY DEF Executes
  <1>4. /\ DOMAIN proposals' = DOMAIN proposals /\ id \in DOMAIN proposals
        /\ proposals'[id].fill = f
    BY DEF Executes
  <1>5. QED
    BY <1>1, <1>2, <1>3, <1>4 DEF Filled

LEMMA ExecutesBalance ==
  ASSUME SessionTypes, Unfilled, BookBalances, NEW id, NEW f, Executes(id, f)
  PROVE  BookBalances'
  <1>1. /\ id \notin Filled /\ Filled' = Filled \cup {id} /\ proposals'[id].fill = f
        /\ \A i \in Filled : proposals'[i].fill = proposals[i].fill
    BY FilledOnce
  <1>2. f \in FillRecords /\ Book(f)
    BY DEF Executes
  <1>3. /\ f.symbol \in Symbols /\ f.side \in Sides /\ f.qty \in Nat /\ f.price \in Nat /\ f.commission \in Nat
        /\ CashDelta(f) \in Int
    BY <1>2, Amounts DEF FillRecords
  <1>4. /\ cash \in Int /\ qty \in [Symbols -> Int] /\ basis \in [Symbols -> Int]
        /\ realised \in [Symbols -> Int] /\ fills \in Seq(FillRecords)
        /\ IsFiniteSet(Symbols) /\ StartingCash \in Int
    <2>1. /\ cash \in Int /\ qty \in [Symbols -> Int] /\ basis \in [Symbols -> Int]
          /\ realised \in [Symbols -> Int] /\ fills \in Seq(FillRecords)
      BY DEF SessionTypes
    <2>2. IsFiniteSet(Symbols) /\ StartingCash \in Int
      BY TradingAssumption
    <2>3. QED
      BY <2>1, <2>2
  <1>5. /\ cash = StartingCash + SumFunction(Flow)
        /\ \A s \in Symbols : qty[s] = SumFunction(Moved(s))
        /\ cash + SumFunction(basis) = StartingCash + SumFunction(realised) - SumFunction(Fees)
    BY Balance
  <1>6. cash' = StartingCash + SumFunction(Flow')
    <2>1. DOMAIN Flow = Filled /\ DOMAIN Flow' = Filled \cup {id} /\ Flow'[id] = CashDelta(f)
          /\ \A i \in Filled : Flow'[i] = Flow[i]
      BY <1>1 DEF Flow
    <2>2. PICK g : g = Flow'
      OBVIOUS
    <2>3. PICK h : h = Flow
      OBVIOUS
    <2>4. IsFiniteSet(Filled) /\ \A i \in Filled : h[i] \in Int
      BY <2>3, Amounts
    <2>5. SumFunction(g) = SumFunction(h) + g[id]
      BY <1>1, <1>3, <2>1, <2>2, <2>3, <2>4, TotalExtended
    <2>6. PICK n \in Int : n = SumFunction(h)
      BY <2>1, <2>3, <2>4, TotalInt
    <2>7. cash' = cash + CashDelta(f)
      BY <1>2 DEF Book
    <2>8. cash = StartingCash + n /\ SumFunction(Flow') = n + CashDelta(f)
      BY <1>5, <2>1, <2>2, <2>3, <2>5, <2>6
    <2>9. QED
      BY <1>3, <1>4, <2>7, <2>8
  <1>7. ASSUME NEW s \in Symbols PROVE qty'[s] = SumFunction(Moved(s)')
    <2>1. CASE s # f.symbol
      <3>1. FilledOf(s)' = FilledOf(s)
        BY <1>1, <2>1 DEF FilledOf
      <3>2. \A i \in FilledOf(s) : proposals'[i].fill = proposals[i].fill
        BY <1>1 DEF FilledOf
      <3>3. Moved(s)' = Moved(s)
        BY <3>1, <3>2 DEF Moved
      <3>4. qty'[s] = qty[s]
        BY <1>2, <1>4, <2>1 DEF Book
      <3>5. QED
        BY <1>5, <3>3, <3>4
    <2>2. CASE s = f.symbol
      <3>1. FilledOf(s)' = FilledOf(s) \cup {id} /\ id \notin FilledOf(s)
        BY <1>1, <2>2 DEF FilledOf
      <3>2. \A i \in FilledOf(s) : proposals'[i].fill = proposals[i].fill
        BY <1>1 DEF FilledOf
      <3>3. PICK g : g = Moved(s)'
        OBVIOUS
      <3>4. PICK h : h = Moved(s)
        OBVIOUS
      <3>5. DOMAIN h = FilledOf(s) /\ DOMAIN g = FilledOf(s) \cup {id}
            /\ \A i \in FilledOf(s) : g[i] = h[i]
        BY <3>1, <3>2, <3>3, <3>4 DEF Moved
      <3>6. g[id] = IF f.side = "buy" THEN f.qty ELSE -f.qty
        BY <1>1, <3>1, <3>3 DEF Moved
      <3>7. IsFiniteSet(FilledOf(s)) /\ \A i \in FilledOf(s) : h[i] \in Int
        BY <3>4, Amounts
      <3>8. SumFunction(g) = SumFunction(h) + g[id]
        BY <1>3, <3>1, <3>5, <3>6, <3>7, TotalExtended
      <3>9. qty'[s] = IF f.side = "buy" THEN qty[s] + f.qty ELSE qty[s] - f.qty
        BY <1>2, <1>4, <2>2 DEF Book
      <3>10. qty[s] = SumFunction(h) /\ qty[s] \in Int
        BY <1>4, <1>5, <3>4
      <3>11. QED
        BY <1>3, <3>3, <3>6, <3>8, <3>9, <3>10
    <2>3. QED
      BY <2>1, <2>2
  <1>8. cash' + SumFunction(basis') = StartingCash + SumFunction(realised') - SumFunction(Fees')
    <2>1. PICK v \in Int : v = f.qty * f.price /\ v = f.price * f.qty
      BY <1>3
    <2>2. PICK c \in Int : c = f.commission
      BY <1>3
    <2>3. PICK b \in Int : b = SumFunction(basis)
      BY <1>4, TotalInt
    <2>4. PICK r \in Int : r = SumFunction(realised)
      BY <1>4, TotalInt
    <2>5. DOMAIN Fees = DOMAIN fills /\ IsFiniteSet(DOMAIN fills) /\ \A i \in DOMAIN fills : Fees[i] \in Int
      BY Amounts DEF Fees
    <2>6. PICK x \in Int : x = SumFunction(Fees)
      BY <2>5, TotalInt
    <2>7. SumFunction(Fees') = x + c
      <3>1. fills' = Append(fills, f)
        BY <1>2 DEF Book
      <3>2. /\ DOMAIN fills' = DOMAIN fills \cup {Len(fills) + 1} /\ Len(fills) + 1 \notin DOMAIN fills
            /\ fills'[Len(fills) + 1] = f
            /\ \A i \in DOMAIN fills : fills'[i] = fills[i]
        <4>1. Len(fills') = Len(fills) + 1 /\ Len(fills) \in Nat /\ fills' \in Seq(FillRecords)
              /\ fills'[Len(fills) + 1] = f /\ \A i \in 1..Len(fills) : fills'[i] = fills[i]
          BY <1>2, <1>4, <3>1, AppendProperties, LenProperties
        <4>2. DOMAIN fills = 1..Len(fills) /\ DOMAIN fills' = 1..Len(fills')
          BY <1>4, <4>1, LenProperties
        <4>3. QED
          BY <4>1, <4>2
      <3>3. PICK g : g = Fees'
        OBVIOUS
      <3>4. PICK n : n = Len(fills) + 1
        OBVIOUS
      <3>5. n \notin DOMAIN fills /\ DOMAIN g = DOMAIN fills \cup {n} /\ g[n] = c
            /\ \A i \in DOMAIN fills : g[i] = Fees[i]
        BY <3>2, <3>3, <3>4, <2>2 DEF Fees
      <3>6. SumFunction(g) = SumFunction(Fees) + g[n]
        <4>1. PICK h : h = Fees
          OBVIOUS
        <4>2. DOMAIN h = DOMAIN fills /\ IsFiniteSet(DOMAIN h) /\ \A i \in DOMAIN h : h[i] \in Int
          BY <2>5, <4>1
        <4>3. n \notin DOMAIN h /\ DOMAIN g = DOMAIN h \cup {n} /\ g[n] \in Int
              /\ \A i \in DOMAIN h : g[i] = h[i]
          BY <2>2, <3>5, <4>1, <4>2
        <4>4. SumFunction(g) = SumFunction(h) + g[n]
          BY <4>2, <4>3, TotalExtended
        <4>5. QED
          BY <4>1, <4>4
      <3>7. SumFunction(g) = x + c
        BY <2>6, <3>5, <3>6
      <3>8. QED
        BY <3>3, <3>7
    <2>8. cash + b = StartingCash + r - x
      BY <1>5, <2>3, <2>4, <2>6
    <2>9. /\ IsFiniteSet(DOMAIN basis) /\ \A s \in DOMAIN basis : basis[s] \in Int
          /\ IsFiniteSet(DOMAIN realised) /\ \A s \in DOMAIN realised : realised[s] \in Int
          /\ f.symbol \in DOMAIN basis /\ f.symbol \in DOMAIN realised
      BY <1>3, <1>4
    <2>10. CASE f.side = "buy"
      <3>1. cash' = cash + (-v - c)
        BY <1>2, <2>1, <2>2, <2>10 DEF Book, CashDelta
      <3>2. basis' = [basis EXCEPT ![f.symbol] = @ + v] /\ realised' = realised
        BY <1>2, <2>1, <2>10 DEF Book
      <3>3. PICK g : g = basis'
        OBVIOUS
      <3>4. DOMAIN g = Symbols /\ DOMAIN basis = Symbols /\ g[f.symbol] = basis[f.symbol] + v
            /\ \A s \in Symbols \ {f.symbol} : g[s] = basis[s]
        BY <1>3, <1>4, <3>2, <3>3
      <3>5. basis[f.symbol] \in Int /\ g[f.symbol] \in Int
        BY <1>3, <1>4, <3>4
      <3>6. SumFunction(g) = SumFunction(basis) + (g[f.symbol] - basis[f.symbol])
        BY <2>9, <3>4, <3>5, TotalChanged
      <3>7. SumFunction(basis') = b + v
        BY <2>3, <3>3, <3>4, <3>6, <3>5
      <3>8. SumFunction(realised') = r
        BY <2>4, <3>2
      <3>9. QED
        BY <1>4, <2>7, <2>8, <3>1, <3>7, <3>8
    <2>11. CASE f.side = "sell"
      <3>1. PICK sold \in Int : sold = (basis[f.symbol] * f.qty) \div qty[f.symbol]
        <4>1. PICK k \in Int : k = basis[f.symbol] * f.qty
          BY <1>3, <1>4
        <4>2. PICK d \in Nat \ {0} : d = qty[f.symbol]
          BY <1>3, <1>4, <2>11 DEF Executes
        <4>3. k \div d \in Int
          OBVIOUS
        <4>4. QED
          BY <4>1, <4>2, <4>3
      <3>2. cash' = cash + (v - c)
        BY <1>2, <2>1, <2>2, <2>11 DEF Book, CashDelta
      <3>3. /\ basis' = [basis EXCEPT ![f.symbol] = @ - sold]
            /\ realised' = [realised EXCEPT ![f.symbol] = @ + v - sold]
        BY <1>2, <2>1, <2>11, <3>1 DEF Book
      <3>4. PICK g : g = basis'
        OBVIOUS
      <3>5. PICK h : h = realised'
        OBVIOUS
      <3>6. basis[f.symbol] \in Int /\ realised[f.symbol] \in Int
        BY <1>3, <1>4
      <3>7. DOMAIN g = Symbols /\ DOMAIN basis = Symbols /\ g[f.symbol] = basis[f.symbol] - sold
            /\ \A s \in Symbols \ {f.symbol} : g[s] = basis[s]
        BY <1>3, <1>4, <3>3, <3>4
      <3>8. DOMAIN h = Symbols /\ DOMAIN realised = Symbols /\ h[f.symbol] = realised[f.symbol] + v - sold
            /\ \A s \in Symbols \ {f.symbol} : h[s] = realised[s]
        BY <1>3, <1>4, <3>3, <3>5
      <3>9. g[f.symbol] \in Int /\ h[f.symbol] \in Int
        BY <3>6, <3>7, <3>8
      <3>10. SumFunction(g) = SumFunction(basis) + (g[f.symbol] - basis[f.symbol])
        BY <2>9, <3>7, <3>9, TotalChanged
      <3>11. SumFunction(h) = SumFunction(realised) + (h[f.symbol] - realised[f.symbol])
        BY <2>9, <3>8, <3>9, TotalChanged
      <3>12. SumFunction(basis') = b - sold /\ SumFunction(realised') = r + v - sold
        BY <2>3, <2>4, <3>4, <3>5, <3>6, <3>7, <3>8, <3>10, <3>11
      <3>13. QED
        BY <1>4, <2>7, <2>8, <3>2, <3>12
    <2>12. QED
      BY <1>3, <2>10, <2>11 DEF Sides
  <1>9. QED
    BY <1>6, <1>7, <1>8 DEF BookBalances, Total, Flow, FilledOf, Moved, Fees

-----------------------------------------------------------------------------
(***************************************************************************)
(* The journal.                                                            *)
(***************************************************************************)
(* Up to i nothing changes, and one entry is added at n + 1.               *)
KeptTo(i) == \A k, x : Before(i, k, x)' = Before(i, k, x)

AddedAt(n, kind, id) ==
  \A k, x : Before(n + 1, k, x)' =
              Before(n, k, x) \cup (IF k = kind /\ x = id THEN {n + 1} ELSE {})

LEMMA Recorded ==
  ASSUME SessionTypes, NEW kind \in Kinds, NEW id \in Nat, Record(kind, id)
  PROVE  /\ journal' \in Seq(Entries) /\ Len(journal) \in Nat /\ Len(journal') = Len(journal) + 1
         /\ DOMAIN journal = 1..Len(journal)
         /\ DOMAIN journal' = DOMAIN journal \cup {Len(journal) + 1}
         /\ \A j \in DOMAIN journal : journal'[j] = journal[j]
         /\ journal'[Len(journal) + 1].kind = kind /\ journal'[Len(journal) + 1].id = id
         /\ \A i \in 0..Len(journal) : KeptTo(i)
         /\ AddedAt(Len(journal), kind, id)
  <1>1. PICK e : e = [kind |-> kind, id |-> id]
    OBVIOUS
  <1>2. e \in Entries /\ e.kind = kind /\ e.id = id
    BY <1>1 DEF Entries
  <1>3. journal \in Seq(Entries) /\ journal' = Append(journal, e)
    BY <1>1 DEF SessionTypes, Record
  <1>4. PICK n \in Nat : n = Len(journal)
    BY <1>3
  <1>5. /\ journal' \in Seq(Entries) /\ Len(journal') = n + 1
        /\ \A j \in 1..n : journal'[j] = journal[j]
        /\ journal'[n + 1] = e
    BY <1>2, <1>3, <1>4, AppendProperties
  <1>6. DOMAIN journal = 1..n /\ DOMAIN journal' = 1..(n + 1)
    BY <1>3, <1>4, <1>5, LenProperties
  <1>7. ASSUME NEW i \in 0..n PROVE KeptTo(i)
    <2>1. \A j \in 1..i : journal'[j] = journal[j]
      BY <1>5
    <2>2. QED
      BY <2>1 DEF KeptTo, Before
  <1>8. AddedAt(n, kind, id)
    <2>1. 1..(n + 1) = (1..n) \cup {n + 1}
      OBVIOUS
    <2>2. QED
      BY <1>2, <1>5, <2>1 DEF AddedAt, Before
  <1>9. DOMAIN journal' = DOMAIN journal \cup {n + 1}
    BY <1>6
  <1>10. QED
    BY <1>2, <1>4, <1>5, <1>6, <1>7, <1>8, <1>9

LEMMA EntryFacts ==
  ASSUME SessionTypes
  PROVE  /\ Len(journal) \in Nat /\ DOMAIN journal = 1..Len(journal)
         /\ FillEntries \subseteq DOMAIN journal
         /\ \A j \in DOMAIN journal : journal[j] \in Entries
         /\ Len(fills) \in Nat /\ DOMAIN fills = 1..Len(fills)
         /\ Len(proposals) \in Nat /\ DOMAIN proposals = 1..Len(proposals)
  <1>1. journal \in Seq(Entries) /\ fills \in Seq(FillRecords) /\ proposals \in Seq(Proposals)
    BY DEF SessionTypes
  <1>2. QED
    BY <1>1, LenProperties, ElementOfSeq DEF FillEntries

(* What the journal says of fills is not changed by other entries.         *)
LEMMA AuditOther ==
  ASSUME SessionTypes, Journalled, FillsAudited, Quiet,
         \/ UNCHANGED journal
         \/ \E kind \in Kinds \ {"fill"}, id \in Nat : Record(kind, id)
  PROVE  FillsAudited'
  <1> DEFINE Audited(i) ==
        /\ proposals[journal[i].id].fill = fills[Cardinality(FillEntries \cap (1..i))]
        /\ Before(i, "proposal", journal[i].id) # {}
        /\ Before(i, "rejected", journal[i].id) = {}
        /\ Before(i - 1, "fill", journal[i].id) = {}
        /\ \A h \in Before(i, "halt", 0) : \E r \in Before(i, "resume", 0) : r > h
  <1>1. fills' = fills
    BY DEF Quiet, portfolio
  <1>2. /\ FillEntries' = FillEntries
        /\ \A i \in FillEntries : journal'[i] = journal[i]
        /\ \A i \in 0..Len(journal) : KeptTo(i)
    <2>1. CASE UNCHANGED journal
      BY <2>1 DEF FillEntries, KeptTo, Before
    <2>2. CASE \E kind \in Kinds \ {"fill"}, id \in Nat : Record(kind, id)
      <3>1. PICK kind \in Kinds \ {"fill"}, id \in Nat : Record(kind, id)
        BY <2>2
      <3>2. /\ DOMAIN journal' = DOMAIN journal \cup {Len(journal) + 1}
            /\ \A j \in DOMAIN journal : journal'[j] = journal[j]
            /\ journal'[Len(journal) + 1].kind = kind
            /\ \A i \in 0..Len(journal) : KeptTo(i)
        BY <3>1, Recorded
      <3>3. QED
        BY <3>2 DEF FillEntries
    <2>3. QED
      BY <2>1, <2>2
  <1>3. ASSUME NEW i \in FillEntries PROVE Audited(i)'
    <2>1. Audited(i)
      BY DEF FillsAudited
    <2>2. i \in 1..Len(journal) /\ Len(journal) \in Nat
      BY EntryFacts
    <2>3. i \in 0..Len(journal) /\ i - 1 \in 0..Len(journal)
      BY <2>2
    <2>4. journal[i].id \in DOMAIN proposals
      BY <2>2, EntryFacts DEF Journalled, FillEntries
    <2>5. proposals'[journal[i].id].fill = proposals[journal[i].id].fill
      BY <2>4 DEF Quiet
    <2>6. /\ journal'[i] = journal[i] /\ FillEntries' = FillEntries
          /\ \A k, x : Before(i, k, x)' = Before(i, k, x) /\ Before(i - 1, k, x)' = Before(i - 1, k, x)
      BY <1>2, <2>3 DEF KeptTo
    <2>7. QED
      BY <1>1, <2>1, <2>5, <2>6
  <1>4. Cardinality(FillEntries') = Len(fills')
    BY <1>1, <1>2 DEF FillsAudited
  <1>5. QED
    BY <1>2, <1>3, <1>4 DEF FillsAudited

(* A fill is entered once, after its proposal, and is the last.            *)
LEMMA AuditFill ==
  ASSUME SessionTypes, Unfilled, Journalled, FillsAudited, NEW id, NEW f, Executes(id, f)
  PROVE  FillsAudited'
  <1> DEFINE Audited(i) ==
        /\ proposals[journal[i].id].fill = fills[Cardinality(FillEntries \cap (1..i))]
        /\ Before(i, "proposal", journal[i].id) # {}
        /\ Before(i, "rejected", journal[i].id) = {}
        /\ Before(i - 1, "fill", journal[i].id) = {}
        /\ \A h \in Before(i, "halt", 0) : \E r \in Before(i, "resume", 0) : r > h
  <1>1. PICK n \in Nat : n = Len(journal)
    BY EntryFacts
  <1>2. PICK m \in Nat : m = Len(fills)
    BY EntryFacts
  <1>3. id \in DOMAIN proposals /\ id \in Nat /\ Record("fill", id) /\ "fill" \in Kinds
    BY EntryFacts DEF Executes, Kinds
  <1>4. /\ DOMAIN journal = 1..n /\ DOMAIN journal' = 1..n \cup {n + 1}
        /\ \A j \in 1..n : journal'[j] = journal[j]
        /\ journal'[n + 1].kind = "fill" /\ journal'[n + 1].id = id
        /\ \A i \in 0..n : KeptTo(i)
        /\ AddedAt(n, "fill", id)
    BY <1>1, <1>3, Recorded
  <1>5. FillEntries' = FillEntries \cup {n + 1} /\ n + 1 \notin FillEntries /\ FillEntries \subseteq 1..n
    BY <1>4 DEF FillEntries
  <1>6. IsFiniteSet(FillEntries)
    <2>1. IsFiniteSet(1..n)
      BY FS_Interval
    <2>2. QED
      BY <1>5, <2>1, FS_Subset
  <1>7. Cardinality(FillEntries) = m /\ Cardinality(FillEntries') = m + 1
    BY <1>2, <1>5, <1>6, FS_AddElement DEF FillsAudited
  <1>8. fills' = Append(fills, f) /\ f \in FillRecords /\ fills \in Seq(FillRecords)
    BY DEF Executes, Book, SessionTypes
  <1>9. Len(fills') = m + 1 /\ fills'[m + 1] = f /\ \A k \in 1..m : fills'[k] = fills[k]
    BY <1>2, <1>8, AppendProperties
  <1>10. ASSUME NEW i \in FillEntries PROVE Audited(i)'
    <2>1. Audited(i)
      BY DEF FillsAudited
    <2>2. i \in 1..n /\ i \in 0..n /\ i - 1 \in 0..n /\ i \in DOMAIN journal
      BY <1>4, <1>5
    <2>3. journal'[i] = journal[i]
      BY <1>4, <2>2
    <2>4. journal[i].kind = "fill"
      BY DEF FillEntries
    <2>5. journal[i].id \in DOMAIN proposals /\ journal[i].id # id
      BY <2>2, <2>4 DEF Journalled, Executes
    <2>6. proposals'[journal[i].id] = proposals[journal[i].id]
      BY <2>5 DEF Executes
    <2>7. (FillEntries \cap (1..i))' = FillEntries \cap (1..i)
      BY <1>5, <2>2
    <2>8. Cardinality(FillEntries \cap (1..i)) \in 1..m
      <3>1. PICK S : S = FillEntries \cap (1..i)
        OBVIOUS
      <3>2. S \subseteq FillEntries /\ S # {}
        BY <3>1, <2>2
      <3>3. Cardinality(S) \in Nat /\ Cardinality(S) <= m /\ Cardinality(S) # 0
        BY <1>6, <1>7, <3>2, FS_Subset, FS_EmptySet, FS_CardinalityType
      <3>4. QED
        BY <3>1, <3>3
    <2>9. fills'[Cardinality(FillEntries \cap (1..i))] = fills[Cardinality(FillEntries \cap (1..i))]
      BY <1>9, <2>8
    <2>10. \A k, x : Before(i, k, x)' = Before(i, k, x) /\ Before(i - 1, k, x)' = Before(i - 1, k, x)
      BY <1>4, <2>2 DEF KeptTo
    <2>11. proposals'[journal'[i].id].fill = fills'[Cardinality(FillEntries \cap (1..i))]
      BY <2>1, <2>3, <2>6, <2>9
    <2>12. PICK w : w = journal[i].id /\ w = journal'[i].id
      BY <2>3
    <2>13. /\ Before(i, "proposal", w)' # {} /\ Before(i, "rejected", w)' = {}
           /\ Before(i - 1, "fill", w)' = {}
           /\ \A h \in Before(i, "halt", 0)' : \E r \in Before(i, "resume", 0)' : r > h
      BY <2>1, <2>10, <2>12
    <2>14. proposals'[w].fill = fills'[Cardinality(FillEntries \cap (1..i))']
      BY <2>7, <2>11, <2>12
    <2>15. QED
      BY <2>12, <2>13, <2>14
  <1>11. Audited(n + 1)'
    <2>1. proposals'[id].fill = f
      BY DEF Executes
    <2>2. FillEntries' \cap (1..(n + 1)) = FillEntries'
      <3>1. FillEntries' \subseteq 1..n \cup {n + 1} /\ 1..(n + 1) = 1..n \cup {n + 1}
        BY <1>5
      <3>2. QED
        BY <3>1
    <2>3. AddedAt(n, "fill", id)
      BY <1>4
    <2>4. ASSUME NEW j \in 1..n, journal[j].kind \in {"fill", "rejected"} PROVE journal[j].id # id
      BY <1>4, <2>4 DEF Journalled, Executes
    <2>5. Before(n, "rejected", id) = {} /\ Before(n, "fill", id) = {}
      BY <2>4 DEF Before
    <2>6. Before(n, "proposal", id) # {}
      BY <1>1, <1>3 DEF Journalled
    <2>7. \A h \in Before(n, "halt", 0) : \E r \in Before(n, "resume", 0) : r > h
      BY <1>1 DEF Journalled, Executes
    <2>8. ASSUME NEW k, NEW x, k # "fill" PROVE Before(n + 1, k, x)' = Before(n, k, x)
      <3>1. Before(n + 1, k, x)' =
              Before(n, k, x) \cup (IF k = "fill" /\ x = id THEN {n + 1} ELSE {})
        BY <2>3 DEF AddedAt
      <3>2. QED
        BY <2>8, <3>1
    <2>9. \A x : /\ Before(n + 1, "proposal", x)' = Before(n, "proposal", x)
                 /\ Before(n + 1, "rejected", x)' = Before(n, "rejected", x)
                 /\ Before(n + 1, "halt", x)' = Before(n, "halt", x)
                 /\ Before(n + 1, "resume", x)' = Before(n, "resume", x)
      BY <2>8
    <2>10. Before(n, "fill", id)' = Before(n, "fill", id) /\ (n + 1) - 1 = n
      BY <1>4 DEF KeptTo
    <2>11. journal'[n + 1].id = id
      BY <1>4
    <2>12. proposals'[journal'[n + 1].id].fill = fills'[Cardinality(FillEntries' \cap (1..(n + 1)))]
      BY <1>7, <1>9, <2>1, <2>2, <2>11
    <2>13. QED
      BY <2>5, <2>6, <2>7, <2>9, <2>10, <2>11, <2>12
  <1>12. QED
    <2>1. \A i \in FillEntries' : Audited(i)'
      BY <1>5, <1>10, <1>11
    <2>2. QED
      BY <1>7, <1>9, <2>1 DEF FillsAudited

(* An entry keeps the journal in step with the proposals and with halted,  *)
(* if it tells of what happened to them.                                   *)
LEMMA JournalKept ==
  ASSUME SessionTypes, Journalled, NEW kind \in Kinds, NEW id \in Nat, Record(kind, id),
         DOMAIN proposals \subseteq DOMAIN proposals',
         \A i \in DOMAIN proposals : proposals[i].status # "pending" => proposals'[i].status # "pending",
         \A i \in DOMAIN proposals' \ DOMAIN proposals : kind = "proposal" /\ i = id,
         kind \in {"fill", "rejected"} => id \in DOMAIN proposals /\ proposals'[id].status # "pending",
         \/ halted'
         \/ kind = "resume" /\ id = 0
         \/ halted' = halted /\ kind # "halt"
  PROVE  Journalled'
  <1>1. PICK n \in Nat : n = Len(journal)
    BY EntryFacts
  <1>2. /\ DOMAIN journal = 1..n /\ DOMAIN journal' = 1..n \cup {n + 1} /\ Len(journal') = n + 1
        /\ \A j \in 1..n : journal'[j] = journal[j]
        /\ journal'[n + 1].kind = kind /\ journal'[n + 1].id = id
    BY <1>1, Recorded
  <1>3. AddedAt(n, kind, id)
    BY <1>1, Recorded
  <1>4. ASSUME NEW k, NEW x
        PROVE  /\ Before(n, k, x) \subseteq Before(n + 1, k, x)'
               /\ k # kind => Before(n + 1, k, x)' = Before(n, k, x)
               /\ k = kind /\ x = id => n + 1 \in Before(n + 1, k, x)'
    <2>1. Before(n + 1, k, x)' =
            Before(n, k, x) \cup (IF k = kind /\ x = id THEN {n + 1} ELSE {})
      BY <1>3 DEF AddedAt
    <2>2. QED
      BY <2>1
  <1>5. ASSUME NEW i \in DOMAIN proposals' PROVE Before(n + 1, "proposal", i)' # {}
    <2>1. CASE i \in DOMAIN proposals
      <3>1. Before(n, "proposal", i) # {}
        BY <1>1, <2>1 DEF Journalled
      <3>2. QED
        BY <1>4, <3>1
    <2>2. CASE i \notin DOMAIN proposals
      BY <1>4, <2>2
    <2>3. QED
      BY <2>1, <2>2
  <1>6. ASSUME NEW j \in DOMAIN journal', journal'[j].kind \in {"fill", "rejected"}
        PROVE  journal'[j].id \in DOMAIN proposals' /\ proposals'[journal'[j].id].status # "pending"
    <2>1. CASE j = n + 1
      BY <1>2, <1>6, <2>1
    <2>2. CASE j # n + 1
      <3>1. j \in DOMAIN journal /\ journal'[j] = journal[j]
        BY <1>2, <2>2
      <3>2. journal[j].id \in DOMAIN proposals /\ proposals[journal[j].id].status # "pending"
        BY <1>6, <3>1 DEF Journalled
      <3>3. QED
        BY <3>1, <3>2
    <2>3. QED
      BY <2>1, <2>2
  <1>7. ASSUME ~halted' PROVE \A h \in Before(n + 1, "halt", 0)' : \E r \in Before(n + 1, "resume", 0)' : r > h
    <2>1. Before(n + 1, "halt", 0)' = Before(n, "halt", 0) /\ kind # "halt"
      BY <1>4, <1>7
    <2>2. SUFFICES ASSUME NEW h \in Before(n, "halt", 0)
                   PROVE  \E r \in Before(n + 1, "resume", 0)' : r > h
      BY <2>1
    <2>3. h \in 1..n
      BY DEF Before
    <2>4. CASE kind = "resume" /\ id = 0
      <3>1. n + 1 \in Before(n + 1, "resume", 0)'
        BY <1>4, <2>4
      <3>2. QED
        BY <2>3, <3>1
    <2>5. CASE halted' = halted
      <3>1. \E r \in Before(n, "resume", 0) : r > h
        BY <1>1, <1>7, <2>5 DEF Journalled
      <3>2. QED
        BY <1>4, <3>1
    <2>6. QED
      BY <1>7, <2>4, <2>5
  <1>8. QED
    BY <1>2, <1>5, <1>6, <1>7 DEF Journalled

(* Every step keeps the journal.                                           *)
LEMMA JournalInvariant ==
  ASSUME SessionInv, [Next]_vars
  PROVE  Unfilled' /\ Journalled' /\ FillsAudited'
  <1>1. SessionTypes /\ NoOverdraft /\ Unfilled /\ Journalled /\ FillsAudited
    BY DEF SessionInv
  <1>2. CASE Tick \/ MarkNow \/ ApproveRaises \/ UNCHANGED vars
    <2>1. UNCHANGED <<proposals, journal, halted>>
      BY <1>2 DEF Tick, MarkNow, ApproveRaises, vars
    <2>2. Quiet
      BY <1>1, <1>2, QuietElsewhere
    <2>3. Unfilled' /\ Journalled'
      BY <1>1, <2>1 DEF Unfilled, Journalled, Before
    <2>4. QED
      BY <1>1, <2>1, <2>2, <2>3, AuditOther
  <1>3. CASE Halt \/ Resume
    <2>1. UNCHANGED proposals /\ Quiet
      BY <1>1, <1>3, QuietElsewhere
    <2>2. PICK kind \in {"halt", "resume"} : Record(kind, 0) /\ (halted' \/ kind = "resume")
      BY <1>3 DEF Halt, Resume
    <2>3. kind \in Kinds \ {"fill"}
      BY DEF Kinds
    <2>4. Unfilled'
      BY <1>1, <2>1 DEF Unfilled
    <2>5. Journalled'
      BY <1>1, <2>1, <2>2, <2>3, JournalKept
    <2>6. FillsAudited'
      BY <1>1, <2>1, <2>2, <2>3, AuditOther
    <2>7. QED
      BY <2>4, <2>5, <2>6
  <1>4. CASE \E o \in Orders : Propose(o)
    <2>1. PICK o \in Orders : Propose(o)
      BY <1>4
    <2>2. PICK id : id = Len(proposals) + 1
      OBVIOUS
    <2>3. /\ Quiet /\ DOMAIN proposals' = DOMAIN proposals \cup {id}
          /\ Record("proposal", id)
          /\ \A i \in DOMAIN proposals : proposals'[i] = proposals[i]
      BY <1>1, <2>1, <2>2, ProposeQuiet
    <2>4. id \in Nat /\ "proposal" \in Kinds \ {"fill"}
      BY <1>1, <2>2, EntryFacts DEF Kinds
    <2>5. UNCHANGED halted
      BY <2>1 DEF Propose
    <2>6. Unfilled'
      BY <1>1, <2>3 DEF Unfilled, Quiet
    <2>7. Journalled'
      BY <1>1, <2>3, <2>4, <2>5, JournalKept
    <2>8. FillsAudited'
      BY <1>1, <2>3, <2>4, AuditOther
    <2>9. QED
      BY <2>6, <2>7, <2>8
  <1>5. CASE \E id \in DOMAIN proposals : Reject(id)
    <2>1. PICK id \in DOMAIN proposals : Reject(id)
      BY <1>5
    <2>2. Quiet /\ DOMAIN proposals' = DOMAIN proposals /\ proposals'[id].status = "rejected"
      BY <1>1, <2>1, RejectQuiet
    <2>3. id \in Nat /\ "rejected" \in Kinds \ {"fill"}
      BY <1>1, EntryFacts DEF Kinds
    <2>4. UNCHANGED halted /\ Record("rejected", id)
      BY <2>1 DEF Reject
    <2>5. \A i \in DOMAIN proposals : proposals'[i].fill = proposals[i].fill
            /\ proposals'[i].status \in {proposals[i].status, "rejected"}
      BY <2>2 DEF Quiet
    <2>6. Unfilled'
      BY <1>1, <2>2, <2>5 DEF Unfilled
    <2>7. Journalled'
      BY <1>1, <2>2, <2>3, <2>4, <2>5, JournalKept
    <2>8. FillsAudited'
      BY <1>1, <2>2, <2>3, <2>4, AuditOther
    <2>9. QED
      BY <2>6, <2>7, <2>8
  <1>6. CASE \E id \in DOMAIN proposals : Approve(id)
    <2>1. PICK id \in DOMAIN proposals : \E f : Executes(id, f)
      BY <1>1, <1>6, ApproveExecutes
    <2>2. PICK f : Executes(id, f)
      BY <2>1
    <2>3. /\ DOMAIN proposals' = DOMAIN proposals
          /\ proposals'[id].status = "filled"
          /\ \A i \in DOMAIN proposals \ {id} : proposals'[i] = proposals[i]
          /\ Record("fill", id) /\ UNCHANGED halted
      BY <2>2 DEF Executes
    <2>4. id \in Nat /\ "fill" \in Kinds
      BY <1>1, EntryFacts DEF Kinds
    <2>5. Unfilled'
      BY <1>1, <2>3 DEF Unfilled
    <2>6. Journalled'
      BY <1>1, <2>3, <2>4, JournalKept
    <2>7. FillsAudited'
      BY <1>1, <2>2, AuditFill
    <2>8. QED
      BY <2>5, <2>6, <2>7
  <1>7. QED
    BY <1>2, <1>3, <1>4, <1>5, <1>6 DEF Next

-----------------------------------------------------------------------------
(***************************************************************************)
(* The fills of a day.                                                     *)
(***************************************************************************)
(* Marking a new day finds no fill on it.                                  *)
LEMMA MarkCounts ==
  ASSUME SessionTypes, Counted, UNCHANGED <<clock, fills>>,
         Mark(ordersToday, Equity) \/ UNCHANGED counters
  PROVE  Counted'
  <1>1. day' = day /\ fills' = fills
    BY DEF clock, day
  <1>2. PICK today \in Nat : today = day
    BY Moments
  <1>3. sessionDay \in Nat /\ MaxOrdersPerDay \in Nat
    BY TradingAssumption DEF SessionTypes
  <1>4. CASE sessionDay' = sessionDay /\ ordersToday' = ordersToday
    BY <1>1, <1>4 DEF Counted
  <1>5. CASE today # sessionDay /\ sessionDay' = today /\ ordersToday' = 0
    <2>1. sessionDay < today /\ \A i \in DOMAIN fills : fills[i].day <= sessionDay
      BY <1>2, <1>3, <1>5 DEF Counted
    <2>2. \A i \in DOMAIN fills : fills[i].day \in Nat
      <3>1. fills \in Seq(FillRecords)
        BY DEF SessionTypes
      <3>2. \A i \in DOMAIN fills : fills[i] \in FillRecords
        BY <3>1, EntryFacts, ElementOfSeq
      <3>3. QED
        BY <3>2 DEF FillRecords
    <2>3. \A i \in DOMAIN fills : fills[i].day < today
      BY <1>3, <2>1, <2>2
    <2>4. On(today, fills) = {}
      BY <2>2, <2>3 DEF On
    <2>5. Cardinality(On(today, fills)) = 0
      BY <2>4, FS_EmptySet
    <2>6. \A i \in DOMAIN fills : fills[i].day <= today
      BY <2>2, <2>3
    <2>7. QED
      BY <1>1, <1>2, <1>5, <2>5, <2>6 DEF Counted
  <1>6. QED
    BY <1>2, <1>4, <1>5 DEF Mark, counters

(* A fill adds one to its day, and is counted unless the day is new.       *)
LEMMA FillCounts ==
  ASSUME SessionTypes, Counted, NEW id, NEW f, Executes(id, f)
  PROVE  Counted'
  <1>1. PICK today \in Nat : today = day
    BY Moments
  <1>2. PICK m \in Nat : m = Len(fills)
    BY EntryFacts
  <1>3. sessionDay \in Nat /\ MaxOrdersPerDay \in Nat /\ ordersToday \in Nat
    BY TradingAssumption DEF SessionTypes
  <1>4. /\ fills \in Seq(FillRecords) /\ fills' = Append(fills, f) /\ f \in FillRecords
        /\ f.day = today /\ day' = today
    BY <1>1 DEF SessionTypes, Executes, Book, clock, day
  <1>5. /\ fills' \in Seq(FillRecords) /\ Len(fills') = m + 1 /\ fills'[m + 1] = f
        /\ \A i \in 1..m : fills'[i] = fills[i]
    BY <1>2, <1>4, AppendProperties
  <1>6. DOMAIN fills = 1..m /\ DOMAIN fills' = 1..m \cup {m + 1} /\ m + 1 \notin 1..m
    BY <1>2, <1>4, <1>5, LenProperties
  <1>7. \A i \in DOMAIN fills : fills[i].day \in Nat /\ fills[i].day <= sessionDay
    <2>1. \A i \in DOMAIN fills : fills[i] \in FillRecords
      BY <1>2, <1>4, <1>6, ElementOfSeq
    <2>2. QED
      BY <2>1 DEF FillRecords, Counted
  <1>8. sessionDay' = today /\ sessionDay <= today
    BY <1>1 DEF Executes, Mark, Counted
  <1>9. \A i \in DOMAIN fills' : fills'[i].day <= today
    <2>1. \A i \in DOMAIN fills : fills[i].day <= today
      BY <1>3, <1>7, <1>8
    <2>2. QED
      BY <1>4, <1>5, <1>6, <2>1
  <1>10. \A d : d # today => On(d, fills') = On(d, fills)
    BY <1>4, <1>5, <1>6 DEF On
  <1>11. On(today, fills') = On(today, fills) \cup {m + 1} /\ m + 1 \notin On(today, fills)
    BY <1>4, <1>5, <1>6 DEF On
  <1>12. IsFiniteSet(On(today, fills))
    <2>1. IsFiniteSet(1..m) /\ On(today, fills) \subseteq 1..m
      BY <1>6, FS_Interval DEF On
    <2>2. QED
      BY <2>1, FS_Subset
  <1>13. PICK k \in Nat : k = Cardinality(On(today, fills))
    BY <1>12, FS_CardinalityType
  <1>14. Cardinality(On(today, fills')) = k + 1
    BY <1>11, <1>12, <1>13, FS_AddElement
  <1>15. k + 1 <= ordersToday' + 1 /\ ordersToday' <= MaxOrdersPerDay /\ ordersToday' \in Int
    <2>1. CASE today # sessionDay
      <3>1. ordersToday' = 0
        BY <1>1, <2>1 DEF Executes, Mark
      <3>2. On(today, fills) = {}
        BY <1>3, <1>7, <1>8, <2>1 DEF On
      <3>3. k = 0
        BY <1>13, <3>2, FS_EmptySet
      <3>4. QED
        BY <1>3, <3>1, <3>3
    <2>2. CASE today = sessionDay
      <3>1. ordersToday' = ordersToday + 1 /\ ordersToday < MaxOrdersPerDay
        BY <1>1, <2>2 DEF Executes, Mark
      <3>2. k <= ordersToday + 1
        BY <1>13, <2>2 DEF Counted
      <3>3. QED
        BY <1>3, <3>1, <3>2
    <2>3. QED
      BY <2>1, <2>2
  <1>16. ASSUME NEW d \in Nat PROVE Cardinality(On(d, fills')) <= MaxOrdersPerDay + 1
    <2>1. CASE d = today
      <3>1. k <= MaxOrdersPerDay
        <4>1. PICK n \in Int : n = ordersToday'
          BY <1>15
        <4>2. k + 1 <= n + 1
          BY <1>15, <4>1
        <4>3. k <= n
          BY ONLY <4>2, <1>13, k \in Nat, n \in Int
        <4>4. n <= MaxOrdersPerDay
          BY <1>15, <4>1
        <4>5. QED
          BY ONLY <4>3, <4>4, <1>3, k \in Nat, n \in Int
      <3>2. QED
        BY <1>3, <1>14, <2>1, <3>1
    <2>2. CASE d # today
      BY <1>10, <2>2 DEF Counted
    <2>3. QED
      BY <2>1, <2>2
  <1>17. sessionDay' <= day' /\ \A i \in DOMAIN fills' : fills'[i].day <= sessionDay'
    BY <1>4, <1>8, <1>9
  <1>18. Cardinality(On(sessionDay', fills')) <= ordersToday' + 1
    BY <1>8, <1>14, <1>15
  <1>19. QED
    BY <1>16, <1>17, <1>18 DEF Counted

LEMMA CountInvariant ==
  ASSUME SessionInv, [Next]_vars
  PROVE  Counted'
  <1>1. SessionTypes /\ NoOverdraft /\ Counted
    BY DEF SessionInv
  <1>2. CASE Tick
    <2>1. hour \in 1..Len(feed) /\ hour < Len(feed) /\ hour' = hour + 1 /\ feed' = feed
      BY <1>1, <1>2 DEF Tick, SessionTypes
    <2>2. hour \in 1..(Len(feed) - 1)
      BY <1>1, <2>1, Moments
    <2>3. feed[hour].day \in Nat /\ feed[hour + 1].day \in Nat /\ feed[hour].day <= feed[hour + 1].day
      BY <1>1, <2>2, Moments
    <2>4. sessionDay \in Nat /\ sessionDay <= feed[hour].day
      BY <1>1 DEF SessionTypes, Counted, day
    <2>5. day' = feed[hour + 1].day
      BY <2>1 DEF day
    <2>6. UNCHANGED <<fills, ordersToday, sessionDay>>
      BY <1>2 DEF Tick, portfolio, counters
    <2>7. sessionDay' <= day'
      BY <2>3, <2>4, <2>5, <2>6
    <2>8. QED
      BY <1>1, <2>6, <2>7 DEF Counted
  <1>3. CASE MarkNow \/ (\E o \in Orders : Propose(o)) \/ (\E id \in DOMAIN proposals : Reject(id))
             \/ ApproveRaises \/ Halt \/ Resume \/ UNCHANGED vars
    <2>1. UNCHANGED <<clock, fills>>
      BY <1>3 DEF MarkNow, Propose, Reject, ApproveRaises, Halt, Resume, vars, portfolio
    <2>2. Mark(ordersToday, Equity) \/ UNCHANGED counters
      BY <1>3 DEF MarkNow, Propose, Reject, ApproveRaises, Halt, Resume, vars
    <2>3. QED
      BY <1>1, <2>1, <2>2, MarkCounts
  <1>4. CASE \E id \in DOMAIN proposals : Approve(id)
    <2>1. PICK id \in DOMAIN proposals : \E f : Executes(id, f)
      BY <1>1, <1>4, ApproveExecutes
    <2>2. QED
      BY <1>1, <2>1, FillCounts
  <1>5. QED
    BY <1>2, <1>3, <1>4 DEF Next

-----------------------------------------------------------------------------
(***************************************************************************)
(* The theorems.                                                           *)
(***************************************************************************)
LEMMA MoneyTypes ==
  ASSUME SessionTypes, NoOverdraft, [Next]_vars
  PROVE  /\ cash' \in Int /\ qty' \in [Symbols -> Int]
         /\ basis' \in [Symbols -> Int] /\ realised' \in [Symbols -> Int]
         /\ fills' \in Seq(FillRecords) /\ proposals' \in Seq(Proposals)
         /\ NoOverdraft'
  <1>1. CASE Quiet
    BY <1>1 DEF Quiet, portfolio, SessionTypes, NoOverdraft
  <1>2. CASE \E id, f : Executes(id, f)
    <2>1. PICK id, f : Executes(id, f)
      BY <1>2
    <2>2. f \in FillRecords /\ Book(f) /\ NoOverdraft' /\ proposals' \in Seq(Proposals)
      BY <2>1 DEF Executes
    <2>3. f.symbol \in Symbols /\ f.qty \in Nat /\ f.price \in Nat /\ CashDelta(f) \in Int
      BY <2>2, Amounts DEF FillRecords
    <2>4. /\ cash \in Int /\ qty \in [Symbols -> Int] /\ basis \in [Symbols -> Int]
          /\ realised \in [Symbols -> Int] /\ fills \in Seq(FillRecords)
      BY DEF SessionTypes
    <2>5. PICK v \in Int : v = f.price * f.qty
      BY <2>3
    <2>6. cash' \in Int /\ fills' \in Seq(FillRecords)
      <3>1. cash' = cash + CashDelta(f) /\ fills' = Append(fills, f)
        BY <2>2 DEF Book
      <3>2. cash' \in Int
        BY <2>3, <2>4, <3>1
      <3>3. QED
        BY <2>2, <2>4, <3>1, <3>2, AppendProperties
    <2>7. CASE f.side = "buy"
      <3>1. /\ qty' = [qty EXCEPT ![f.symbol] = @ + f.qty]
            /\ basis' = [basis EXCEPT ![f.symbol] = @ + v] /\ realised' = realised
        BY <2>2, <2>5, <2>7 DEF Book
      <3>2. qty' \in [Symbols -> Int]
        BY <2>3, <2>4, <3>1
      <3>3. basis' \in [Symbols -> Int]
        BY <2>3, <2>4, <2>5, <3>1
      <3>4. realised' \in [Symbols -> Int]
        BY <2>4, <3>1
      <3>5. QED
        BY <2>2, <2>6, <3>2, <3>3, <3>4
    <2>8. CASE f.side # "buy"
      <3>1. PICK k \in Int : k = basis[f.symbol] * f.qty
        BY <2>3, <2>4
      <3>2. PICK d \in Nat \ {0} : d = qty[f.symbol]
        <4>1. f.side = "sell"
          BY <2>2, <2>8 DEF FillRecords, Sides
        <4>2. QED
          BY <2>1, <2>3, <2>4, <4>1 DEF Executes
      <3>3. PICK sold \in Int : sold = k \div d
        OBVIOUS
      <3>4. /\ qty' = [qty EXCEPT ![f.symbol] = @ - f.qty]
            /\ basis' = [basis EXCEPT ![f.symbol] = @ - sold]
            /\ realised' = [realised EXCEPT ![f.symbol] = @ + v - sold]
        <4>1. /\ qty' = [qty EXCEPT ![f.symbol] = @ - f.qty]
              /\ LET gone == (basis[f.symbol] * f.qty) \div qty[f.symbol]
                 IN /\ basis' = [basis EXCEPT ![f.symbol] = @ - gone]
                    /\ realised' = [realised EXCEPT ![f.symbol] = @ + f.price * f.qty - gone]
          BY <2>2, <2>8 DEF Book
        <4>2. QED
          BY ONLY <2>5, <3>1, <3>2, <3>3, <4>1
      <3>5. qty' \in [Symbols -> Int]
        BY <2>3, <2>4, <3>4
      <3>6. basis' \in [Symbols -> Int]
        BY <2>3, <2>4, <3>3, <3>4
      <3>7. realised' \in [Symbols -> Int]
        <4>1. PICK gain \in Int : gain = realised[f.symbol] + v - sold
          BY <2>3, <2>4, <2>5, <3>3
        <4>2. realised' = [realised EXCEPT ![f.symbol] = gain]
          BY <3>4, <4>1
        <4>3. QED
          BY <2>4, <4>1, <4>2
      <3>8. QED
        BY <2>2, <2>6, <3>5, <3>6, <3>7
    <2>9. QED
      BY <2>7, <2>8
  <1>3. QED
    BY <1>1, <1>2, StepCases

LEMMA TypesInvariant ==
  ASSUME SessionInv, [Next]_vars
  PROVE  SessionTypes' /\ NoOverdraft'
  <1>1. SessionTypes /\ NoOverdraft
    BY DEF SessionInv
  <1>2. feed' \in Feeds /\ hour' \in 1..Len(feed)'
    <2>1. feed \in Feeds /\ hour \in 1..Len(feed) /\ Len(feed) \in Nat
      BY <1>1, Moments DEF SessionTypes
    <2>2. CASE Tick
      BY <2>1, <2>2 DEF Tick
    <2>3. CASE UNCHANGED clock
      BY <2>1, <2>3 DEF clock
    <2>4. QED
      BY <2>2, <2>3 DEF Next, MarkNow, Propose, Approve, Reject, ApproveRaises, Halt, Resume, vars
  <1>3. halted' \in BOOLEAN
    BY <1>1 DEF SessionTypes, Next, Tick, MarkNow, Propose, Approve, Reject, ApproveRaises, Halt, Resume, vars
  <1>4. journal' \in Seq(Entries)
    <2>1. CASE UNCHANGED journal
      BY <1>1, <2>1 DEF SessionTypes
    <2>2. CASE \E kind \in Kinds, id \in Nat : Record(kind, id)
      BY <1>1, <2>2, Recorded
    <2>3. \A id \in DOMAIN proposals : id \in Nat
      BY <1>1, EntryFacts
    <2>4. Len(proposals) + 1 \in Nat
      BY <1>1, EntryFacts
    <2>5. QED
      BY <2>1, <2>2, <2>3, <2>4
        DEF Kinds, Next, Tick, MarkNow, Propose, Approve, Reject, ApproveRaises, Halt, Resume, vars
  <1>5. ordersToday' \in 0..MaxOrdersPerDay /\ sessionDay' \in Nat
    <2>1. /\ ordersToday \in 0..MaxOrdersPerDay /\ sessionDay \in Nat /\ day \in Nat
          /\ MaxOrdersPerDay \in Nat
      BY <1>1, Moments, TradingAssumption DEF SessionTypes
    <2>2. CASE Mark(ordersToday, Equity) \/ UNCHANGED counters
      BY <2>1, <2>2 DEF Mark, counters
    <2>3. CASE \E id, f : Executes(id, f)
      <3>1. ordersToday < MaxOrdersPerDay /\ Mark(ordersToday + 1, Equity')
        BY <2>3 DEF Executes
      <3>2. QED
        BY <2>1, <3>1 DEF Mark
    <2>4. CASE \E id \in DOMAIN proposals : Approve(id)
      BY <1>1, <2>3, <2>4, ApproveExecutes
    <2>5. QED
      BY <2>2, <2>4 DEF Next, Tick, MarkNow, Propose, Reject, ApproveRaises, Halt, Resume, vars
  <1>6. executing' \in Nat
    <2>1. executing \in Nat /\ Len(proposals) + 1 \in Nat
      BY <1>1, EntryFacts DEF SessionTypes
    <2>2. CASE \E o \in Orders : Propose(o)
      <3>1. executing' = Len(proposals) + 1 \/ executing' = 0
        BY <2>2 DEF Propose
      <3>2. QED
        BY <2>1, <3>1
    <2>3. CASE executing' \in {executing, 0}
      BY <2>1, <2>3
    <2>4. QED
      BY <2>3, <2>2 DEF Next, Tick, MarkNow, Approve, Reject, ApproveRaises, Halt, Resume, vars
  <1>7. QED
    BY <1>1, <1>2, <1>3, <1>4, <1>5, <1>6, MoneyTypes DEF SessionTypes

LEMMA SessionStep == SessionInv /\ [Next]_vars => SessionInv'
  <1>1. SUFFICES ASSUME SessionInv, [Next]_vars PROVE SessionInv'
    OBVIOUS
  <1>2. BookBalances'
    <2>1. SessionTypes /\ NoOverdraft /\ Unfilled /\ BookBalances
      BY <1>1 DEF SessionInv
    <2>2. QED
      BY <1>1, <2>1, StepCases, QuietBalance, ExecutesBalance
  <1>3. QED
    BY <1>1, <1>2, TypesInvariant, JournalInvariant, CountInvariant DEF SessionInv

LEMMA SessionStart == Init => SessionInv
  <1>1. SUFFICES ASSUME Init PROVE SessionInv
    OBVIOUS
  <1>2. PICK none : none = << >>
    OBVIOUS
  <1>3. DOMAIN none = {} /\ Len(none) = 0 /\ \A S : none \in Seq(S)
    BY <1>2
  <1>4. /\ feed \in Feeds /\ hour = 1 /\ cash = StartingCash
        /\ qty = [s \in Symbols |-> 0] /\ basis = qty /\ realised = qty
        /\ fills = none /\ proposals = none /\ journal = none
        /\ halted = FALSE /\ ordersToday = 0 /\ sessionDay = day /\ executing = 0
    BY <1>1, <1>2 DEF Init
  <1>5. feed \in Histories /\ StartingCash \in Nat /\ MaxOrdersPerDay \in Nat /\ IsFiniteSet(Symbols)
    BY <1>4, TradingAssumption
  <1>6. hour \in 1..Len(feed) /\ day \in Nat
    <2>1. /\ feed \in Seq([day : Nat, last : [Symbols -> Nat], trading : BOOLEAN])
          /\ Len(feed) > 0
      BY <1>5 DEF Histories
    <2>2. Len(feed) \in Nat
      BY <2>1
    <2>3. 1 \in 1..Len(feed)
      BY <2>1, <2>2
    <2>4. feed[1] \in [day : Nat, last : [Symbols -> Nat], trading : BOOLEAN]
      BY <2>1, <2>3, ElementOfSeq
    <2>5. QED
      BY <1>4, <2>3, <2>4 DEF day
  <1>7. SessionTypes
    <2>1. ordersToday \in 0..MaxOrdersPerDay
      BY <1>4, <1>5
    <2>2. cash \in Int /\ sessionDay \in Nat /\ executing \in Nat
      BY <1>4, <1>5, <1>6
    <2>3. halted \in BOOLEAN
      BY <1>4
    <2>4. qty \in [Symbols -> Int] /\ basis \in [Symbols -> Int] /\ realised \in [Symbols -> Int]
      BY <1>4
    <2>5. fills \in Seq(FillRecords) /\ proposals \in Seq(Proposals) /\ journal \in Seq(Entries)
      BY <1>3, <1>4
    <2>6. QED
      BY <1>4, <1>6, <2>1, <2>2, <2>4, <2>5, <2>3 DEF SessionTypes
  <1>8. Unfilled /\ Journalled
    BY <1>3, <1>4 DEF Unfilled, Journalled, Before
  <1>9. Counted
    <2>1. \A d : On(d, fills) = {}
      BY <1>3, <1>4 DEF On
    <2>2. \A d : Cardinality(On(d, fills)) = 0
      BY <2>1, FS_EmptySet
    <2>3. QED
      BY <1>3, <1>4, <1>5, <1>6, <2>2 DEF Counted
  <1>10. NoOverdraft
    BY <1>4, <1>5 DEF NoOverdraft
  <1>11. FillsAudited
    <2>1. FillEntries = {}
      BY <1>3, <1>4 DEF FillEntries
    <2>2. QED
      BY <1>3, <1>4, <2>1, FS_EmptySet DEF FillsAudited
  <1>12. BookBalances
    <2>1. Filled = {} /\ \A s : FilledOf(s) = {}
      BY <1>3, <1>4 DEF Filled, FilledOf
    <2>2. DOMAIN Flow = {} /\ \A s : DOMAIN Moved(s) = {}
      BY <2>1 DEF Flow, Moved
    <2>3. DOMAIN Fees = {}
      BY <1>3, <1>4 DEF Fees
    <2>4. SumFunction(Flow) = 0 /\ SumFunction(Fees) = 0 /\ \A s : SumFunction(Moved(s)) = 0
      BY <2>2, <2>3, TotalOfNone
    <2>5. SumFunction(basis) = 0 /\ SumFunction(realised) = 0
      BY <1>4, <1>5, TotalOfZeros
    <2>6. QED
      BY <1>4, <1>5, <2>4, <2>5, Balance
  <1>13. QED
    BY <1>7, <1>8, <1>9, <1>10, <1>11, <1>12 DEF SessionInv

(* The inductive invariant of the session.                                 *)
THEOREM SessionInvariance == Spec => []SessionInv
  BY SessionStart, SessionStep, PTL DEF Spec

(* Double entry: cash and positions are what the fills made them, whatever *)
(* is proposed, approved, rejected, filled and marked in whatever order.   *)
THEOREM BooksBalance == Spec => []BookBalances
  <1>1. SessionInv => BookBalances
    BY DEF SessionInv
  <1>2. QED
    BY SessionInvariance, <1>1, PTL

(* Every fill is journalled once, after its proposal, and never after a    *)
(* rejection or in a halt.                                                 *)
THEOREM FillsJournalled == Spec => []FillsAudited
  <1>1. SessionInv => FillsAudited
    BY DEF SessionInv
  <1>2. QED
    BY SessionInvariance, <1>1, PTL

(* The limits, checked at the touch, leave no debt after slippage and      *)
(* commission, provided the cash buffer covers these.                      *)
THEOREM NoDebt == Spec => []NoOverdraft
  <1>1. SessionInv => NoOverdraft
    BY DEF SessionInv
  <1>2. QED
    BY SessionInvariance, <1>1, PTL

(* No day has more fills than its cap and the one that a new day's first   *)
(* approval does not count.                                                *)
THEOREM DayCapped == Spec => []FillsPerDay
  <1>1. SessionInv => FillsPerDay
    <2>1. SUFFICES ASSUME SessionInv, NEW moment \in Range(feed)
                   PROVE  Cardinality(FillsOn(moment.day)) <= MaxOrdersPerDay + 1
      BY DEF FillsPerDay
    <2>2. feed \in Histories
      BY <2>1, TradingAssumption DEF SessionInv, SessionTypes
    <2>3. feed \in Seq([day : Nat, last : [Symbols -> Nat], trading : BOOLEAN])
      BY <2>2 DEF Histories
    <2>4. PICK i \in DOMAIN feed : moment = feed[i]
      BY <2>1 DEF Range
    <2>5. moment \in [day : Nat, last : [Symbols -> Nat], trading : BOOLEAN]
      BY <2>3, <2>4, ElementOfSeq, LenProperties
    <2>6. moment.day \in Nat
      BY <2>5
    <2>7. QED
      BY <2>1, <2>6 DEF SessionInv, Counted, FillsOn, On
  <1>2. QED
    BY SessionInvariance, <1>1, PTL

-----------------------------------------------------------------------------
(***************************************************************************)
(* The price feed.                                                         *)
(***************************************************************************)

(* The walk under a path of n days, which _path() grows                    *)
Walking(s, n, w) ==
  w = [d \in 0..n |->
        IF d = 0 THEN [close |-> ReferencePrice, drawn |-> 0]
        ELSE IF ~Steps(s, d) THEN w[d - 1]
        ELSE LET next == w[d - 1].close + Draws[s][w[d - 1].drawn + 1]
             IN [close |-> IF next < Floor THEN Floor ELSE next, drawn |-> w[d - 1].drawn + 1]]

Walk(s, n) == CHOOSE w : Walking(s, n, w)

(* Days to step in, of the first d                                         *)
Due(s, d) == Cardinality({x \in 1..d : Steps(s, x)})

LEMMA WalkExists == ASSUME NEW s, NEW n \in Nat PROVE Walking(s, n, Walk(s, n))
  <1> DEFINE N == {m \in Nat : \E w : Walking(s, m, w)}
  <1>1. 0 \in N
    <2>1. Walking(s, 0, [d \in 0..0 |-> [close |-> ReferencePrice, drawn |-> 0]])
      BY DEF Walking
    <2>2. QED
      BY <2>1
  <1>2. ASSUME NEW m \in Nat, m \in N PROVE m + 1 \in N
    <2>1. PICK w : Walking(s, m, w)
      BY <1>2
    <2> DEFINE Next1(v, d) ==
          IF d = 0 THEN [close |-> ReferencePrice, drawn |-> 0]
          ELSE IF ~Steps(s, d) THEN v[d - 1]
          ELSE LET next == v[d - 1].close + Draws[s][v[d - 1].drawn + 1]
               IN [close |-> IF next < Floor THEN Floor ELSE next, drawn |-> v[d - 1].drawn + 1]
    <2> DEFINE v == [d \in 0..(m + 1) |-> Next1(w, d)]
    <2>2. w = [d \in 0..m |-> Next1(w, d)]
      BY <2>1 DEF Walking
    <2>3. ASSUME NEW d \in 0..(m + 1) PROVE Next1(v, d) = Next1(w, d)
      <3>1. CASE d = 0
        BY <3>1
      <3>2. CASE d # 0
        <4>1. d - 1 \in 0..m /\ d - 1 \in 0..(m + 1)
          BY <3>2
        <4>2. v[d - 1] = w[d - 1]
          <5> HIDE DEF Next1
          <5>1. v[d - 1] = Next1(w, d - 1)
            BY <4>1
          <5>2. w[d - 1] = Next1(w, d - 1)
            BY <2>2, <4>1
          <5>3. QED
            BY <5>1, <5>2
        <4>3. QED
          <5> HIDE DEF v
          <5>1. QED
            BY <4>2
      <3>3. QED
        BY <3>1, <3>2
    <2>4. v = [d \in 0..(m + 1) |-> Next1(v, d)]
      <3> HIDE DEF Next1
      <3>1. QED
        BY <2>3
    <2>5. Walking(s, m + 1, v)
      <3> HIDE DEF v
      <3>1. QED
        BY <2>4 DEF Walking
    <2>6. QED
      BY <2>5
  <1>3. n \in N
    <2> HIDE DEF N
    <2>1. QED
      BY <1>1, <1>2, Induction
  <1>4. QED
    BY <1>3 DEF Walk

(* How a walk goes on from a day to the next.                              *)
LEMMA WalkSteps ==
  ASSUME NEW s, NEW n \in Nat
  PROVE  /\ Walk(s, n)[0] = [close |-> ReferencePrice, drawn |-> 0]
         /\ \A d \in 1..n :
              Walk(s, n)[d] =
                IF ~Steps(s, d) THEN Walk(s, n)[d - 1]
                ELSE LET next == Walk(s, n)[d - 1].close + Draws[s][Walk(s, n)[d - 1].drawn + 1]
                     IN [close |-> IF next < Floor THEN Floor ELSE next,
                         drawn |-> Walk(s, n)[d - 1].drawn + 1]
  <1>1. PICK w : w = Walk(s, n)
    OBVIOUS
  <1>2. Walking(s, n, w)
    BY <1>1, WalkExists
  <1>3. w[0] = [close |-> ReferencePrice, drawn |-> 0]
    BY <1>2 DEF Walking
  <1>4. ASSUME NEW d \in 1..n
        PROVE  w[d] = IF ~Steps(s, d) THEN w[d - 1]
                      ELSE LET next == w[d - 1].close + Draws[s][w[d - 1].drawn + 1]
                           IN [close |-> IF next < Floor THEN Floor ELSE next, drawn |-> w[d - 1].drawn + 1]
    <2>1. d \in 0..n /\ d # 0
      OBVIOUS
    <2>2. QED
      BY <1>2, <2>1 DEF Walking
  <1>5. QED
    BY <1>1, <1>3, <1>4

(* A longer walk begins as a shorter one: the generator is seeded anew.    *)
LEMMA SameWalk ==
  ASSUME NEW s, NEW n \in Nat, NEW m \in Nat, NEW d \in 0..n, d <= m
  PROVE  Walk(s, n)[d] = Walk(s, m)[d]
  <1> DEFINE N == {x \in Nat : x <= n /\ x <= m => Walk(s, n)[x] = Walk(s, m)[x]}
  <1>1. 0 \in N
    BY WalkSteps
  <1>2. ASSUME NEW x \in Nat, x \in N PROVE x + 1 \in N
    <2>1. SUFFICES ASSUME x + 1 <= n, x + 1 <= m PROVE Walk(s, n)[x + 1] = Walk(s, m)[x + 1]
      OBVIOUS
    <2>2. Walk(s, n)[x] = Walk(s, m)[x]
      BY <1>2, <2>1
    <2>3. x + 1 \in 1..n /\ x + 1 \in 1..m /\ (x + 1) - 1 = x
      BY <2>1
    <2>4. PICK v, w : v = Walk(s, n) /\ w = Walk(s, m)
      OBVIOUS
    <2>5. v[x + 1] = IF ~Steps(s, x + 1) THEN v[x]
                     ELSE LET next == v[x].close + Draws[s][v[x].drawn + 1]
                          IN [close |-> IF next < Floor THEN Floor ELSE next, drawn |-> v[x].drawn + 1]
      BY <2>3, <2>4, WalkSteps
    <2>6. w[x + 1] = IF ~Steps(s, x + 1) THEN w[x]
                     ELSE LET next == w[x].close + Draws[s][w[x].drawn + 1]
                          IN [close |-> IF next < Floor THEN Floor ELSE next, drawn |-> w[x].drawn + 1]
      BY <2>3, <2>4, WalkSteps
    <2>7. v[x] = w[x]
      BY <2>2, <2>4
    <2>8. QED
      BY <2>4, <2>5, <2>6, <2>7
  <1>3. d \in N
    <2> HIDE DEF N
    <2>1. QED
      BY <1>1, <1>2, Induction
  <1>4. QED
    BY <1>3

(* One draw for each day that is stepped in.                               *)
LEMMA DrawsDue == ASSUME NEW s, NEW n \in Nat, NEW d \in 0..n PROVE Walk(s, n)[d].drawn = Due(s, d)
  <1> DEFINE N == {x \in Nat : x <= n => Walk(s, n)[x].drawn = Due(s, x)}
  <1>1. 0 \in N
    <2>1. {x \in 1..0 : Steps(s, x)} = {}
      OBVIOUS
    <2>2. QED
      BY <2>1, WalkSteps, FS_EmptySet DEF Due
  <1>2. ASSUME NEW x \in Nat, x \in N PROVE x + 1 \in N
    <2>1. SUFFICES ASSUME x + 1 <= n PROVE Walk(s, n)[x + 1].drawn = Due(s, x + 1)
      OBVIOUS
    <2>2. Walk(s, n)[x].drawn = Due(s, x)
      BY <1>2, <2>1
    <2>3. PICK w : w = Walk(s, n)
      OBVIOUS
    <2>4. x + 1 \in 1..n /\ (x + 1) - 1 = x
      BY <2>1
    <2>5. w[x + 1] = IF ~Steps(s, x + 1) THEN w[x]
                     ELSE LET next == w[x].close + Draws[s][w[x].drawn + 1]
                          IN [close |-> IF next < Floor THEN Floor ELSE next, drawn |-> w[x].drawn + 1]
      BY <2>3, <2>4, WalkSteps
    <2>6. PICK S : S = {y \in 1..x : Steps(s, y)}
      OBVIOUS
    <2>7. IsFiniteSet(S) /\ x + 1 \notin S /\ Due(s, x) = Cardinality(S)
      <3>1. IsFiniteSet(1..x) /\ S \subseteq 1..x
        BY <2>6, FS_Interval
      <3>2. QED
        BY <2>6, <3>1, FS_Subset DEF Due
    <2>8. CASE Steps(s, x + 1)
      <3>1. {y \in 1..(x + 1) : Steps(s, y)} = S \cup {x + 1}
        BY <2>6, <2>8
      <3>2. Due(s, x + 1) = Due(s, x) + 1
        BY <2>7, <3>1, FS_AddElement DEF Due
      <3>3. w[x + 1].drawn = w[x].drawn + 1
        BY <2>5, <2>8
      <3>4. QED
        BY <2>2, <2>3, <3>2, <3>3
    <2>9. CASE ~Steps(s, x + 1)
      <3>1. {y \in 1..(x + 1) : Steps(s, y)} = S
        BY <2>6, <2>9
      <3>2. QED
        BY <2>2, <2>3, <2>5, <2>7, <2>9, <3>1 DEF Due
    <2>10. QED
      BY <2>8, <2>9
  <1>3. d \in N
    <2> HIDE DEF N
    <2>1. QED
      BY <1>1, <1>2, Induction
  <1>4. QED
    BY <1>3

(* The close of a day, whoever asks for it and when.                       *)
Close(s, d) == Walk(s, d)[d].close

LEMMA RegrownCloses ==
  ASSUME NEW s, NEW days \in Nat
  PROVE  Regrown(s, days) = [i \in 1..(days + 1) |-> Close(s, i - 1)]
  <1>1. Regrown(s, days) = [i \in 1..(days + 1) |-> Walk(s, days)[i - 1].close]
    BY DEF Regrown, Walk, Walking
  <1>2. ASSUME NEW i \in 1..(days + 1) PROVE Walk(s, days)[i - 1].close = Close(s, i - 1)
    <2>1. i - 1 \in Nat /\ i - 1 \in 0..days /\ i - 1 <= i - 1
      OBVIOUS
    <2>2. Walk(s, days)[i - 1] = Walk(s, i - 1)[i - 1]
      BY <2>1, SameWalk
    <2>3. QED
      BY <2>2 DEF Close
  <1>3. QED
    BY <1>1, <1>2

LEMMA CloseMoves ==
  ASSUME NEW s, NEW d \in Nat
  PROVE  LET move == Close(s, d) + Draws[s][Due(s, d + 1)]
         IN Close(s, d + 1) =
              IF ~Steps(s, d + 1) THEN Close(s, d) ELSE IF move < Floor THEN Floor ELSE move
  <1>1. PICK w : w = Walk(s, d + 1)
    OBVIOUS
  <1>2. d + 1 \in Nat /\ d \in 0..d /\ d \in 0..(d + 1) /\ d + 1 \in 1..(d + 1) /\ d + 1 \in 0..(d + 1)
        /\ (d + 1) - 1 = d /\ d <= d + 1
    OBVIOUS
  <1>3. w[d] = Walk(s, d)[d]
    BY <1>1, <1>2, SameWalk
  <1>4. w[d + 1] = IF ~Steps(s, d + 1) THEN w[d]
                   ELSE LET next == w[d].close + Draws[s][w[d].drawn + 1]
                        IN [close |-> IF next < Floor THEN Floor ELSE next, drawn |-> w[d].drawn + 1]
    BY <1>1, <1>2, WalkSteps
  <1>5. w[d + 1].drawn = Due(s, d + 1)
    BY <1>1, <1>2, DrawsDue
  <1>6. Close(s, d) = w[d].close /\ Close(s, d + 1) = w[d + 1].close
    BY <1>1, <1>3 DEF Close
  <1>7. CASE Steps(s, d + 1)
    <2>1. w[d].drawn + 1 = Due(s, d + 1)
      BY <1>4, <1>5, <1>7
    <2>2. QED
      BY <1>4, <1>6, <1>7, <2>1
  <1>8. CASE ~Steps(s, d + 1)
    BY <1>4, <1>6, <1>8
  <1>9. QED
    BY <1>7, <1>8

(* What is cached, and what was told, are the closes of their days.        *)
Instruments == Equities \cup Coins

FeedInv ==
  /\ DOMAIN paths = Instruments
  /\ \A s \in Instruments : \E n \in Nat : paths[s] = [i \in 1..n |-> Close(s, i - 1)]
  /\ \A a \in told : \E s \in Instruments : \E d \in Nat : a = <<s, d, Close(s, d)>>

(* What is cached begins with the days it is asked for.                    *)
LEMMA CachedCloses ==
  ASSUME NEW s, NEW n \in Nat, NEW path, path = [i \in 1..n |-> Close(s, i - 1)], NEW d \in Nat
  PROVE  /\ Len(path) = n
         /\ d < n => SubSeq(path, 1, d + 1) = [i \in 1..(d + 1) |-> Close(s, i - 1)]
  <1> DEFINE C == {Close(s, i - 1) : i \in 1..n}
  <1>1. path \in [1..n -> C]
    OBVIOUS
  <1>2. path \in Seq(C) /\ Len(path) = n
    <2> HIDE DEF C
    <2>1. QED
      BY <1>1
  <1>3. ASSUME d < n PROVE SubSeq(path, 1, d + 1) = [i \in 1..(d + 1) |-> Close(s, i - 1)]
    <2>1. d + 1 \in 1..Len(path) /\ 1 \in 1..Len(path)
      BY <1>2, <1>3
    <2>2. PICK t : t = SubSeq(path, 1, d + 1)
      OBVIOUS
    <2>3. t \in Seq(C) /\ Len(t) = d + 1 /\ \A i \in 1..(d + 1) : t[i] = path[i]
      <3> HIDE DEF C
      <3>1. QED
        BY <1>2, <2>1, <2>2
    <2>4. t = [i \in 1..(d + 1) |-> t[i]]
      BY <2>3
    <2>5. \A i \in 1..(d + 1) : t[i] = Close(s, i - 1)
      <3>1. SUFFICES ASSUME NEW i \in 1..(d + 1) PROVE t[i] = Close(s, i - 1)
        OBVIOUS
      <3>2. i \in 1..n
        BY <1>3
      <3>3. path[i] = Close(s, i - 1)
        BY <3>2
      <3>4. QED
        BY <2>3, <3>3
    <2>6. QED
      BY <2>2, <2>4, <2>5
  <1>4. QED
    BY <1>2, <1>3

LEMMA ClosesKeeps ==
  ASSUME FeedInv, NEW s \in Instruments, NEW d \in 0..MaxDay, NEW n \in Counts, Closes(s, d, n)
  PROVE  FeedInv'
  <1>1. d \in Nat /\ n \in Int
    BY FeedAssumption
  <1>2. PICK m \in Nat : paths[s] = [i \in 1..m |-> Close(s, i - 1)]
    BY DEF FeedInv
  <1>3. PICK path : path = IF Len(paths[s]) > d THEN SubSeq(paths[s], 1, d + 1) ELSE Regrown(s, d)
    OBVIOUS
  <1>4. path = [i \in 1..(d + 1) |-> Close(s, i - 1)]
    <2>1. CASE d < m
      BY <1>1, <1>2, <1>3, <2>1, CachedCloses
    <2>2. CASE ~(d < m)
      <3>1. Len(paths[s]) = m
        BY <1>1, <1>2, CachedCloses
      <3>2. path = Regrown(s, d)
        BY <1>1, <1>3, <2>2, <3>1
      <3>3. QED
        BY <1>1, <3>2, RegrownCloses
    <2>3. QED
      BY <2>1, <2>2
  <1>5. PICK first : first = IF n < 1 THEN d ELSE IF n > d THEN 0 ELSE d - n + 1
    OBVIOUS
  <1>6. first \in 0..d
    BY <1>1, <1>5
  <1>7. /\ told' = told \cup {<<s, i, path[i + 1]>> : i \in first..d}
        /\ paths' = IF Len(paths[s]) > d THEN paths ELSE [paths EXCEPT ![s] = path]
    BY <1>3, <1>5 DEF Closes
  <1>8. \A i \in first..d : i \in Nat /\ path[i + 1] = Close(s, i)
    <2>1. SUFFICES ASSUME NEW i \in first..d PROVE i \in Nat /\ path[i + 1] = Close(s, i)
      OBVIOUS
    <2>2. i \in Nat /\ i + 1 \in 1..(d + 1) /\ (i + 1) - 1 = i
      BY <1>1, <1>6
    <2>3. QED
      BY <1>4, <2>2
  <1>9. \A a \in told' : \E t \in Instruments : \E e \in Nat : a = <<t, e, Close(t, e)>>
    <2>1. SUFFICES ASSUME NEW a \in told' PROVE \E t \in Instruments : \E e \in Nat : a = <<t, e, Close(t, e)>>
      OBVIOUS
    <2>2. CASE a \in told
      BY <2>2 DEF FeedInv
    <2>3. CASE a \notin told
      <3>1. PICK i \in first..d : a = <<s, i, path[i + 1]>>
        BY <1>7, <2>3
      <3>2. QED
        BY <1>8, <3>1
    <2>4. QED
      BY <2>2, <2>3
  <1>10. DOMAIN paths' = Instruments
    BY <1>7 DEF FeedInv
  <1>11. \A t \in Instruments : \E k \in Nat : paths'[t] = [i \in 1..k |-> Close(t, i - 1)]
    <2>1. SUFFICES ASSUME NEW t \in Instruments PROVE \E k \in Nat : paths'[t] = [i \in 1..k |-> Close(t, i - 1)]
      OBVIOUS
    <2>2. CASE paths'[t] = paths[t]
      BY <2>2 DEF FeedInv
    <2>3. CASE paths'[t] # paths[t]
      <3>1. t = s /\ paths'[t] = path
        BY <1>7, <2>3 DEF FeedInv
      <3>2. d + 1 \in Nat
        BY <1>1
      <3>3. QED
        BY <1>4, <3>1, <3>2
    <2>4. QED
      BY <2>2, <2>3
  <1>12. QED
    BY <1>9, <1>10, <1>11 DEF FeedInv

LEMMA FeedStart == FeedInit => FeedInv
  <1>1. SUFFICES ASSUME FeedInit PROVE FeedInv
    OBVIOUS
  <1>2. DOMAIN paths = Instruments /\ told = {}
    BY <1>1 DEF FeedInit, Instruments
  <1>3. ASSUME NEW s \in Instruments PROVE \E n \in Nat : paths[s] = [i \in 1..n |-> Close(s, i - 1)]
    <2>1. paths[s] = <<>>
      BY <1>1 DEF FeedInit, Instruments
    <2>2. <<>> = [i \in 1..0 |-> Close(s, i - 1)]
      OBVIOUS
    <2>3. QED
      BY <2>1, <2>2
  <1>4. QED
    BY <1>2, <1>3 DEF FeedInv

LEMMA FeedStep == FeedInv /\ [FeedNext]_feedVars => FeedInv'
  <1>1. CASE UNCHANGED feedVars
    BY <1>1 DEF feedVars, FeedInv
  <1>2. CASE FeedNext
    BY <1>2, ClosesKeeps DEF FeedNext, Instruments
  <1>3. QED
    BY <1>1, <1>2

LEMMA FeedPast == FeedInv => SamePast
  <1>1. SUFFICES ASSUME FeedInv, NEW a \in told, NEW b \in told, a[1] = b[1]
        PROVE  /\ a[2] = b[2] => a[3] = b[3]
               /\ b[2] = a[2] + 1 =>
                    LET s == b[1]
                        move == a[3] + Draws[s][Cardinality({d \in 1..b[2] : Steps(s, d)})]
                    IN b[3] = IF ~Steps(s, b[2]) THEN a[3] ELSE IF move < Floor THEN Floor ELSE move
    BY DEF SamePast
  <1>2. PICK s \in Instruments : \E d \in Nat : a = <<s, d, Close(s, d)>>
    BY <1>1 DEF FeedInv
  <1>3. PICK d \in Nat : a = <<s, d, Close(s, d)>>
    BY <1>2
  <1>4. PICK t \in Instruments : \E e \in Nat : b = <<t, e, Close(t, e)>>
    BY <1>1 DEF FeedInv
  <1>5. PICK e \in Nat : b = <<t, e, Close(t, e)>>
    BY <1>4
  <1>6. s = t
    BY <1>1, <1>3, <1>5
  <1>7. a[2] = d /\ a[3] = Close(s, d) /\ b[1] = s /\ b[2] = e /\ b[3] = Close(s, e)
    BY <1>3, <1>5, <1>6
  <1>8. a[2] = b[2] => a[3] = b[3]
    BY <1>7
  <1>9. ASSUME b[2] = a[2] + 1
        PROVE  LET move == a[3] + Draws[s][Due(s, b[2])]
               IN b[3] = IF ~Steps(s, b[2]) THEN a[3] ELSE IF move < Floor THEN Floor ELSE move
    <2>1. e = d + 1
      BY <1>7, <1>9
    <2>2. QED
      BY <1>7, <2>1, CloseMoves
  <1>10. QED
    BY <1>7, <1>8, <1>9 DEF Due

(* What is cached, and what was told, are the closes of their days.        *)
THEOREM FeedInvariance == FeedSpec => []FeedInv
  BY FeedStart, FeedStep, PTL DEF FeedSpec

(* SyntheticFeed._path() and closes(): for any instruments, draws and      *)
(* requests, the past does not depend on who asked for what, and when.     *)
THEOREM PastKept == FeedSpec => []SamePast
  BY FeedInvariance, FeedPast, PTL

-----------------------------------------------------------------------------
(***************************************************************************)
(* The pets.                                                               *)
(***************************************************************************)
Called == Names \cup {DefaultName[species] : species \in Species}

Level == 0..1000

Pet ==
  [name : Called, species : Species, hunger : Level, energy : Level, affection : Level,
   lastTick : Nat]

(* A value that rises, or falls, from hour t to hour h                     *)
Up(v, rate, t, h) == Clamp(v + rate * (h - t))
Down(v, rate, t, h) == Clamp(v - rate * (h - t))

(* Rates per hour                                                          *)
Grow(species) == Profile[species].hungerRate
Tire(species) == Profile[species].energyRate
Miss(species) == Profile[species].affectionDecay

(* A pet as it is in hour h                                                *)
At(pet, h) ==
  [pet EXCEPT !.lastTick = h,
              !.hunger = Up(@, Grow(pet.species), pet.lastTick, h),
              !.energy = Down(@, Tire(pet.species), pet.lastTick, h),
              !.affection = Down(@, Miss(pet.species), pet.lastTick, h)]

(* In hour h, the pets ps and, had nobody looked at them, us               *)
Household(h, ps, us) ==
  /\ h \in Nat /\ ps \in Seq(Pet)
  /\ DOMAIN us \subseteq Called /\ \A n \in DOMAIN us : us[n] \in Pet

(* Nobody was looked at in the future                                      *)
Past(h, ps, us) ==
  /\ \A i \in DOMAIN ps : ps[i].lastTick <= h
  /\ \A n \in DOMAIN us : us[n].lastTick <= h

(* Names tell pets apart, and every name stands for one                    *)
OneEach(ps, us) ==
  /\ \A i, j \in DOMAIN ps : Fold[ps[i].name] = Fold[ps[j].name] => i = j
  /\ \A n \in DOMAIN us : \E i \in DOMAIN ps : Fold[ps[i].name] = Fold[n]

Alike(h, ps, us) ==
  \A n \in DOMAIN us : \A i \in DOMAIN ps :
    Fold[ps[i].name] = Fold[n] => At(ps[i], h) = At(us[n], h)

Sound(h, ps, us) ==
  Household(h, ps, us) /\ Past(h, ps, us) /\ OneEach(ps, us) /\ Alike(h, ps, us)

PetsInv == Sound(hours, pets, unwatched)

-----------------------------------------------------------------------------
(* Time.                                                                   *)
LEMMA RefreshedNow == ASSUME NEW pet PROVE Refreshed(pet) = At(pet, hours)
  BY DEF Refreshed, At, Up, Down, Grow, Tire, Miss

LEMMA Rates ==
  ASSUME NEW species \in Species
  PROVE  Grow(species) \in Nat /\ Tire(species) \in Nat /\ Miss(species) \in Nat
  BY DEF Profile, Species, Grow, Tire, Miss

LEMMA ClampRange == ASSUME NEW v \in Int PROVE Clamp(v) \in Level
  BY DEF Clamp, Level

LEMMA ClampUp ==
  ASSUME NEW v \in Level, NEW a \in Nat, NEW b \in Nat
  PROVE  Clamp(Clamp(v + a) + b) = Clamp(v + (a + b))
  BY DEF Clamp, Level

LEMMA ClampDown ==
  ASSUME NEW v \in Level, NEW a \in Nat, NEW b \in Nat
  PROVE  Clamp(Clamp(v - a) - b) = Clamp(v - (a + b))
  BY DEF Clamp, Level

LEMMA Splits ==
  ASSUME NEW rate \in Nat, NEW t \in Nat, NEW g \in Nat, NEW h \in Nat, t <= g, g <= h
  PROVE  /\ rate * (g - t) \in Nat /\ rate * (h - g) \in Nat
         /\ rate * (h - t) = rate * (g - t) + rate * (h - g)
  <1>1. \A x, y \in Nat : rate * x \in Nat /\ rate * (x + y) = rate * x + rate * y
    BY SMTT(20)
  <1>2. g - t \in Nat /\ h - g \in Nat /\ h - t = (g - t) + (h - g)
    OBVIOUS
  <1> QED
    BY <1>1, <1>2

LEMMA Grows ==
  ASSUME NEW v \in Level, NEW rate \in Nat,
         NEW t \in Nat, NEW g \in Nat, NEW h \in Nat, t <= g, g <= h
  PROVE  Up(Up(v, rate, t, g), rate, g, h) = Up(v, rate, t, h)
  <1> DEFINE before == rate * (g - t)
             after == rate * (h - g)
  <1>1. before \in Nat /\ after \in Nat /\ rate * (h - t) = before + after
    BY Splits
  <1> HIDE DEF before, after
  <1>2. Clamp(Clamp(v + before) + after) = Clamp(v + (before + after))
    BY <1>1, ClampUp
  <1> QED
    BY <1>1, <1>2 DEF before, after, Up

LEMMA Shrinks ==
  ASSUME NEW v \in Level, NEW rate \in Nat,
         NEW t \in Nat, NEW g \in Nat, NEW h \in Nat, t <= g, g <= h
  PROVE  Down(Down(v, rate, t, g), rate, g, h) = Down(v, rate, t, h)
  <1> DEFINE before == rate * (g - t)
             after == rate * (h - g)
  <1>1. before \in Nat /\ after \in Nat /\ rate * (h - t) = before + after
    BY Splits
  <1> HIDE DEF before, after
  <1>2. Clamp(Clamp(v - before) - after) = Clamp(v - (before + after))
    BY <1>1, ClampDown
  <1> QED
    BY <1>1, <1>2 DEF before, after, Down

LEMMA Moves ==
  ASSUME NEW v \in Level, NEW rate \in Nat, NEW t \in Nat, NEW h \in Nat, t <= h
  PROVE  Up(v, rate, t, h) \in Level /\ Down(v, rate, t, h) \in Level
  <1> DEFINE move == rate * (h - t)
  <1>1. move \in Nat
    BY Splits
  <1> HIDE DEF move
  <1>2. v + move \in Int /\ v - move \in Int
    BY <1>1 DEF Level
  <1>3. Clamp(v + move) \in Level /\ Clamp(v - move) \in Level
    BY <1>2, ClampRange
  <1> QED
    BY <1>3 DEF move, Up, Down

Made(name, species, hunger, energy, affection, t) ==
  [name |-> name, species |-> species, hunger |-> hunger, energy |-> energy,
   affection |-> affection, lastTick |-> t]

LEMMA PetsAreMade ==
  ASSUME NEW pet \in Pet
  PROVE  \E name \in Called, species \in Species, hunger, energy, affection \in Level, t \in Nat :
           pet = Made(name, species, hunger, energy, affection, t)
  <1>1. pet = Made(pet.name, pet.species, pet.hunger, pet.energy, pet.affection, pet.lastTick)
    BY DEF Pet, Made
  <1>2. /\ pet.name \in Called /\ pet.species \in Species /\ pet.lastTick \in Nat
        /\ pet.hunger \in Level /\ pet.energy \in Level /\ pet.affection \in Level
    BY DEF Pet
  <1> QED
    BY <1>1, <1>2

LEMMA SamePet ==
  ASSUME NEW p \in Pet, NEW q \in Pet, p.name = q.name, p.species = q.species,
         p.hunger = q.hunger, p.energy = q.energy, p.affection = q.affection, p.lastTick = q.lastTick
  PROVE  p = q
  BY DEF Pet

LEMMA AtMade ==
  ASSUME NEW name \in Called, NEW species \in Species, NEW hunger \in Level,
         NEW energy \in Level, NEW affection \in Level, NEW t \in Nat, NEW h \in Nat, t <= h
  PROVE  At(Made(name, species, hunger, energy, affection, t), h) =
           Made(name, species, Up(hunger, Grow(species), t, h), Down(energy, Tire(species), t, h),
                Down(affection, Miss(species), t, h), h)
  <1>1. PICK pet : pet = Made(name, species, hunger, energy, affection, t)
    OBVIOUS
  <1>2. /\ pet.species = species /\ pet.lastTick = t /\ pet.hunger = hunger
        /\ pet.energy = energy /\ pet.affection = affection
    BY <1>1 DEF Made
  <1>3. PICK hungry \in Level, awake \in Level, fond \in Level :
          /\ hungry = Up(hunger, Grow(species), t, h) /\ awake = Down(energy, Tire(species), t, h)
          /\ fond = Down(affection, Miss(species), t, h)
    BY Rates, Moves
  <1>4. PICK later : later = [pet EXCEPT !.lastTick = h, !.hunger = hungry, !.energy = awake,
                                         !.affection = fond]
    OBVIOUS
  <1>5. At(pet, h) = later
    BY <1>1, <1>2, <1>3, <1>4 DEF At, Made
  <1>6. pet \in Pet
    BY <1>1 DEF Made, Pet
  <1>7. /\ later \in Pet /\ later.name = pet.name /\ later.species = pet.species
        /\ later.hunger = hungry /\ later.energy = awake /\ later.affection = fond
        /\ later.lastTick = h
    BY <1>4, <1>6 DEF Pet
  <1>8. PICK made \in Pet : made = Made(name, species, hungry, awake, fond, h)
    BY DEF Made, Pet
  <1>9. /\ made.name = name /\ made.species = species /\ made.hunger = hungry
        /\ made.energy = awake /\ made.affection = fond /\ made.lastTick = h /\ pet.name = name
    BY <1>1, <1>8 DEF Made
  <1>10. later = made
    BY <1>2, <1>7, <1>8, <1>9, SamePet
  <1> QED
    BY <1>1, <1>3, <1>5, <1>8, <1>10

LEMMA AtStays ==
  ASSUME NEW pet \in Pet, NEW h \in Nat, pet.lastTick <= h
  PROVE  /\ At(pet, h) \in Pet /\ At(pet, h).lastTick = h
         /\ At(pet, h).name = pet.name /\ At(pet, h).species = pet.species
  <1>1. PICK name \in Called, species \in Species, hunger \in Level, energy \in Level,
             affection \in Level, t \in Nat :
               pet = Made(name, species, hunger, energy, affection, t)
    BY PetsAreMade
  <1>2. t <= h /\ pet.name = name /\ pet.species = species
    BY <1>1 DEF Made
  <1>3. PICK hungry \in Level, awake \in Level, fond \in Level :
          /\ hungry = Up(hunger, Grow(species), t, h) /\ awake = Down(energy, Tire(species), t, h)
          /\ fond = Down(affection, Miss(species), t, h)
    BY <1>2, Rates, Moves
  <1>4. At(pet, h) = Made(name, species, hungry, awake, fond, h)
    BY <1>1, <1>2, <1>3, AtMade
  <1> QED
    BY <1>2, <1>4 DEF Made, Pet

(* A look in between, in hour g, makes no difference in hour h.            *)
LEMMA LookingBetween ==
  ASSUME NEW pet \in Pet, NEW g \in Nat, NEW h \in Nat, pet.lastTick <= g, g <= h
  PROVE  At(At(pet, g), h) = At(pet, h)
  <1>1. PICK name \in Called, species \in Species, hunger \in Level, energy \in Level,
             affection \in Level, t \in Nat :
               pet = Made(name, species, hunger, energy, affection, t)
    BY PetsAreMade
  <1>2. PICK grow \in Nat, tire \in Nat, miss \in Nat :
          grow = Grow(species) /\ tire = Tire(species) /\ miss = Miss(species)
    BY Rates
  <1>3. t <= g /\ t <= h
    BY <1>1 DEF Made
  <1>4. PICK hungry \in Level, awake \in Level, fond \in Level :
          /\ hungry = Up(hunger, grow, t, g) /\ awake = Down(energy, tire, t, g)
          /\ fond = Down(affection, miss, t, g)
    BY <1>3, Moves
  <1>5. At(pet, g) = Made(name, species, hungry, awake, fond, g)
    BY <1>1, <1>2, <1>3, <1>4, AtMade
  <1>6. At(At(pet, g), h) = Made(name, species, Up(hungry, grow, g, h), Down(awake, tire, g, h),
                                 Down(fond, miss, g, h), h)
    BY <1>2, <1>5, AtMade
  <1>7. At(pet, h) = Made(name, species, Up(hunger, grow, t, h), Down(energy, tire, t, h),
                          Down(affection, miss, t, h), h)
    BY <1>1, <1>2, <1>3, AtMade
  <1>8. /\ Up(hungry, grow, g, h) = Up(hunger, grow, t, h)
        /\ Down(awake, tire, g, h) = Down(energy, tire, t, h)
        /\ Down(fond, miss, g, h) = Down(affection, miss, t, h)
    BY <1>3, <1>4, Grows, Shrinks
  <1> QED
    BY <1>6, <1>7, <1>8

-----------------------------------------------------------------------------
(* The household.                                                          *)
LEMMA GetFinds ==
  ASSUME PetsInv, NEW i \in DOMAIN pets, NEW name, Fold[pets[i].name] = Fold[name]
  PROVE  Get(name) = i
  <1>1. \A j \in 1..(i - 1) : Fold[pets[j].name] # Fold[name]
    BY DEF PetsInv, Sound, Household, OneEach
  <1>2. \A j \in DOMAIN pets : Fold[pets[j].name] = Fold[name] => j = i
    BY DEF PetsInv, Sound, OneEach
  <1> QED
    BY <1>1, <1>2 DEF Get

LEMMA Later ==
  ASSUME NEW h \in Nat, NEW ps, NEW us, Sound(h, ps, us), NEW n \in Nat
  PROVE  Sound(h + n, ps, us)
  <1>1. Household(h + n, ps, us) /\ OneEach(ps, us)
    BY DEF Sound, Household
  <1>2. Past(h + n, ps, us)
    <2>1. /\ \A i \in DOMAIN ps : ps[i].lastTick \in Nat
          /\ \A name \in DOMAIN us : us[name].lastTick \in Nat
      <3>1. (\A i \in DOMAIN ps : ps[i] \in Pet) /\ \A name \in DOMAIN us : us[name] \in Pet
        BY DEF Sound, Household
      <3>2. \A pet \in Pet : pet.lastTick \in Nat
        BY DEF Pet
      <3> QED
        BY <3>1, <3>2
    <2>2. \A t \in Nat : t <= h => t <= h + n
      OBVIOUS
    <2> QED
      BY <2>1, <2>2 DEF Sound, Past
  <1>3. ASSUME NEW name \in DOMAIN us, NEW i \in DOMAIN ps, Fold[ps[i].name] = Fold[name]
        PROVE  At(ps[i], h + n) = At(us[name], h + n)
    <2>1. ps[i] \in Pet /\ us[name] \in Pet /\ ps[i].lastTick <= h /\ us[name].lastTick <= h
      BY DEF Sound, Household, Past
    <2>2. At(ps[i], h) = At(us[name], h)
      BY <1>3 DEF Sound, Alike
    <2>3. PICK later \in Nat : later = h + n /\ h <= later
      OBVIOUS
    <2> QED
      BY <2>1, <2>2, <2>3, LookingBetween
  <1> QED
    BY <1>1, <1>2, <1>3 DEF Sound, Alike

LEMMA OneMore ==
  ASSUME NEW h \in Nat, NEW ps, NEW us, Sound(h, ps, us),
         NEW pet \in Pet, pet.lastTick = h,
         \A i \in DOMAIN ps : Fold[ps[i].name] # Fold[pet.name],
         NEW us2, us2 = [n \in DOMAIN us \cup {pet.name} |-> IF n = pet.name THEN pet ELSE us[n]]
  PROVE  Sound(h, Append(ps, pet), us2)
  <1> DEFINE ps2 == Append(ps, pet)
  <1>1. /\ ps \in Seq(Pet) /\ Len(ps) \in Nat /\ DOMAIN ps = 1..Len(ps)
        /\ ps2 \in Seq(Pet) /\ DOMAIN ps2 = 1..(Len(ps) + 1)
        /\ \A i \in 1..Len(ps) : ps2[i] = ps[i]
        /\ ps2[Len(ps) + 1] = pet
    BY DEF Sound, Household
  <1>2. \A n \in DOMAIN us : \E i \in DOMAIN ps : Fold[ps[i].name] = Fold[n]
    BY DEF Sound, OneEach
  <1>3. \A n \in DOMAIN us : Fold[n] # Fold[pet.name]
    BY <1>2
  <1>4. /\ DOMAIN us2 = DOMAIN us \cup {pet.name} /\ us2[pet.name] = pet
        /\ \A n \in DOMAIN us : us2[n] = us[n]
    BY <1>3
  <1> HIDE DEF ps2
  <1>5. Household(h, ps2, us2)
    BY <1>1, <1>4 DEF Sound, Household, Pet
  <1>6. Past(h, ps2, us2)
    <2>1. \A i \in DOMAIN ps2 : ps2[i].lastTick <= h
      BY <1>1 DEF Sound, Past
    <2>2. \A n \in DOMAIN us2 : us2[n].lastTick <= h
      BY <1>4 DEF Sound, Past
    <2> QED
      BY <2>1, <2>2 DEF Past
  <1>7. OneEach(ps2, us2)
    <2>1. ASSUME NEW i \in DOMAIN ps2, NEW j \in DOMAIN ps2, Fold[ps2[i].name] = Fold[ps2[j].name]
          PROVE  i = j
      BY <1>1, <2>1 DEF Sound, OneEach
    <2>2. ASSUME NEW n \in DOMAIN us2 PROVE \E i \in DOMAIN ps2 : Fold[ps2[i].name] = Fold[n]
      BY <1>1, <1>2, <1>4
    <2> QED
      BY <2>1, <2>2 DEF OneEach
  <1>8. ASSUME NEW n \in DOMAIN us2, NEW i \in DOMAIN ps2, Fold[ps2[i].name] = Fold[n]
        PROVE  At(ps2[i], h) = At(us2[n], h)
    <2>1. CASE n = pet.name
      BY <1>1, <1>4, <1>8, <2>1
    <2>2. CASE n # pet.name
      <3>1. n \in DOMAIN us /\ i \in DOMAIN ps /\ ps2[i] = ps[i] /\ us2[n] = us[n]
        BY <1>1, <1>3, <1>4, <1>8, <2>2
      <3> QED
        BY <1>8, <3>1 DEF Sound, Alike
    <2> QED
      BY <2>1, <2>2
  <1> QED
    BY <1>5, <1>6, <1>7, <1>8 DEF Sound, Alike, ps2

(* A look at pet k                                                         *)
LEMMA Looked ==
  ASSUME NEW h \in Nat, NEW ps, NEW us, Sound(h, ps, us), NEW k \in DOMAIN ps
  PROVE  Sound(h, [ps EXCEPT ![k] = At(ps[k], h)], us)
  <1>1. /\ ps \in Seq(Pet) /\ ps[k] \in Pet /\ ps[k].lastTick <= h
        /\ At(ps[k], h) \in Pet /\ At(ps[k], h).name = ps[k].name /\ At(ps[k], h).lastTick = h
    BY AtStays DEF Sound, Household, Past
  <1>2. PICK ps2 : ps2 = [ps EXCEPT ![k] = At(ps[k], h)]
    OBVIOUS
  <1>3. /\ ps2 \in Seq(Pet) /\ DOMAIN ps2 = DOMAIN ps /\ ps2[k] = At(ps[k], h)
        /\ \A i \in DOMAIN ps : i # k => ps2[i] = ps[i]
    BY <1>1, <1>2
  <1>4. \A i \in DOMAIN ps : ps2[i].name = ps[i].name /\ ps2[i].lastTick <= h
    BY <1>1, <1>3 DEF Sound, Past
  <1>5. Household(h, ps2, us) /\ Past(h, ps2, us) /\ OneEach(ps2, us)
    BY <1>3, <1>4 DEF Sound, Household, Past, OneEach
  <1>6. \A i \in DOMAIN ps : At(ps2[i], h) = At(ps[i], h)
    BY <1>1, <1>3, LookingBetween
  <1> QED
    BY <1>2, <1>3, <1>4, <1>5, <1>6 DEF Sound, Alike

(* Both the pet and its unwatched twin are left as done                    *)
Meeting(ps, us, k, name, done, ps2, us2) ==
  /\ ps2 \in Seq(Pet) /\ DOMAIN ps2 = DOMAIN ps /\ ps2[k] = done
  /\ \A i \in DOMAIN ps : i # k => ps2[i] = ps[i]
  /\ DOMAIN us2 = DOMAIN us
  /\ \A n \in DOMAIN us : us2[n] = IF Fold[n] = Fold[name] THEN done ELSE us[n]

LEMMA Met ==
  ASSUME NEW h \in Nat, NEW ps, NEW us, Sound(h, ps, us), NEW k \in DOMAIN ps,
         NEW name, Fold[ps[k].name] = Fold[name],
         NEW done \in Pet, done.lastTick = h, done.name = ps[k].name,
         NEW ps2, NEW us2, Meeting(ps, us, k, name, done, ps2, us2)
  PROVE  Sound(h, ps2, us2)
  <1>1. /\ ps \in Seq(Pet) /\ ps2 \in Seq(Pet) /\ DOMAIN ps2 = DOMAIN ps /\ ps2[k] = done
        /\ \A i \in DOMAIN ps : i # k => ps2[i] = ps[i]
    BY DEF Sound, Household, Meeting
  <1>2. \A i \in DOMAIN ps : ps2[i].name = ps[i].name /\ ps2[i].lastTick <= h
    BY <1>1 DEF Sound, Past
  <1>3. /\ DOMAIN us2 = DOMAIN us
        /\ \A n \in DOMAIN us : us2[n] = IF Fold[n] = Fold[name] THEN done ELSE us[n]
    BY DEF Meeting
  <1>4. Household(h, ps2, us2) /\ Past(h, ps2, us2)
    BY <1>1, <1>2, <1>3 DEF Sound, Household, Past
  <1>5. OneEach(ps2, us2)
    BY <1>1, <1>2, <1>3 DEF Sound, OneEach
  <1>6. ASSUME NEW n \in DOMAIN us2, NEW i \in DOMAIN ps2, Fold[ps2[i].name] = Fold[n]
        PROVE  At(ps2[i], h) = At(us2[n], h)
    <2>1. CASE Fold[n] = Fold[name]
      <3>1. i = k
        BY <1>1, <1>2, <1>6, <2>1 DEF Sound, OneEach
      <3> QED
        BY <1>1, <1>3, <2>1, <3>1
    <2>2. CASE Fold[n] # Fold[name]
      <3>1. i # k
        BY <1>2, <1>1, <1>6, <2>2
      <3> QED
        BY <1>1, <1>2, <1>3, <1>6, <2>2, <3>1 DEF Sound, Alike
    <2> QED
      BY <2>1, <2>2
  <1> QED
    BY <1>4, <1>5, <1>6 DEF Sound, Alike

-----------------------------------------------------------------------------
(* Interactions keep a pet a pet.                                          *)
Keeps(p, q) == q \in Pet /\ q.name = p.name /\ q.lastTick = p.lastTick

LEMMA Gains ==
  ASSUME NEW species \in Species
  PROVE  /\ Profile[species].playCost \in Nat /\ Profile[species].playGain \in Nat
         /\ Profile[species].petGain \in Nat /\ Profile[species].feedGain \in Nat
         /\ Profile[species].favouriteGain \in Nat
  BY DEF Profile, Species

LEMMA LevelsOf ==
  ASSUME NEW pet \in Pet, NEW n \in Nat
  PROVE  /\ Clamp(pet.hunger + n) \in Level /\ Clamp(pet.hunger - n) \in Level
         /\ Clamp(pet.energy + n) \in Level /\ Clamp(pet.energy - n) \in Level
         /\ Clamp(pet.affection + n) \in Level
  <1>1. pet.hunger \in Level /\ pet.energy \in Level /\ pet.affection \in Level
    BY DEF Pet
  <1>2. \A v \in Level : v + n \in Int /\ v - n \in Int
    BY DEF Level
  <1> QED
    BY <1>1, <1>2, ClampRange

Became(pet, hunger, energy, affection) ==
  [pet EXCEPT !.hunger = hunger, !.energy = energy, !.affection = affection]

LEMMA Changed ==
  ASSUME NEW pet \in Pet, NEW hunger \in Level, NEW energy \in Level, NEW affection \in Level
  PROVE  Keeps(pet, Became(pet, hunger, energy, affection))
  BY DEF Pet, Keeps, Became

LEMMA FedKeeps ==
  ASSUME NEW pet \in Pet, NEW favourite \in BOOLEAN PROVE Keeps(pet, Fed(pet, favourite))
  <1>1. pet.species \in Species
    BY DEF Pet
  <1>2. PICK hunger \in Level : hunger = Clamp(pet.hunger - (IF favourite THEN 450 ELSE 320))
    BY LevelsOf
  <1>3. PICK energy \in Level : energy = Clamp(pet.energy + 80)
    BY LevelsOf
  <1>4. PICK affection \in Level :
          affection = Clamp(pet.affection + (IF favourite THEN Profile[pet.species].favouriteGain
                                             ELSE Profile[pet.species].feedGain))
    BY <1>1, Gains, LevelsOf
  <1>5. Fed(pet, favourite) = Became(pet, hunger, energy, affection)
    BY <1>2, <1>3, <1>4 DEF Fed, Pet, Became
  <1> QED
    BY <1>5, Changed

LEMMA PlayedKeeps == ASSUME NEW pet \in Pet PROVE Keeps(pet, Played(pet))
  <1>1. pet.species \in Species
    BY DEF Pet
  <1>2. PICK energy \in Level : energy = Clamp(pet.energy - Profile[pet.species].playCost)
    BY <1>1, Gains, LevelsOf
  <1>3. PICK hunger \in Level : hunger = Clamp(pet.hunger + 90)
    BY LevelsOf
  <1>4. PICK affection \in Level : affection = Clamp(pet.affection + Profile[pet.species].playGain)
    BY <1>1, Gains, LevelsOf
  <1>5. \/ Played(pet) = pet
        \/ Played(pet) = [pet EXCEPT !.energy = energy, !.hunger = hunger, !.affection = affection]
    BY <1>2, <1>3, <1>4 DEF Played
  <1>6. Keeps(pet, pet)
    BY DEF Keeps
  <1>7. [pet EXCEPT !.energy = energy, !.hunger = hunger, !.affection = affection] =
          Became(pet, hunger, energy, affection)
    BY DEF Pet, Became
  <1> QED
    BY <1>5, <1>6, <1>7, Changed

LEMMA PettedKeeps == ASSUME NEW pet \in Pet PROVE Keeps(pet, Petted(pet))
  <1>1. pet.species \in Species /\ pet.hunger \in Level
    BY DEF Pet
  <1>2. PICK energy \in Level : energy = Clamp(pet.energy + 30)
    BY LevelsOf
  <1>3. PICK affection \in Level : affection = Clamp(pet.affection + Profile[pet.species].petGain)
    BY <1>1, Gains, LevelsOf
  <1>4. Petted(pet) = Became(pet, pet.hunger, energy, affection)
    BY <1>2, <1>3 DEF Petted, Pet, Became
  <1> QED
    BY <1>1, <1>4, Changed

LEMMA NappedKeeps == ASSUME NEW pet \in Pet, NEW n \in Nat PROVE Keeps(pet, Napped(pet, n))
  <1>1. pet.affection \in Level
    BY DEF Pet
  <1>2. PICK energy \in Level : energy = Clamp(pet.energy + 300 * n)
    BY LevelsOf
  <1>3. PICK hunger \in Level : hunger = Clamp(pet.hunger + 40 * n)
    BY LevelsOf
  <1>4. Napped(pet, n) = [pet EXCEPT !.energy = energy, !.hunger = hunger]
    BY <1>2, <1>3 DEF Napped
  <1>5. [pet EXCEPT !.energy = energy, !.hunger = hunger] =
          Became(pet, hunger, energy, pet.affection)
    BY DEF Pet, Became
  <1> QED
    BY <1>1, <1>4, <1>5, Changed

-----------------------------------------------------------------------------
(* The actions.                                                            *)
LEMMA InitPets == ASSUME PetsInit PROVE PetsInv
  BY DEF PetsInit, PetsInv, Sound, Household, Past, OneEach, Alike

(* What every interaction finds                                            *)
LEMMA Finds ==
  ASSUME PetsInv, NEW name \in DOMAIN unwatched
  PROVE  /\ Get(name) \in DOMAIN pets /\ Fold[pets[Get(name)].name] = Fold[name]
         /\ Refreshed(pets[Get(name)]) \in Pet
         /\ Refreshed(pets[Get(name)]).name = pets[Get(name)].name
         /\ Refreshed(pets[Get(name)]).lastTick = hours
         /\ \A n \in DOMAIN unwatched :
              Fold[n] = Fold[name] => Refreshed(unwatched[n]) = Refreshed(pets[Get(name)])
  <1>1. PICK i \in DOMAIN pets : Fold[pets[i].name] = Fold[name]
    BY DEF PetsInv, Sound, OneEach
  <1>2. Get(name) = i
    BY <1>1, GetFinds
  <1>3. pets[i] \in Pet /\ pets[i].lastTick <= hours /\ hours \in Nat
    BY DEF PetsInv, Sound, Household, Past
  <1>4. Refreshed(pets[i]) = At(pets[i], hours)
    BY RefreshedNow
  <1>5. At(pets[i], hours) \in Pet /\ At(pets[i], hours).name = pets[i].name
        /\ At(pets[i], hours).lastTick = hours
    BY <1>3, AtStays
  <1>6. ASSUME NEW n \in DOMAIN unwatched, Fold[n] = Fold[name]
        PROVE  Refreshed(unwatched[n]) = Refreshed(pets[i])
    <2>1. At(pets[i], hours) = At(unwatched[n], hours)
      BY <1>1, <1>6 DEF PetsInv, Sound, Alike
    <2> QED
      BY <2>1, RefreshedNow
  <1> QED
    BY <1>1, <1>2, <1>4, <1>5, <1>6

LEMMA PassKeeps == ASSUME PetsInv, NEW n \in Nat, Pass(n) PROVE PetsInv'
  <1>1. hours \in Nat /\ hours' = hours + n /\ pets' = pets /\ unwatched' = unwatched
    BY DEF Pass, PetsInv, Sound, Household
  <1>2. Sound(hours + n, pets, unwatched)
    BY <1>1, Later DEF PetsInv
  <1> QED
    BY <1>1, <1>2 DEF PetsInv

LEMMA AdoptKeeps ==
  ASSUME PetsInv, NEW species \in Species, NEW name \in Called, Adopt(species, name)
  PROVE  PetsInv'
  <1>1. PICK pet : pet = Created(species, name)
    OBVIOUS
  <1>2. hours \in Nat
    BY DEF PetsInv, Sound, Household
  <1>3. pet \in Pet /\ pet.lastTick = hours /\ pet.name = name
    BY <1>1, <1>2 DEF Created, Pet, Level
  <1>4. \A i \in DOMAIN pets : Fold[pets[i].name] # Fold[pet.name]
    BY <1>3 DEF Adopt, Known
  <1>5. /\ hours' = hours /\ pets' = Append(pets, pet)
        /\ unwatched' = [n \in DOMAIN unwatched \cup {pet.name} |->
                           IF n = pet.name THEN pet ELSE unwatched[n]]
    BY <1>1, <1>3 DEF Adopt
  <1>6. Sound(hours, Append(pets, pet), unwatched')
    BY <1>2, <1>3, <1>4, <1>5, OneMore DEF PetsInv
  <1> QED
    BY <1>5, <1>6 DEF PetsInv

LEMMA MeetKeeps ==
  ASSUME PetsInv, NEW name \in DOMAIN unwatched, NEW done,
         Keeps(Refreshed(pets[Get(name)]), done),
         hours' = hours, pets' = [pets EXCEPT ![Get(name)] = done],
         DOMAIN unwatched' = DOMAIN unwatched,
         \A n \in DOMAIN unwatched :
           unwatched'[n] = IF Fold[n] = Fold[name] THEN done ELSE unwatched[n]
  PROVE  PetsInv'
  <1>1. hours \in Nat /\ pets \in Seq(Pet)
    BY DEF PetsInv, Sound, Household
  <1>2. PICK k \in DOMAIN pets : k = Get(name) /\ Fold[pets[k].name] = Fold[name]
    BY Finds
  <1>3. done \in Pet /\ done.lastTick = hours /\ done.name = pets[k].name
    BY <1>2, Finds DEF Keeps
  <1>4. PICK ps2 \in Seq(Pet) :
          /\ ps2 = pets' /\ DOMAIN ps2 = DOMAIN pets /\ ps2[k] = done
          /\ \A i \in DOMAIN pets : i # k => ps2[i] = pets[i]
    BY <1>1, <1>2, <1>3
  <1>5. Meeting(pets, unwatched, k, name, done, ps2, unwatched')
    BY <1>4 DEF Meeting
  <1>6. Sound(hours, ps2, unwatched')
    BY <1>1, <1>2, <1>3, <1>5, Met DEF PetsInv
  <1> QED
    BY <1>4, <1>6 DEF PetsInv

LEMMA WatchKeeps == ASSUME PetsInv, NEW name \in DOMAIN unwatched, Watch(name) PROVE PetsInv'
  <1>1. PICK k \in DOMAIN pets : k = Get(name)
    BY Finds
  <1>2. /\ hours' = hours /\ unwatched' = unwatched
        /\ pets' = [pets EXCEPT ![k] = At(pets[k], hours)]
    BY <1>1, RefreshedNow DEF Watch
  <1>3. hours \in Nat
    BY DEF PetsInv, Sound, Household
  <1>4. Sound(hours, [pets EXCEPT ![k] = At(pets[k], hours)], unwatched)
    BY <1>3, Looked DEF PetsInv
  <1> QED
    BY <1>2, <1>4 DEF PetsInv

LEMMA FeedKeeps ==
  ASSUME PetsInv, NEW name \in DOMAIN unwatched, NEW favourite \in BOOLEAN,
         Feed(name, favourite)
  PROVE  PetsInv'
  <1>1. PICK pet \in Pet : pet = Refreshed(pets[Get(name)])
    BY Finds
  <1>2. PICK done : done = Fed(pet, favourite) /\ Keeps(pet, done)
    BY FedKeeps
  <1>3. /\ hours' = hours /\ pets' = [pets EXCEPT ![Get(name)] = done]
        /\ unwatched' = [n \in DOMAIN unwatched |->
             IF Fold[n] = Fold[name] THEN Fed(Refreshed(unwatched[n]), favourite) ELSE unwatched[n]]
    BY <1>1, <1>2 DEF Feed, Meet
  <1>4. \A n \in DOMAIN unwatched : Fold[n] = Fold[name] => Refreshed(unwatched[n]) = pet
    BY <1>1, Finds
  <1>5. /\ DOMAIN unwatched' = DOMAIN unwatched
        /\ \A n \in DOMAIN unwatched :
             unwatched'[n] = IF Fold[n] = Fold[name] THEN done ELSE unwatched[n]
    BY <1>2, <1>3, <1>4
  <1> QED
    BY <1>1, <1>2, <1>3, <1>5, MeetKeeps

LEMMA PlayKeeps ==
  ASSUME PetsInv, NEW name \in DOMAIN unwatched, Play(name) PROVE PetsInv'
  <1>1. PICK pet \in Pet : pet = Refreshed(pets[Get(name)])
    BY Finds
  <1>2. PICK done : done = Played(pet) /\ Keeps(pet, done)
    BY PlayedKeeps
  <1>3. /\ hours' = hours /\ pets' = [pets EXCEPT ![Get(name)] = done]
        /\ unwatched' = [n \in DOMAIN unwatched |->
             IF Fold[n] = Fold[name] THEN Played(Refreshed(unwatched[n])) ELSE unwatched[n]]
    BY <1>1, <1>2 DEF Play, Meet
  <1>4. \A n \in DOMAIN unwatched : Fold[n] = Fold[name] => Refreshed(unwatched[n]) = pet
    BY <1>1, Finds
  <1>5. /\ DOMAIN unwatched' = DOMAIN unwatched
        /\ \A n \in DOMAIN unwatched :
             unwatched'[n] = IF Fold[n] = Fold[name] THEN done ELSE unwatched[n]
    BY <1>2, <1>3, <1>4
  <1> QED
    BY <1>1, <1>2, <1>3, <1>5, MeetKeeps

LEMMA PetItKeeps ==
  ASSUME PetsInv, NEW name \in DOMAIN unwatched, PetIt(name) PROVE PetsInv'
  <1>1. PICK pet \in Pet : pet = Refreshed(pets[Get(name)])
    BY Finds
  <1>2. PICK done : done = Petted(pet) /\ Keeps(pet, done)
    BY PettedKeeps
  <1>3. /\ hours' = hours /\ pets' = [pets EXCEPT ![Get(name)] = done]
        /\ unwatched' = [n \in DOMAIN unwatched |->
             IF Fold[n] = Fold[name] THEN Petted(Refreshed(unwatched[n])) ELSE unwatched[n]]
    BY <1>1, <1>2 DEF PetIt, Meet
  <1>4. \A n \in DOMAIN unwatched : Fold[n] = Fold[name] => Refreshed(unwatched[n]) = pet
    BY <1>1, Finds
  <1>5. /\ DOMAIN unwatched' = DOMAIN unwatched
        /\ \A n \in DOMAIN unwatched :
             unwatched'[n] = IF Fold[n] = Fold[name] THEN done ELSE unwatched[n]
    BY <1>2, <1>3, <1>4
  <1> QED
    BY <1>1, <1>2, <1>3, <1>5, MeetKeeps

LEMMA NapKeeps ==
  ASSUME PetsInv, NEW name \in DOMAIN unwatched, NEW hrs \in Nat, Nap(name, hrs) PROVE PetsInv'
  <1>1. PICK pet \in Pet : pet = Refreshed(pets[Get(name)])
    BY Finds
  <1>2. PICK done : done = Napped(pet, hrs) /\ Keeps(pet, done)
    BY NappedKeeps
  <1>3. /\ hours' = hours /\ pets' = [pets EXCEPT ![Get(name)] = done]
        /\ unwatched' = [n \in DOMAIN unwatched |->
             IF Fold[n] = Fold[name] THEN Napped(Refreshed(unwatched[n]), hrs) ELSE unwatched[n]]
    BY <1>1, <1>2 DEF Nap, Meet
  <1>4. \A n \in DOMAIN unwatched : Fold[n] = Fold[name] => Refreshed(unwatched[n]) = pet
    BY <1>1, Finds
  <1>5. /\ DOMAIN unwatched' = DOMAIN unwatched
        /\ \A n \in DOMAIN unwatched :
             unwatched'[n] = IF Fold[n] = Fold[name] THEN done ELSE unwatched[n]
    BY <1>2, <1>3, <1>4
  <1> QED
    BY <1>1, <1>2, <1>3, <1>5, MeetKeeps

LEMMA NextPets == ASSUME PetsInv, [PetsNext]_petsVars PROVE PetsInv'
  <1>1. CASE UNCHANGED petsVars
    BY <1>1 DEF petsVars, PetsInv
  <1>2. ASSUME NEW n \in Pauses, Pass(n) PROVE PetsInv'
    BY <1>2, PetsAssumption, PassKeeps
  <1>3. ASSUME NEW species \in Species, NEW name \in Names \cup {DefaultName[species]},
               Adopt(species, name)
        PROVE  PetsInv'
    BY <1>3, AdoptKeeps DEF Called
  <1>4. ASSUME NEW name \in DOMAIN unwatched, NEW favourite \in BOOLEAN, Feed(name, favourite)
        PROVE  PetsInv'
    BY <1>4, FeedKeeps
  <1>5. ASSUME NEW name \in DOMAIN unwatched, Play(name) PROVE PetsInv'
    BY <1>5, PlayKeeps
  <1>6. ASSUME NEW name \in DOMAIN unwatched, PetIt(name) PROVE PetsInv'
    BY <1>6, PetItKeeps
  <1>7. ASSUME NEW name \in DOMAIN unwatched, NEW n \in NapHours, Nap(name, n) PROVE PetsInv'
    BY <1>7, PetsAssumption, NapKeeps
  <1>8. ASSUME NEW name \in DOMAIN unwatched, Watch(name) PROVE PetsInv'
    BY <1>8, WatchKeeps
  <1> QED
    BY <1>1, <1>2, <1>3, <1>4, <1>5, <1>6, <1>7, <1>8 DEF PetsNext

(* The inductive invariant holds in every behaviour: names tell pets apart *)
(* and nobody was looked at in the future.                                 *)
THEOREM PetsInvariance == PetsSpec => []PetsInv
  BY InitPets, NextPets, PTL DEF PetsSpec

(* Looking at a pet is harmless, in any household and for any pauses and   *)
(* naps: refresh() of experimental/pets.py consumes the hours it decays by. *)
THEOREM WatchingIsHarmless == PetsSpec => []WatchingHarmless
  <1>1. PetsInv => WatchingHarmless
    BY Finds DEF WatchingHarmless
  <1> QED
    BY <1>1, PetsInvariance, PTL

-----------------------------------------------------------------------------
(***************************************************************************)
(* Draft trees.                                                            *)
(***************************************************************************)
NodeKinds == [token : DOMAIN Draft, parent : Nat, depth : Nat, prob : 0..Certain]

(* Parents come before their children, the root first                      *)
IsTree(tree) ==
  /\ tree \in Seq(NodeKinds) /\ Len(tree) \in Nat \ {0}
  /\ tree[1].parent = NoParent /\ tree[1].depth = 0 /\ tree[1].prob = Certain
  /\ \A i \in 2..Len(tree) :
       /\ tree[i].parent \in 1..(i - 1)
       /\ tree[i].depth = tree[tree[i].parent].depth + 1

(* What holds of the root, and of a node if of its parent, holds of all    *)
LEMMA TreeInduction ==
  ASSUME NEW tree, IsTree(tree), NEW S, 1 \in S,
         \A i \in 2..Len(tree) : tree[i].parent \in S => i \in S
  PROVE  \A i \in 1..Len(tree) : i \in S
  <1>1. PICK n \in Nat \ {0} : n = Len(tree)
    BY DEF IsTree
  <1> DEFINE N == {m \in 0..n : \A i \in 1..m : i \in S}
  <1>2. 0 \in N
    OBVIOUS
  <1>3. ASSUME NEW m \in 1..n, m - 1 \in N PROVE m \in N
    <2>1. \A i \in 1..(m - 1) : i \in S
      BY <1>3
    <2>2. m \in S
      <3>1. CASE m = 1
        BY <3>1
      <3>2. CASE m # 1
        <4>1. m \in 2..Len(tree) /\ tree[m].parent \in 1..(m - 1)
          BY <1>1, <3>2 DEF IsTree
        <4>2. QED
          BY <2>1, <4>1
      <3>3. QED
        BY <3>1, <3>2
    <2>3. \A i \in 1..m : i \in 1..(m - 1) \/ i = m
      OBVIOUS
    <2>4. QED
      BY <2>1, <2>2, <2>3
  <1>4. \A m \in 0..n : m \in N
    <2> HIDE DEF N
    <2>1. QED
      BY <1>2, <1>3, UpToInduction
  <1>5. n \in N
    BY <1>4
  <1>6. QED
    BY <1>1, <1>5

(* A value that goes down from parent to child exists                      *)
Descends(f, tree, start, F) ==
  \A i \in 1..Len(tree) : f[i] = IF tree[i].parent = NoParent THEN start ELSE F[i][f[tree[i].parent]]

LEMMA DescentExists ==
  ASSUME NEW tree, IsTree(tree), NEW S, NEW start \in S, NEW F, StaysIn(F, Len(tree), S)
  PROVE  \E f \in [1..Len(tree) -> S] : Descends(f, tree, start, F)
  <1>1. PICK n \in Nat \ {0} : n = Len(tree)
    BY DEF IsTree
  <1> DEFINE So(f, m) == \A i \in 1..m : f[i] = IF tree[i].parent = NoParent THEN start ELSE F[i][f[tree[i].parent]]
             N == {m \in 0..n : \E f \in [1..n -> S] : So(f, m)}
  <1>2. 0 \in N
    <2>1. PICK f : f = [i \in 1..n |-> start]
      OBVIOUS
    <2>2. f \in [1..n -> S] /\ So(f, 0)
      BY <2>1
    <2>3. QED
      BY <2>2
  <1>3. ASSUME NEW m \in 1..n, m - 1 \in N PROVE m \in N
    <2>1. PICK w \in [1..n -> S] : So(w, m - 1)
      BY <1>3
    <2>2. PICK v : v = IF tree[m].parent = NoParent THEN start ELSE F[m][w[tree[m].parent]]
      OBVIOUS
    <2>3. \A i \in 1..n : tree[i].parent = NoParent \/ tree[i].parent \in 1..(i - 1)
      <3>1. ASSUME NEW i \in 1..n, i # 1 PROVE i \in 2..Len(tree)
        BY <1>1, <3>1
      <3>2. QED
        BY <1>1, <3>1 DEF IsTree
    <2>4. v \in S
      <3>1. CASE tree[m].parent = NoParent
        BY <2>2, <3>1
      <3>2. CASE tree[m].parent # NoParent
        <4>1. tree[m].parent \in 1..n
          BY <2>3, <3>2
        <4>2. QED
          BY <1>1, <2>1, <2>2, <3>2, <4>1 DEF StaysIn
      <3>3. QED
        BY <3>1, <3>2
    <2>5. PICK f : f = [i \in 1..n |-> IF i = m THEN v ELSE w[i]]
      OBVIOUS
    <2>6. f \in [1..n -> S]
      BY <2>1, <2>4, <2>5
    <2>7. ASSUME NEW i \in 1..m PROVE f[i] = IF tree[i].parent = NoParent THEN start ELSE F[i][f[tree[i].parent]]
      <3>1. tree[i].parent # NoParent => f[tree[i].parent] = w[tree[i].parent]
        <4>1. SUFFICES ASSUME tree[i].parent # NoParent PROVE f[tree[i].parent] = w[tree[i].parent]
          OBVIOUS
        <4>2. PICK p \in 1..(i - 1) : p = tree[i].parent
          BY <2>3, <4>1
        <4>3. p \in 1..n /\ p # m
          OBVIOUS
        <4>4. QED
          BY <2>5, <4>2, <4>3
      <3>2. CASE i = m
        <4>1. f[m] = v
          BY <2>5
        <4>2. QED
          BY <2>2, <3>1, <3>2, <4>1
      <3>3. CASE i # m
        <4>1. i \in 1..(m - 1) /\ i \in 1..n
          BY <3>3
        <4>2. f[i] = w[i]
          BY <2>5, <3>3, <4>1
        <4>3. w[i] = IF tree[i].parent = NoParent THEN start ELSE F[i][w[tree[i].parent]]
          BY <2>1, <4>1
        <4>4. QED
          BY <3>1, <4>2, <4>3
      <3>4. QED
        BY <3>2, <3>3
    <2>8. So(f, m)
      BY <2>7
    <2>9. QED
      BY <2>6, <2>8
  <1>4. \A m \in 0..n : m \in N
    <2> HIDE DEF N, So
    <2>1. n \in Nat
      OBVIOUS
    <2>2. QED
      BY ONLY <1>2, <1>3, <2>1, UpToInduction
  <1>5. n \in N
    <2>1. n \in 0..n
      OBVIOUS
    <2>2. QED
      BY ONLY <1>4, <2>1
  <1>6. QED
    BY <1>1, <1>5 DEF Descends

(* The probability 1, scaled, is a number                                  *)
LEMMA WholeType == Whole \in Nat
  <1>1. MaxDepth \in Nat /\ Certain \in Nat
    BY DraftTreeAssumption
  <1> DEFINE Runs(f) == f = [d \in 0..MaxDepth |-> IF d = 0 THEN 1 ELSE Certain * f[d - 1]]
  <1>2. \E f : Runs(f)
    <2>1. PICK F : F = [k \in 1..MaxDepth |-> [s \in Nat |-> Certain * s]]
      OBVIOUS
    <2>2. \A k \in 1..MaxDepth : \A s \in Nat : F[k][s] = Certain * s /\ F[k][s] \in Nat
      BY <1>1, <2>1
    <2>3. PICK f \in [0..MaxDepth -> Nat] : Goes(f, MaxDepth, 1, F)
      BY <1>1, <2>2, StatesExist DEF StaysIn
    <2>4. ASSUME NEW d \in 0..MaxDepth PROVE f[d] = IF d = 0 THEN 1 ELSE Certain * f[d - 1]
      <3>1. f[d] = IF d = 0 THEN 1 ELSE F[d][f[d - 1]]
        BY <2>3 DEF Goes
      <3>2. ASSUME d # 0 PROVE F[d][f[d - 1]] = Certain * f[d - 1]
        <4>1. d \in 1..MaxDepth /\ d - 1 \in 0..MaxDepth
          BY <1>1, <3>2
        <4>2. f[d - 1] \in Nat
          BY <2>3, <4>1
        <4>3. QED
          BY <2>2, <4>1, <4>2
      <3>3. QED
        BY <3>1, <3>2
    <2>5. f = [d \in 0..MaxDepth |-> IF d = 0 THEN 1 ELSE Certain * f[d - 1]]
      BY <2>3, <2>4
    <2>6. QED
      BY <2>5
  <1>3. PICK f : f = CHOOSE g : Runs(g)
    OBVIOUS
  <1>4. Runs(f)
    BY <1>2, <1>3
  <1>5. Whole = f[MaxDepth]
    BY <1>3 DEF Whole
  <1> DEFINE S == {d \in 0..MaxDepth : f[d] \in Nat}
  <1>6. 0 \in S
    BY <1>1, <1>4
  <1>7. ASSUME NEW d \in 1..MaxDepth, d - 1 \in S PROVE d \in S
    <2>1. d \in 0..MaxDepth /\ d # 0 /\ f[d - 1] \in Nat
      BY <1>1, <1>7
    <2>2. f[d] = Certain * f[d - 1]
      BY <1>4, <2>1
    <2>3. Certain * f[d - 1] \in Nat
      BY <1>1, <2>1
    <2>4. QED
      BY <2>1, <2>2, <2>3
  <1>8. \A d \in 0..MaxDepth : d \in S
    <2> HIDE DEF S
    <2>1. QED
      BY <1>1, <1>6, <1>7, UpToInduction
  <1>9. QED
    BY <1>1, <1>5, <1>8

(* What a child scores, and that it is no more than what its parent does   *)
LEMMA Scaled ==
  ASSUME NEW a \in Nat, NEW p \in 0..Certain
  PROVE  (a \div Certain) * p \in Nat /\ (a \div Certain) * p <= a
  <1>1. PICK c \in Nat \ {0} : c = Certain
    BY DraftTreeAssumption
  <1>2. p \in 0..c
    BY <1>1
  <1>3. (a \div c) * p \in Nat /\ (a \div c) * p <= a
    BY ONLY a \in Nat, c \in Nat \ {0}, <1>2
  <1>4. QED
    BY <1>1, <1>3

LEMMA ScoresAre ==
  ASSUME NEW tree, IsTree(tree)
  PROVE  /\ CumulativeProbs(tree) \in [1..Len(tree) -> Nat]
         /\ CumulativeProbs(tree)[1] = Whole
         /\ \A i \in 2..Len(tree) :
              CumulativeProbs(tree)[i] = (CumulativeProbs(tree)[tree[i].parent] \div Certain) * tree[i].prob
  <1>1. PICK n \in Nat \ {0} : n = Len(tree) /\ DOMAIN tree = 1..n
    BY LenProperties DEF IsTree
  <1>2. PICK whole \in Nat : whole = Whole
    BY WholeType
  <1>3. /\ \A i \in 1..n : tree[i].prob \in 0..Certain /\ (tree[i].parent = NoParent <=> i = 1)
        /\ \A i \in 2..n : tree[i].parent \in 1..(i - 1)
    <2>1. \A i \in 1..n : tree[i] \in NodeKinds
      BY <1>1, ElementOfSeq DEF IsTree
    <2>2. \A i \in 2..n : tree[i].parent \in 1..(i - 1)
      BY <1>1 DEF IsTree
    <2>3. tree[1].parent = NoParent
      BY DEF IsTree
    <2>4. ASSUME NEW i \in 1..n, i # 1 PROVE tree[i].parent # NoParent
      <3>1. i \in 2..n
        BY <2>4
      <3>2. tree[i].parent \in 1..(i - 1)
        BY <2>2, <3>1
      <3>3. QED
        BY <3>2 DEF NoParent
    <2>5. QED
      BY <2>1, <2>2, <2>3, <2>4 DEF NodeKinds
  <1> DEFINE Runs(f) == f = [i \in 1..n |-> IF tree[i].parent = NoParent THEN whole
                                          ELSE (f[tree[i].parent] \div Certain) * tree[i].prob]
  <1>4. \E f : Runs(f)
    <2>1. PICK F : F = [i \in 1..n |-> [s \in Nat |-> (s \div Certain) * tree[i].prob]]
      OBVIOUS
    <2>2. \A i \in 1..n : \A s \in Nat : F[i][s] = (s \div Certain) * tree[i].prob /\ F[i][s] \in Nat
      BY <1>3, <2>1, Scaled
    <2>3. PICK f \in [1..n -> Nat] : Descends(f, tree, whole, F)
      BY <1>1, <2>2, DescentExists DEF StaysIn
    <2>4. ASSUME NEW i \in 1..n
          PROVE  f[i] = IF tree[i].parent = NoParent THEN whole ELSE (f[tree[i].parent] \div Certain) * tree[i].prob
      <3>1. f[i] = IF tree[i].parent = NoParent THEN whole ELSE F[i][f[tree[i].parent]]
        BY <1>1, <2>3 DEF Descends
      <3>2. ASSUME tree[i].parent # NoParent PROVE F[i][f[tree[i].parent]] = (f[tree[i].parent] \div Certain) * tree[i].prob
        <4>1. i \in 2..n
          BY <1>3, <3>2
        <4>2. tree[i].parent \in 1..n
          BY <1>3, <4>1
        <4>3. QED
          BY <2>2, <2>3, <4>2
      <3>3. QED
        BY <3>1, <3>2
    <2>5. f = [i \in 1..n |-> IF tree[i].parent = NoParent THEN whole ELSE (f[tree[i].parent] \div Certain) * tree[i].prob]
      BY <2>3, <2>4
    <2>6. QED
      BY <2>5
  <1>5. PICK f : f = CHOOSE g : Runs(g)
    OBVIOUS
  <1>6. Runs(f)
    BY <1>4, <1>5
  <1>7. CumulativeProbs(tree) = f
    BY <1>1, <1>2, <1>5 DEF CumulativeProbs
  <1>8. f[1] = whole /\ \A i \in 2..n : f[i] = (f[tree[i].parent] \div Certain) * tree[i].prob
    <2>1. 1 \in 1..n
      OBVIOUS
    <2>2. ASSUME NEW i \in 2..n PROVE i \in 1..n /\ i # 1
      OBVIOUS
    <2>3. QED
      BY <1>3, <1>6, <2>1, <2>2
  <1> DEFINE S == {i \in 1..n : f[i] \in Nat}
  <1>9. \A i \in 1..n : i \in S
    <2>1. 1 \in S
      BY <1>8
    <2>2. ASSUME NEW i \in 2..n, tree[i].parent \in S PROVE i \in S
      <3>1. f[i] = (f[tree[i].parent] \div Certain) * tree[i].prob /\ f[tree[i].parent] \in Nat
        BY <1>8, <2>2
      <3>2. i \in 1..n
        OBVIOUS
      <3>3. tree[i].prob \in 0..Certain
        BY <1>3, <3>2
      <3>4. f[i] \in Nat
        BY <3>1, <3>3, Scaled
      <3>5. QED
        BY <3>2, <3>4
    <2> HIDE DEF S
    <2>3. QED
      BY <1>1, <2>1, <2>2, TreeInduction
  <1>10. f \in [1..n -> Nat]
    BY <1>6, <1>9
  <1>11. QED
    BY <1>1, <1>2, <1>7, <1>8, <1>10

(* The path to a node is that to its parent and the node                   *)
LEMMA PathsAre ==
  ASSUME NEW tree, IsTree(tree)
  PROVE  /\ PathTo(tree, 1) = <<1>>
         /\ \A i \in 1..Len(tree) : PathTo(tree, i) \in Seq(1..Len(tree))
         /\ \A i \in 2..Len(tree) : PathTo(tree, i) = Append(PathTo(tree, tree[i].parent), i)
  <1>1. PICK n \in Nat \ {0} : n = Len(tree) /\ DOMAIN tree = 1..n
    BY LenProperties DEF IsTree
  <1>2. /\ \A i \in 1..n : tree[i].parent = NoParent <=> i = 1
        /\ \A i \in 2..n : tree[i].parent \in 1..(i - 1)
    <2>1. \A i \in 2..n : tree[i].parent \in 1..(i - 1)
      BY <1>1 DEF IsTree
    <2>2. tree[1].parent = NoParent
      BY DEF IsTree
    <2>3. ASSUME NEW i \in 1..n, i # 1 PROVE tree[i].parent # NoParent
      <3>1. i \in 2..n
        BY <2>3
      <3>2. tree[i].parent \in 1..(i - 1)
        BY <2>1, <3>1
      <3>3. QED
        BY <3>2 DEF NoParent
    <2>4. QED
      BY <2>1, <2>2, <2>3
  <1>3. PICK P : P = Seq(1..n)
    OBVIOUS
  <1>4. \A s \in P, i \in 1..n : Append(s, i) \in P
    BY <1>3, AppendProperties
  <1>5. <<1>> \in P
    <2>1. 1 \in 1..n
      OBVIOUS
    <2>2. QED
      BY <1>3, <2>1
  <1> DEFINE Runs(f) == f = [i \in 1..n |-> IF tree[i].parent = NoParent THEN <<i>>
                                          ELSE Append(f[tree[i].parent], i)]
  <1>6. \E f : Runs(f)
    <2>1. PICK F : F = [i \in 1..n |-> [s \in P |-> Append(s, i)]]
      OBVIOUS
    <2>2. \A i \in 1..n : \A s \in P : F[i][s] = Append(s, i) /\ F[i][s] \in P
      BY <1>4, <2>1
    <2>3. PICK f \in [1..n -> P] : Descends(f, tree, <<1>>, F)
      BY <1>1, <1>5, <2>2, DescentExists DEF StaysIn
    <2>4. ASSUME NEW i \in 1..n
          PROVE  f[i] = IF tree[i].parent = NoParent THEN <<i>> ELSE Append(f[tree[i].parent], i)
      <3>1. f[i] = IF tree[i].parent = NoParent THEN <<1>> ELSE F[i][f[tree[i].parent]]
        BY <1>1, <2>3 DEF Descends
      <3>2. ASSUME tree[i].parent # NoParent PROVE F[i][f[tree[i].parent]] = Append(f[tree[i].parent], i)
        <4>1. i \in 2..n
          BY <1>2, <3>2
        <4>2. tree[i].parent \in 1..n
          BY <1>2, <4>1
        <4>3. QED
          BY <2>2, <2>3, <4>2
      <3>3. tree[i].parent = NoParent => i = 1
        BY <1>2
      <3>4. QED
        BY <3>1, <3>2, <3>3
    <2>5. f = [i \in 1..n |-> IF tree[i].parent = NoParent THEN <<i>> ELSE Append(f[tree[i].parent], i)]
      BY <2>3, <2>4
    <2>6. QED
      BY <2>5
  <1>7. PICK f : f = CHOOSE g : Runs(g)
    OBVIOUS
  <1>8. Runs(f)
    BY <1>6, <1>7
  <1>9. \A i : PathTo(tree, i) = f[i]
    BY <1>1, <1>7 DEF PathTo
  <1>10. f[1] = <<1>> /\ \A i \in 2..n : f[i] = Append(f[tree[i].parent], i)
    <2>1. 1 \in 1..n
      OBVIOUS
    <2>2. ASSUME NEW i \in 2..n PROVE i \in 1..n /\ i # 1
      OBVIOUS
    <2>3. QED
      BY <1>2, <1>8, <2>1, <2>2
  <1> DEFINE S == {i \in 1..n : f[i] \in P}
  <1>11. \A i \in 1..n : i \in S
    <2>1. 1 \in S
      BY <1>5, <1>10
    <2>2. ASSUME NEW i \in 2..n, tree[i].parent \in S PROVE i \in S
      <3>1. f[i] = Append(f[tree[i].parent], i) /\ f[tree[i].parent] \in P /\ i \in 1..n
        BY <1>10, <2>2
      <3>2. QED
        BY <1>4, <3>1
    <2> HIDE DEF S
    <2>3. QED
      BY <1>1, <2>1, <2>2, TreeInduction
  <1>12. QED
    BY <1>1, <1>3, <1>9, <1>10, <1>11

-----------------------------------------------------------------------------
(* A table of the first numbers is a sequence                              *)
LEMMA TableSequence ==
  ASSUME NEW T, NEW n \in Nat, NEW s \in [1..n -> T]
  PROVE  s \in Seq(T) /\ Len(s) = n
  <1>1. s \in Seq(T)
    BY SeqDef
  <1>2. DOMAIN s = 1..n /\ Len(s) \in Nat /\ DOMAIN s = 1..Len(s)
    BY <1>1, LenProperties
  <1>3. QED
    BY <1>1, <1>2

LEMMA AppendedIs ==
  ASSUME NEW T, NEW s \in Seq(T), NEW x \in T
  PROVE  /\ Append(s, x) \in Seq(T) /\ Len(Append(s, x)) = Len(s) + 1 /\ DOMAIN Append(s, x) = 1..(Len(s) + 1)
         /\ \A i \in 1..Len(s) : Append(s, x)[i] = s[i]
         /\ Append(s, x)[Len(s) + 1] = x
  <1>1. PICK w : w = Append(s, x)
    OBVIOUS
  <1>2. /\ w \in Seq(T) /\ Len(w) = Len(s) + 1
        /\ \A i \in 1..Len(s) : w[i] = s[i]
        /\ w[Len(s) + 1] = x
    BY <1>1, AppendProperties
  <1>3. DOMAIN w = 1..(Len(s) + 1)
    BY <1>2, LenProperties
  <1>4. QED
    BY <1>1, <1>2, <1>3

(* A sequence that is looked up element by element                         *)
LEMMA LookedUpAppend ==
  ASSUME NEW D, NEW T, NEW g \in [D -> T], NEW s \in Seq(D), NEW x \in D
  PROVE  /\ [i \in DOMAIN s |-> g[s[i]]] \in Seq(T)
         /\ [i \in DOMAIN Append(s, x) |-> g[Append(s, x)[i]]] = Append([i \in DOMAIN s |-> g[s[i]]], g[x])
  <1>1. PICK n \in Nat : n = Len(s) /\ DOMAIN s = 1..n /\ \A i \in 1..n : s[i] \in D
    BY LenProperties, ElementOfSeq
  <1>2. PICK sx \in Seq(D) : /\ sx = Append(s, x) /\ Len(sx) = n + 1 /\ DOMAIN sx = 1..(n + 1)
                             /\ \A i \in 1..n : sx[i] = s[i]
                             /\ sx[n + 1] = x
    <2>1. /\ Append(s, x) \in Seq(D) /\ Len(Append(s, x)) = Len(s) + 1 /\ DOMAIN Append(s, x) = 1..(Len(s) + 1)
          /\ \A i \in 1..Len(s) : Append(s, x)[i] = s[i]
          /\ Append(s, x)[Len(s) + 1] = x
      BY AppendedIs
    <2>2. QED
      BY <1>1, <2>1
  <1>3. PICK t : t = [i \in 1..n |-> g[s[i]]]
    OBVIOUS
  <1>4. t \in [1..n -> T] /\ \A i \in 1..n : t[i] = g[s[i]]
    BY <1>1, <1>3
  <1>5. t \in Seq(T) /\ Len(t) = n /\ g[x] \in T
    BY <1>4, TableSequence
  <1>6. PICK tx \in Seq(T) : /\ tx = Append(t, g[x]) /\ Len(tx) = n + 1
                             /\ \A i \in 1..n : tx[i] = t[i]
                             /\ tx[n + 1] = g[x]
    BY <1>5, AppendProperties
  <1>7. PICK u : u = [i \in 1..(n + 1) |-> g[sx[i]]]
    OBVIOUS
  <1>8. \A i \in 1..(n + 1) : sx[i] \in D
    BY <1>2, ElementOfSeq
  <1>9. u \in [1..(n + 1) -> T] /\ \A i \in 1..(n + 1) : u[i] = g[sx[i]]
    BY <1>7, <1>8
  <1>10. u \in Seq(T) /\ Len(u) = n + 1
    BY <1>9, TableSequence
  <1>11. ASSUME NEW i \in 1..(n + 1) PROVE u[i] = tx[i]
    <2>1. CASE i = n + 1
      BY <1>2, <1>6, <1>9, <2>1
    <2>2. CASE i # n + 1
      <3>1. i \in 1..n
        BY <2>2
      <3>2. QED
        BY <1>2, <1>4, <1>6, <1>9, <3>1
    <2>3. QED
      BY <2>1, <2>2
  <1>12. u = tx
    BY <1>6, <1>10, <1>11, SeqEqual
  <1>13. QED
    BY <1>1, <1>2, <1>3, <1>5, <1>6, <1>7, <1>12

(* What was appended is told from what it was appended to                  *)
LEMMA AppendTells ==
  ASSUME NEW T, NEW s \in Seq(T), NEW t \in Seq(T), NEW a \in T, NEW b \in T, Append(s, a) = Append(t, b)
  PROVE  s = t /\ a = b
  <1>1. PICK m \in Nat, n \in Nat : m = Len(s) /\ n = Len(t)
    BY LenProperties
  <1>2. PICK w : /\ w = Append(s, a) /\ Len(w) = m + 1
                 /\ \A i \in 1..m : w[i] = s[i]
                 /\ w[m + 1] = a
    BY <1>1, AppendProperties
  <1>3. /\ w = Append(t, b) /\ Len(w) = n + 1
        /\ \A i \in 1..n : w[i] = t[i]
        /\ w[n + 1] = b
    BY <1>1, <1>2, AppendProperties
  <1>4. m = n
    BY <1>2, <1>3
  <1>5. a = b /\ \A i \in 1..m : s[i] = t[i]
    BY <1>2, <1>3, <1>4
  <1>6. QED
    BY <1>1, <1>4, <1>5, SeqEqual

LEMMA ElementsAppend ==
  ASSUME NEW T, NEW s \in Seq(T), NEW x \in T
  PROVE  ToSet(Append(s, x)) = ToSet(s) \cup {x}
  <1>1. PICK n \in Nat : n = Len(s) /\ DOMAIN s = 1..n
    BY LenProperties
  <1>2. PICK w \in Seq(T) : /\ w = Append(s, x) /\ Len(w) = n + 1 /\ DOMAIN w = 1..(n + 1)
                            /\ \A i \in 1..n : w[i] = s[i]
                            /\ w[n + 1] = x
    <2>1. /\ Append(s, x) \in Seq(T) /\ Len(Append(s, x)) = Len(s) + 1 /\ DOMAIN Append(s, x) = 1..(Len(s) + 1)
          /\ \A i \in 1..Len(s) : Append(s, x)[i] = s[i]
          /\ Append(s, x)[Len(s) + 1] = x
      BY AppendedIs
    <2>2. QED
      BY <1>1, <2>1
  <1>3. \A i \in 1..(n + 1) : i \in 1..n \/ i = n + 1
    OBVIOUS
  <1>4. \A i \in 1..n : i \in 1..(n + 1)
    OBVIOUS
  <1>5. n + 1 \in 1..(n + 1)
    OBVIOUS
  <1>6. ToSet(w) = ToSet(s) \cup {x}
    BY <1>1, <1>2, <1>3, <1>4, <1>5 DEF ToSet
  <1>7. QED
    BY <1>2, <1>6

(* The branch to a node is that to its parent and the node                 *)
Labels == [token : DOMAIN Draft, prob : 0..Certain]

Label(tree, i) == [token |-> tree[i].token, prob |-> tree[i].prob]

LEMMA BranchesAre ==
  ASSUME NEW tree, IsTree(tree)
  PROVE  /\ Branches(tree)[1] = <<Label(tree, 1)>>
         /\ DOMAIN Branches(tree) = 1..Len(tree)
         /\ \A i \in 1..Len(tree) : Branches(tree)[i] \in Seq(Labels) /\ Label(tree, i) \in Labels
         /\ \A i \in 2..Len(tree) :
              Branches(tree)[i] = Append(Branches(tree)[tree[i].parent], Label(tree, i))
  <1>1. PICK n \in Nat \ {0} : n = Len(tree) /\ DOMAIN tree = 1..n
    BY LenProperties DEF IsTree
  <1>2. \A i \in 1..n : Label(tree, i) \in Labels
    <2>1. \A i \in 1..n : tree[i] \in NodeKinds
      BY <1>1, ElementOfSeq DEF IsTree
    <2>2. QED
      BY <2>1 DEF NodeKinds, Label, Labels
  <1>3. PICK D : D = 1..n
    OBVIOUS
  <1>4. PICK g \in [D -> Labels] : \A i \in D : g[i] = Label(tree, i)
    <2>1. PICK g : g = [i \in D |-> Label(tree, i)]
      OBVIOUS
    <2>2. g \in [D -> Labels] /\ \A i \in D : g[i] = Label(tree, i)
      BY <1>2, <1>3, <2>1
    <2>3. QED
      BY <2>2
  <1>5. /\ PathTo(tree, 1) = <<1>>
        /\ \A i \in D : PathTo(tree, i) \in Seq(D)
        /\ \A i \in 2..n : PathTo(tree, i) = Append(PathTo(tree, tree[i].parent), i)
    BY <1>1, <1>3, PathsAre
  <1>6. PICK b : b = Branches(tree)
    OBVIOUS
  <1>7. ASSUME NEW i \in D, NEW path, path = PathTo(tree, i)
        PROVE  b[i] = [k \in DOMAIN path |-> g[path[k]]]
    <2>1. path \in Seq(D)
      BY <1>5, <1>7
    <2>2. \A k \in DOMAIN path : path[k] \in D
      BY <2>1, LenProperties, ElementOfSeq
    <2>3. b[i] = [k \in DOMAIN path |-> [token |-> tree[path[k]].token, prob |-> tree[path[k]].prob]]
      BY <1>1, <1>3, <1>6, <1>7 DEF Branches
    <2>4. \A k \in DOMAIN path : [token |-> tree[path[k]].token, prob |-> tree[path[k]].prob] = g[path[k]]
      BY <1>4, <2>2 DEF Label
    <2>5. QED
      BY <2>3, <2>4
  <1>8. DOMAIN b = D
    BY <1>1, <1>3, <1>6 DEF Branches
  <1>9. ASSUME NEW i \in D PROVE b[i] \in Seq(Labels)
    <2>1. PICK path \in Seq(D) : path = PathTo(tree, i)
      BY <1>5
    <2>2. b[i] = [k \in DOMAIN path |-> g[path[k]]]
      BY <1>7, <2>1
    <2>3. [k \in DOMAIN path |-> g[path[k]]] \in Seq(Labels)
      BY <1>4, LookedUpAppend
    <2>4. QED
      BY <2>2, <2>3
  <1>10. b[1] = <<Label(tree, 1)>>
    <2>1. 1 \in D
      BY <1>3
    <2>2. PICK path : path = <<1>> /\ path = PathTo(tree, 1)
      BY <1>5
    <2>3. DOMAIN path = {1} /\ path[1] = 1
      BY <2>2
    <2>4. b[1] = [k \in {1} |-> g[path[k]]]
      BY <1>7, <2>1, <2>2, <2>3
    <2>5. b[1] = [k \in {1} |-> g[1]]
      BY <2>3, <2>4
    <2>6. [k \in {1} |-> g[1]] = <<g[1]>>
      OBVIOUS
    <2>7. QED
      BY <1>4, <2>1, <2>5, <2>6
  <1>11. ASSUME NEW i \in 2..n PROVE b[i] = Append(b[tree[i].parent], Label(tree, i))
    <2>1. PICK p \in 1..(i - 1) : p = tree[i].parent
      BY <1>1 DEF IsTree
    <2>2. p \in D /\ i \in D
      BY <1>3
    <2>3. PICK path \in Seq(D) : path = PathTo(tree, p)
      BY <1>5, <2>2
    <2>4. PICK longer : longer = PathTo(tree, i)
      OBVIOUS
    <2>5. b[i] = [k \in DOMAIN longer |-> g[longer[k]]]
      BY <1>7, <2>2, <2>4
    <2>6. longer = Append(path, i)
      BY <1>5, <2>1, <2>3, <2>4
    <2>7. b[p] = [k \in DOMAIN path |-> g[path[k]]]
      BY <1>7, <2>2, <2>3
    <2>8. b[i] = Append(b[p], g[i])
      <3>1. [k \in DOMAIN longer |-> g[longer[k]]] = Append([k \in DOMAIN path |-> g[path[k]]], g[i])
        BY <1>4, <2>2, <2>6, LookedUpAppend
      <3>2. QED
        BY ONLY <2>5, <2>7, <3>1
    <2>9. QED
      BY <1>4, <2>1, <2>2, <2>8
  <1>12. QED
    BY <1>1, <1>2, <1>3, <1>6, <1>8, <1>9, <1>10, <1>11

(* What a node scores is told by its branch                                *)
LEMMA BranchesBegin ==
  ASSUME NEW tree, IsTree(tree)
  PROVE  /\ \A i \in 1..Len(tree) : Branches(tree)[i] \in Seq(Labels) \ {<<>>} /\ Label(tree, i) \in Labels
         /\ Branches(tree)[1] = Append(<<>>, Label(tree, 1))
         /\ \A i \in 2..Len(tree) :
              /\ tree[i].parent \in 1..Len(tree)
              /\ Branches(tree)[i] = Append(Branches(tree)[tree[i].parent], Label(tree, i))
  <1>1. PICK n \in Nat \ {0} : n = Len(tree)
    BY DEF IsTree
  <1>2. Branches(tree)[1] = Append(<<>>, Label(tree, 1))
    BY BranchesAre
  <1>3. \A s \in Seq(Labels) : \A x \in Labels : Append(s, x) # <<>>
    <2>1. SUFFICES ASSUME NEW s \in Seq(Labels), NEW x \in Labels PROVE Append(s, x) # <<>>
      OBVIOUS
    <2>2. Len(Append(s, x)) = Len(s) + 1 /\ Len(s) \in Nat
      BY AppendProperties, LenProperties
    <2>3. Len(<<>>) = 0
      BY EmptySeq
    <2>4. Len(s) + 1 # 0
      BY <2>2
    <2>5. QED
      BY <2>2, <2>3, <2>4
  <1>4. ASSUME NEW i \in 1..n PROVE Branches(tree)[i] # <<>>
    <2>1. CASE i = 1
      <3>1. Label(tree, 1) \in Labels /\ <<>> \in Seq(Labels)
        BY <1>1, BranchesAre, EmptySeq
      <3>2. QED
        BY <1>2, <1>3, <2>1, <3>1
    <2>2. CASE i # 1
      <3>1. i \in 2..n
        BY <2>2
      <3>2. PICK p \in 1..(i - 1) : p = tree[i].parent
        BY <1>1, <3>1 DEF IsTree
      <3>3. p \in 1..n
        OBVIOUS
      <3>4. Branches(tree)[i] = Append(Branches(tree)[p], Label(tree, i))
            /\ Branches(tree)[p] \in Seq(Labels) /\ Label(tree, i) \in Labels
        BY <1>1, <3>1, <3>2, <3>3, BranchesAre
      <3>5. QED
        BY <1>3, <3>4
    <2>3. QED
      BY <2>1, <2>2
  <1>5. ASSUME NEW i \in 2..n PROVE tree[i].parent \in 1..n
    <2>1. tree[i].parent \in 1..(i - 1)
      BY <1>1 DEF IsTree
    <2>2. QED
      BY <2>1
  <1>6. /\ \A i \in 1..n : Branches(tree)[i] \in Seq(Labels) /\ Label(tree, i) \in Labels
        /\ \A i \in 2..n : Branches(tree)[i] = Append(Branches(tree)[tree[i].parent], Label(tree, i))
    BY <1>1, BranchesAre
  <1>7. QED
    BY <1>1, <1>2, <1>4, <1>5, <1>6

LEMMA BranchTells ==
  ASSUME NEW t, IsTree(t), NEW u, IsTree(u)
  PROVE  \A i \in 1..Len(t) : \A j \in 1..Len(u) :
           Branches(t)[i] = Branches(u)[j] => CumulativeProbs(t)[i] = CumulativeProbs(u)[j]
  <1>1. PICK n \in Nat \ {0}, m \in Nat \ {0} : n = Len(t) /\ m = Len(u)
    BY DEF IsTree
  <1>2. PICK b, c : b = Branches(t) /\ c = Branches(u)
    OBVIOUS
  <1>3. PICK x, y : x = CumulativeProbs(t) /\ y = CumulativeProbs(u)
    OBVIOUS
  <1>4. /\ \A i \in 1..n : b[i] \in Seq(Labels) \ {<<>>} /\ Label(t, i) \in Labels
        /\ b[1] = Append(<<>>, Label(t, 1))
        /\ \A i \in 2..n : t[i].parent \in 1..n /\ b[i] = Append(b[t[i].parent], Label(t, i))
    BY <1>1, <1>2, BranchesBegin
  <1>5. /\ \A j \in 1..m : c[j] \in Seq(Labels) \ {<<>>} /\ Label(u, j) \in Labels
        /\ c[1] = Append(<<>>, Label(u, 1))
        /\ \A j \in 2..m : u[j].parent \in 1..m /\ c[j] = Append(c[u[j].parent], Label(u, j))
    BY <1>1, <1>2, BranchesBegin
  <1>6. /\ x[1] = y[1]
        /\ \A i \in 2..n : x[i] = (x[t[i].parent] \div Certain) * t[i].prob
        /\ \A j \in 2..m : y[j] = (y[u[j].parent] \div Certain) * u[j].prob
    BY <1>1, <1>3, ScoresAre
  <1>7. <<>> \in Seq(Labels)
    BY EmptySeq
  <1> DEFINE S == {i \in 1..n : \A j \in 1..m : b[i] = c[j] => x[i] = y[j]}
  <1>8. 1 \in S
    <2>1. ASSUME NEW j \in 1..m, b[1] = c[j], j # 1 PROVE FALSE
      <3>1. j \in 2..m
        BY <2>1
      <3>2. PICK p \in 1..m : p = u[j].parent
        BY <1>5, <3>1
      <3>3. Append(<<>>, Label(t, 1)) = Append(c[p], Label(u, j))
        BY <1>4, <1>5, <2>1, <3>1, <3>2
      <3>4. Label(t, 1) \in Labels /\ Label(u, j) \in Labels /\ c[p] \in Seq(Labels) /\ c[p] # <<>>
        BY <1>4, <1>5
      <3>5. <<>> = c[p]
        BY <1>7, <3>3, <3>4, AppendTells
      <3>6. QED
        BY <3>4, <3>5
    <2>2. QED
      BY <1>6, <2>1
  <1>9. ASSUME NEW i \in 2..n, t[i].parent \in S PROVE i \in S
    <2>1. ASSUME NEW j \in 1..m, b[i] = c[j] PROVE x[i] = y[j]
      <3>1. PICK q \in 1..n : q = t[i].parent /\ b[i] = Append(b[q], Label(t, i))
        BY <1>4
      <3>2. b[q] \in Seq(Labels) /\ b[q] # <<>> /\ Label(t, i) \in Labels
        BY <1>4
      <3>3. j # 1
        <4>1. SUFFICES ASSUME j = 1 PROVE FALSE
          OBVIOUS
        <4>2. Append(<<>>, Label(u, 1)) = Append(b[q], Label(t, i)) /\ Label(u, 1) \in Labels
          BY <1>5, <2>1, <3>1, <4>1
        <4>3. <<>> = b[q]
          BY <1>7, <3>2, <4>2, AppendTells
        <4>4. QED
          BY <3>2, <4>3
      <3>4. j \in 2..m
        BY <3>3
      <3>5. PICK p \in 1..m : p = u[j].parent /\ c[j] = Append(c[p], Label(u, j))
        BY <1>5, <3>4
      <3>6. c[p] \in Seq(Labels) /\ Label(u, j) \in Labels
        BY <1>5
      <3>7. b[q] = c[p] /\ Label(t, i) = Label(u, j)
        <4>1. PICK v \in Seq(Labels), w \in Seq(Labels), d \in Labels, e \in Labels :
                v = b[q] /\ w = c[p] /\ d = Label(t, i) /\ e = Label(u, j)
          BY <3>2, <3>6
        <4>2. Append(v, d) = Append(w, e)
          BY <2>1, <3>1, <3>5, <4>1
        <4>3. v = w /\ d = e
          BY ONLY <4>2, AppendTells, v \in Seq(Labels), w \in Seq(Labels), d \in Labels, e \in Labels
        <4>4. QED
          BY <4>1, <4>3
      <3>8. t[i].prob = u[j].prob
        BY <3>7 DEF Label
      <3>9. x[q] = y[p]
        BY <1>9, <3>1, <3>7
      <3>10. QED
        BY <1>6, <3>1, <3>4, <3>5, <3>8, <3>9
    <2>2. i \in 1..n
      OBVIOUS
    <2>3. QED
      BY <2>1, <2>2
  <1>10. \A i \in 1..n : i \in S
    <2> HIDE DEF S
    <2>1. QED
      BY <1>1, <1>8, <1>9, TreeInduction
  <1>11. QED
    BY <1>1, <1>2, <1>3, <1>10

(* A node sees its own path and nothing else                               *)
Sees(tree, i, seen) ==
  /\ i \in seen /\ seen \subseteq 1..i /\ IsFiniteSet(seen) /\ Cardinality(seen) = tree[i].depth + 1
  /\ {tree[k].depth : k \in seen} = 0..tree[i].depth
  /\ \A k \in seen : ToSet(PathTo(tree, k)) \subseteq seen

LEMMA PathsSeen ==
  ASSUME NEW tree, IsTree(tree)
  PROVE  \A i \in 1..Len(tree) : Sees(tree, i, ToSet(PathTo(tree, i)))
  <1>1. PICK n \in Nat \ {0} : n = Len(tree) /\ DOMAIN tree = 1..n
    BY LenProperties DEF IsTree
  <1>2. /\ PathTo(tree, 1) = <<1>>
        /\ \A i \in 1..n : PathTo(tree, i) \in Seq(1..n)
        /\ \A i \in 2..n : PathTo(tree, i) = Append(PathTo(tree, tree[i].parent), i)
    BY <1>1, PathsAre
  <1>3. \A i \in 1..n : tree[i].depth \in Nat
    <2>1. \A i \in 1..n : tree[i] \in NodeKinds
      BY <1>1, ElementOfSeq DEF IsTree
    <2>2. QED
      BY <2>1 DEF NodeKinds
  <1> DEFINE S == {i \in 1..n : Sees(tree, i, ToSet(PathTo(tree, i)))}
  <1>4. 1 \in S
    <2>1. PICK one : one = {1}
      OBVIOUS
    <2>2. ToSet(PathTo(tree, 1)) = one
      <3>1. ToSet(<<1>>) = {1}
        BY DEF ToSet
      <3>2. QED
        BY <1>2, <2>1, <3>1
    <2>3. tree[1].depth = 0
      BY DEF IsTree
    <2>4. IsFiniteSet(one) /\ Cardinality(one) = tree[1].depth + 1
      <3>1. IsFiniteSet(one) /\ Cardinality(one) = 1
        BY <2>1, FS_Singleton
      <3>2. QED
        BY <2>3, <3>1
    <2>5. {tree[k].depth : k \in one} = 0..tree[1].depth
      <3>1. 0..0 = {0}
        OBVIOUS
      <3>2. QED
        BY <2>1, <2>3, <3>1
    <2>6. 1 \in one /\ one \subseteq 1..1
      BY <2>1
    <2>7. \A k \in one : ToSet(PathTo(tree, k)) \subseteq one
      BY <2>1, <2>2
    <2>8. Sees(tree, 1, one)
      BY <2>4, <2>5, <2>6, <2>7 DEF Sees
    <2>9. QED
      BY <2>2, <2>8
  <1>5. ASSUME NEW i \in 2..n, tree[i].parent \in S PROVE i \in S
    <2>1. PICK p \in 1..(i - 1) : p = tree[i].parent /\ tree[i].depth = tree[p].depth + 1
      BY <1>1 DEF IsTree
    <2>2. PICK seen : seen = ToSet(PathTo(tree, p))
      OBVIOUS
    <2>3. Sees(tree, p, seen)
      BY <1>5, <2>1, <2>2
    <2>4. ToSet(PathTo(tree, i)) = seen \cup {i}
      <3>1. p \in 1..n /\ i \in 1..n
        OBVIOUS
      <3>2. PICK path \in Seq(1..n) : path = PathTo(tree, p)
        BY <1>2, <3>1
      <3>3. PathTo(tree, i) = Append(path, i)
        BY <1>2, <2>1, <3>2
      <3>4. ToSet(Append(path, i)) = ToSet(path) \cup {i}
        BY <3>1, ElementsAppend
      <3>5. QED
        BY <2>2, <3>2, <3>3, <3>4
    <2>5. PICK d \in Nat : d = tree[p].depth
      <3>1. p \in 1..n
        OBVIOUS
      <3>2. QED
        BY <1>3, <3>1
    <2>6. i \notin seen /\ seen \subseteq 1..p
      <3>1. seen \subseteq 1..p
        BY <2>3 DEF Sees
      <3>2. i \notin 1..p
        OBVIOUS
      <3>3. QED
        BY <3>1, <3>2
    <2>7. IsFiniteSet(seen \cup {i}) /\ Cardinality(seen \cup {i}) = tree[i].depth + 1
      <3>1. IsFiniteSet(seen) /\ Cardinality(seen) = d + 1
        BY <2>3, <2>5 DEF Sees
      <3>2. IsFiniteSet(seen \cup {i}) /\ Cardinality(seen \cup {i}) = Cardinality(seen) + 1
        BY <2>6, <3>1, FS_AddElement
      <3>3. QED
        BY <2>1, <2>5, <3>1, <3>2
    <2>8. {tree[k].depth : k \in seen \cup {i}} = 0..tree[i].depth
      <3>1. {tree[k].depth : k \in seen} = 0..d
        BY <2>3, <2>5 DEF Sees
      <3>2. {tree[k].depth : k \in seen \cup {i}} = {tree[k].depth : k \in seen} \cup {tree[i].depth}
        OBVIOUS
      <3>3. 0..(d + 1) = (0..d) \cup {d + 1}
        OBVIOUS
      <3>4. QED
        BY <2>1, <2>5, <3>1, <3>2, <3>3
    <2>9. seen \cup {i} \subseteq 1..i
      <3>1. 1..p \subseteq 1..i /\ i \in 1..i
        OBVIOUS
      <3>2. QED
        BY <2>6, <3>1
    <2>10. \A k \in seen \cup {i} : ToSet(PathTo(tree, k)) \subseteq seen \cup {i}
      BY <2>3, <2>4 DEF Sees
    <2>11. Sees(tree, i, seen \cup {i})
      BY <2>7, <2>8, <2>9, <2>10 DEF Sees
    <2>12. i \in 1..n
      OBVIOUS
    <2>13. QED
      BY <2>4, <2>11, <2>12
  <1>6. \A i \in 1..n : i \in S
    <2> HIDE DEF S
    <2>1. QED
      BY <1>1, <1>4, <1>5, TreeInduction
  <1>7. QED
    BY <1>1, <1>6

-----------------------------------------------------------------------------
(* The rank of a node in the order of pruning                              *)
Rank(scores, i) == Cardinality(Ahead(scores, i))

LEMMA AheadIs ==
  ASSUME NEW n \in Nat, NEW s \in [1..n -> Nat]
  PROVE  /\ \A i \in 1..n : Ahead(s, i) \subseteq 1..n /\ IsFiniteSet(Ahead(s, i)) /\ Rank(s, i) \in 0..(n - 1)
         /\ \A i \in 1..n : \A j \in Ahead(s, i) : Ahead(s, j) \subseteq Ahead(s, i) /\ Rank(s, j) < Rank(s, i)
         /\ \A i, j \in 1..n : i # j => j \in Ahead(s, i) \/ i \in Ahead(s, j)
  <1>1. DOMAIN s = 1..n /\ \A i \in 1..n : s[i] \in Nat
    OBVIOUS
  <1>2. IsFiniteSet(1..n) /\ Cardinality(1..n) = n
    <2>1. 1 \in Int /\ n \in Int
      OBVIOUS
    <2>2. IsFiniteSet(1..n) /\ Cardinality(1..n) = IF 1 > n THEN 0 ELSE n - 1 + 1
      BY <2>1, FS_Interval
    <2>3. QED
      BY <2>2
  <1>3. ASSUME NEW i \in 1..n PROVE Ahead(s, i) \subseteq (1..n) \ {i}
    BY <1>1 DEF Ahead
  <1>4. ASSUME NEW i \in 1..n PROVE IsFiniteSet(Ahead(s, i)) /\ Rank(s, i) \in 0..(n - 1)
    <2>1. IsFiniteSet((1..n) \ {i}) /\ Cardinality((1..n) \ {i}) = n - 1
      BY <1>2, FS_RemoveElement
    <2>2. Ahead(s, i) \in SUBSET ((1..n) \ {i})
      BY <1>3
    <2>3. IsFiniteSet(Ahead(s, i)) /\ Cardinality(Ahead(s, i)) <= n - 1
      BY <2>1, <2>2, FS_Subset
    <2>4. Cardinality(Ahead(s, i)) \in Nat
      BY <2>3, FS_CardinalityType
    <2>5. QED
      BY <2>3, <2>4 DEF Rank
  <1>5. ASSUME NEW i \in 1..n, NEW j \in Ahead(s, i)
        PROVE  Ahead(s, j) \subseteq Ahead(s, i) /\ Rank(s, j) < Rank(s, i)
    <2>1. j \in 1..n /\ j # i
      BY <1>3
    <2>2. ASSUME NEW k \in Ahead(s, j) PROVE k \in Ahead(s, i)
      <3>1. k \in 1..n
        BY <1>3, <2>1
      <3>2. s[k] > s[j] \/ (s[k] = s[j] /\ k < j)
        BY <1>1 DEF Ahead
      <3>3. s[j] > s[i] \/ (s[j] = s[i] /\ j < i)
        BY <1>1 DEF Ahead
      <3>4. s[k] \in Nat /\ s[j] \in Nat /\ s[i] \in Nat
        BY <1>1, <2>1, <3>1
      <3>5. s[k] > s[i] \/ (s[k] = s[i] /\ k < i)
        BY <2>1, <3>1, <3>2, <3>3, <3>4
      <3>6. QED
        BY <1>1, <3>1, <3>5 DEF Ahead
    <2>3. j \notin Ahead(s, j)
      BY <1>3, <2>1
    <2>4. Ahead(s, j) \in SUBSET Ahead(s, i) /\ Ahead(s, j) # Ahead(s, i)
      BY <2>2, <2>3
    <2>5. IsFiniteSet(Ahead(s, i)) /\ Rank(s, i) \in 0..(n - 1) /\ Rank(s, j) \in 0..(n - 1)
      BY <1>4, <2>1
    <2>6. Cardinality(Ahead(s, j)) <= Cardinality(Ahead(s, i))
          /\ (Cardinality(Ahead(s, i)) = Cardinality(Ahead(s, j)) => Ahead(s, i) = Ahead(s, j))
      BY <2>4, <2>5, FS_Subset
    <2>7. QED
      BY <2>4, <2>5, <2>6 DEF Rank
  <1>6. ASSUME NEW i \in 1..n, NEW j \in 1..n, i # j PROVE j \in Ahead(s, i) \/ i \in Ahead(s, j)
    <2>1. s[i] \in Nat /\ s[j] \in Nat
      BY <1>1
    <2>2. s[j] > s[i] \/ (s[j] = s[i] /\ j < i) \/ s[i] > s[j] \/ (s[i] = s[j] /\ i < j)
      BY <1>6, <2>1
    <2>3. QED
      BY <1>1, <2>2 DEF Ahead
  <1>7. QED
    BY <1>3, <1>4, <1>5, <1>6

(* So the first k are k, or all                                            *)
LEMMA FirstCounted ==
  ASSUME NEW n \in Nat \ {0}, NEW s \in [1..n -> Nat], NEW k \in Nat
  PROVE  Cardinality({i \in 1..n : Rank(s, i) < k}) = IF k < n THEN k ELSE n
  <1>1. PICK r : r = [i \in 1..n |-> Rank(s, i)]
    OBVIOUS
  <1>2. \A i \in 1..n : r[i] = Rank(s, i) /\ r[i] \in 0..(n - 1)
    BY <1>1, AheadIs
  <1>3. ASSUME NEW i \in 1..n, NEW j \in 1..n, r[i] = r[j] PROVE i = j
    <2>1. SUFFICES ASSUME i # j PROVE FALSE
      OBVIOUS
    <2>2. j \in Ahead(s, i) \/ i \in Ahead(s, j)
      BY <2>1, AheadIs
    <2>3. Rank(s, j) < Rank(s, i) \/ Rank(s, i) < Rank(s, j)
      BY <2>2, AheadIs
    <2>4. r[i] \in 0..(n - 1) /\ r[j] \in 0..(n - 1) /\ (r[j] < r[i] \/ r[i] < r[j])
      BY <1>2, <2>3
    <2>5. QED
      BY <1>3, <2>4
  <1>4. PICK top : top = 0..(n - 1)
    OBVIOUS
  <1>5. IsFiniteSet(1..n) /\ Cardinality(1..n) = n /\ IsFiniteSet(top) /\ Cardinality(top) = n
    <2>1. 1 \in Int /\ n \in Int /\ 0 \in Int /\ n - 1 \in Int
      OBVIOUS
    <2>2. /\ IsFiniteSet(1..n) /\ Cardinality(1..n) = IF 1 > n THEN 0 ELSE n - 1 + 1
          /\ IsFiniteSet(top) /\ Cardinality(top) = IF 0 > n - 1 THEN 0 ELSE n - 1 - 0 + 1
      BY <1>4, <2>1, FS_Interval
    <2>3. QED
      BY <2>2
  <1>6. r \in Injection(1..n, top)
    <2>1. r \in [1..n -> top]
      BY <1>1, <1>2, <1>4
    <2>2. QED
      BY <1>3, <2>1 DEF Injection, IsInjective
  <1>7. r \in Surjection(1..n, top)
    BY <1>5, <1>6, FS_Injection
  <1>8. \A v \in top : \E i \in 1..n : r[i] = v
    BY <1>7 DEF Surjection
  <1>9. CASE k < n
    <2>1. PICK S : S = {i \in 1..n : Rank(s, i) < k}
      OBVIOUS
    <2>2. PICK g : g = [i \in S |-> r[i]]
      OBVIOUS
    <2>3. PICK low : low = 0..(k - 1)
      OBVIOUS
    <2>4. ASSUME NEW i \in S PROVE i \in 1..n /\ g[i] = r[i] /\ g[i] \in low
      BY <1>2, <2>1, <2>2, <2>3
    <2>5. ASSUME NEW v \in low PROVE \E i \in S : g[i] = v
      <3>1. v \in top /\ v < k
        BY <1>4, <1>9, <2>3
      <3>2. PICK i \in 1..n : r[i] = v
        BY <1>8, <3>1
      <3>3. i \in S
        BY <1>2, <2>1, <3>1, <3>2
      <3>4. QED
        BY <2>4, <3>2, <3>3
    <2>6. g \in Bijection(S, low)
      <3>1. g \in [S -> low]
        BY <2>2, <2>4
      <3>2. \A i, j \in S : g[i] = g[j] => i = j
        BY <1>3, <2>4
      <3>3. g \in Injection(S, low)
        BY <3>1, <3>2 DEF Injection, IsInjective
      <3>4. g \in Surjection(S, low)
        BY <2>5, <3>1 DEF Surjection
      <3>5. QED
        BY <3>3, <3>4 DEF Bijection
    <2>7. IsFiniteSet(S)
      <3>1. S \in SUBSET (1..n)
        BY <2>1
      <3>2. QED
        BY <1>5, <3>1, FS_Subset
    <2>8. Cardinality(low) = Cardinality(S)
      <3>1. ExistsBijection(S, low)
        BY <2>6 DEF ExistsBijection
      <3>2. QED
        BY <2>7, <3>1, FS_Bijection
    <2>9. Cardinality(low) = k
      <3>1. 0 \in Int /\ k - 1 \in Int
        OBVIOUS
      <3>2. Cardinality(low) = IF 0 > k - 1 THEN 0 ELSE k - 1 - 0 + 1
        BY <2>3, <3>1, FS_Interval
      <3>3. QED
        BY <3>2
    <2>10. QED
      BY <1>9, <2>1, <2>8, <2>9
  <1>10. CASE ~(k < n)
    <2>1. {i \in 1..n : Rank(s, i) < k} = 1..n
      <3>1. \A i \in 1..n : Rank(s, i) < k
        BY <1>2, <1>10
      <3>2. QED
        BY <3>1
    <2>2. QED
      BY <1>5, <1>10, <2>1
  <1>11. QED
    BY <1>9, <1>10

(* The best nodes are as many as asked for, with every node its parent,    *)
(* and none of the others scores more than one of them but the root        *)
LEMMA BestIs ==
  ASSUME NEW tree, IsTree(tree), NEW k \in Nat
  PROVE  /\ Best(tree, k) \subseteq 1..Len(tree) /\ 1 \in Best(tree, k)
         /\ \A i \in Best(tree, k) \ {1} : tree[i].parent \in Best(tree, k)
         /\ Cardinality(Best(tree, k)) = IF k = 0 THEN 1 ELSE IF k < Len(tree) THEN k ELSE Len(tree)
         /\ \A i \in Best(tree, k) \ {1} : \A j \in (1..Len(tree)) \ Best(tree, k) :
              CumulativeProbs(tree)[j] <= CumulativeProbs(tree)[i]
  <1>1. PICK n \in Nat \ {0} : n = Len(tree) /\ DOMAIN tree = 1..n
    BY LenProperties DEF IsTree
  <1>2. PICK s \in [1..n -> Nat] : s = CumulativeProbs(tree)
    BY <1>1, ScoresAre
  <1>3. PICK first : first = {i \in 1..n : Rank(s, i) < k}
    OBVIOUS
  <1>4. Best(tree, k) = first \cup {1}
    BY <1>1, <1>2, <1>3 DEF Best, Rank
  <1>5. /\ \A i \in 1..n : Ahead(s, i) \subseteq 1..n /\ IsFiniteSet(Ahead(s, i)) /\ Rank(s, i) \in 0..(n - 1)
        /\ \A i \in 1..n : \A j \in Ahead(s, i) : Ahead(s, j) \subseteq Ahead(s, i) /\ Rank(s, j) < Rank(s, i)
        /\ \A i, j \in 1..n : i # j => j \in Ahead(s, i) \/ i \in Ahead(s, j)
    BY AheadIs
  <1>6. ASSUME NEW i \in 2..n PROVE tree[i].parent \in 1..(i - 1) /\ s[i] <= s[tree[i].parent]
    <2>1. PICK p \in 1..(i - 1) : p = tree[i].parent
      BY <1>1 DEF IsTree
    <2>2. p \in 1..n /\ i \in 1..n
      OBVIOUS
    <2>3. s[p] \in Nat /\ tree[i].prob \in 0..Certain
      <3>1. tree[i] \in NodeKinds
        BY <1>1, <2>2, ElementOfSeq DEF IsTree
      <3>2. QED
        BY <2>2, <3>1 DEF NodeKinds
    <2>4. s[i] = (s[p] \div Certain) * tree[i].prob
      BY <1>1, <1>2, <2>1, ScoresAre
    <2>5. QED
      BY <2>1, <2>3, <2>4, Scaled
  <1>7. ASSUME NEW i \in 2..n PROVE tree[i].parent \in Ahead(s, i)
    <2>1. PICK p \in 1..(i - 1) : p = tree[i].parent /\ s[i] <= s[p]
      BY <1>6
    <2>2. p \in 1..n /\ i \in 1..n /\ p < i /\ s[p] \in Nat /\ s[i] \in Nat
      OBVIOUS
    <2>3. s[p] > s[i] \/ (s[p] = s[i] /\ p < i)
      BY <2>1, <2>2
    <2>4. QED
      BY <2>1, <2>2, <2>3 DEF Ahead
  <1>8. \A i \in 1..n : i = 1 \/ 1 \in Ahead(s, i)
    <2> DEFINE S == {i \in 1..n : i = 1 \/ 1 \in Ahead(s, i)}
    <2>1. 1 \in S
      OBVIOUS
    <2>2. ASSUME NEW i \in 2..n, tree[i].parent \in S PROVE i \in S
      <3>1. i \in 1..n /\ tree[i].parent \in Ahead(s, i)
        BY <1>7
      <3>2. QED
        BY <1>5, <2>2, <3>1
    <2>3. \A i \in 1..n : i \in S
      <3> HIDE DEF S
      <3>1. QED
        BY <1>1, <2>1, <2>2, TreeInduction
    <2>4. QED
      BY <2>3
  <1>9. ASSUME NEW i \in first \ {1} PROVE i \in 2..n /\ tree[i].parent \in first
    <2>1. i \in 2..n /\ i \in 1..n /\ Rank(s, i) < k
      BY <1>3
    <2>2. tree[i].parent \in Ahead(s, i) /\ tree[i].parent \in 1..n
      BY <1>5, <1>7, <2>1
    <2>3. Rank(s, tree[i].parent) < Rank(s, i) /\ Rank(s, tree[i].parent) \in 0..(n - 1) /\ Rank(s, i) \in 0..(n - 1)
      BY <1>5, <2>1, <2>2
    <2>4. QED
      BY <1>3, <2>1, <2>2, <2>3
  <1>10. k # 0 => 1 \in first
    <2>1. SUFFICES ASSUME k # 0 PROVE 1 \in first
      OBVIOUS
    <2>2. 1 \in 1..n
      OBVIOUS
    <2>3. ASSUME NEW j \in Ahead(s, 1) PROVE FALSE
      <3>1. j \in 1..n /\ Rank(s, j) < Rank(s, 1) /\ Rank(s, 1) \in 0..(n - 1) /\ Rank(s, j) \in 0..(n - 1)
        BY <1>5, <2>2
      <3>2. j = 1 \/ 1 \in Ahead(s, j)
        BY <1>8, <3>1
      <3>3. j = 1 \/ Rank(s, 1) < Rank(s, j)
        BY <1>5, <3>1, <3>2
      <3>4. QED
        BY <3>1, <3>3
    <2>4. Rank(s, 1) = 0
      BY <2>3, FS_EmptySet DEF Rank
    <2>5. QED
      BY <1>3, <2>1, <2>2, <2>4
  <1>11. Cardinality(Best(tree, k)) = IF k = 0 THEN 1 ELSE IF k < n THEN k ELSE n
    <2>1. CASE k = 0
      <3>1. first = {}
        BY <1>3, <1>5, <2>1
      <3>2. Best(tree, k) = {1}
        BY <1>4, <3>1
      <3>3. QED
        BY <2>1, <3>2, FS_Singleton
    <2>2. CASE k # 0
      <3>1. Best(tree, k) = first
        BY <1>4, <1>10, <2>2
      <3>2. Cardinality(first) = IF k < n THEN k ELSE n
        BY <1>3, FirstCounted
      <3>3. QED
        BY <2>2, <3>1, <3>2
    <2>3. QED
      BY <2>1, <2>2
  <1>12. ASSUME NEW i \in first, NEW j \in (1..n) \ first PROVE s[j] <= s[i]
    <2>1. i \in 1..n /\ j \in 1..n /\ Rank(s, i) < k /\ ~(Rank(s, j) < k)
      BY <1>3
    <2>2. Rank(s, i) \in 0..(n - 1) /\ Rank(s, j) \in 0..(n - 1)
      BY <1>5, <2>1
    <2>3. j \notin Ahead(s, i)
      <3>1. SUFFICES ASSUME j \in Ahead(s, i) PROVE FALSE
        OBVIOUS
      <3>2. Rank(s, j) < Rank(s, i)
        BY <1>5, <2>1, <3>1
      <3>3. QED
        BY <2>1, <2>2, <3>2
    <2>4. s[i] \in Nat /\ s[j] \in Nat
      BY <2>1
    <2>5. ~(s[j] > s[i])
      BY <2>1, <2>3 DEF Ahead
    <2>6. QED
      BY <2>4, <2>5
  <1>13. QED
    <2>1. Best(tree, k) \subseteq 1..n /\ 1 \in Best(tree, k)
      BY <1>3, <1>4
    <2>2. \A i \in Best(tree, k) \ {1} : i \in first \ {1}
      BY <1>4
    <2>3. \A j \in (1..n) \ Best(tree, k) : j \in (1..n) \ first
      BY <1>4
    <2>4. QED
      BY <1>1, <1>2, <1>4, <1>9, <1>11, <1>12, <2>1, <2>2, <2>3

-----------------------------------------------------------------------------
(* A tree with another child is a tree                                     *)
LEMMA RootIsTree ==
  ASSUME NEW token \in DOMAIN Draft
  PROVE  IsTree(Root(token)) /\ Len(Root(token)) = 1 /\ Root(token)[1].token = token
  <1>1. PICK r : r = [token |-> token, parent |-> NoParent, depth |-> 0, prob |-> Certain]
    OBVIOUS
  <1>2. r \in NodeKinds
    <2>1. Certain \in 0..Certain /\ NoParent \in Nat
      BY DraftTreeAssumption DEF NoParent
    <2>2. QED
      BY <1>1, <2>1 DEF NodeKinds
  <1>3. Root(token) = <<r>>
    BY <1>1 DEF Root
  <1>4. <<r>> \in Seq(NodeKinds) /\ Len(<<r>>) = 1 /\ <<r>>[1] = r
    BY <1>2
  <1>5. r.parent = NoParent /\ r.depth = 0 /\ r.prob = Certain /\ r.token = token
    BY <1>1
  <1>6. 2..1 = {}
    OBVIOUS
  <1>7. QED
    BY <1>3, <1>4, <1>5, <1>6 DEF IsTree

LEMMA ChildIs ==
  ASSUME NEW tree, IsTree(tree), NEW parent \in 1..Len(tree), NEW token \in DOMAIN Draft, NEW prob \in 0..Certain
  PROVE  /\ Child(tree, parent, token, prob) \in NodeKinds
         /\ Child(tree, parent, token, prob).token = token /\ Child(tree, parent, token, prob).prob = prob
         /\ Child(tree, parent, token, prob).parent = parent
         /\ Child(tree, parent, token, prob).depth = tree[parent].depth + 1
  <1>1. tree[parent] \in NodeKinds /\ Len(tree) \in Nat
    BY ElementOfSeq DEF IsTree
  <1>2. tree[parent].depth + 1 \in Nat /\ parent \in Nat
    BY <1>1 DEF NodeKinds
  <1>3. QED
    BY <1>2 DEF Child, NodeKinds

LEMMA AddedIsTree ==
  ASSUME NEW tree, IsTree(tree), NEW parent \in 1..Len(tree), NEW token \in DOMAIN Draft, NEW prob \in 0..Certain,
         NEW more, more = Added(tree, parent, token, prob)
  PROVE  /\ IsTree(more) /\ Len(more) = Len(tree) + 1
         /\ \A i \in 1..Len(tree) : more[i] = tree[i]
         /\ more[Len(tree) + 1].token = token /\ more[Len(tree) + 1].prob = prob
         /\ more[Len(tree) + 1].parent = parent
  <1>1. PICK n \in Nat \ {0} : n = Len(tree) /\ parent \in 1..n
    BY DEF IsTree
  <1>2. PICK c \in NodeKinds : /\ c = Child(tree, parent, token, prob)
                               /\ c.token = token /\ c.prob = prob /\ c.parent = parent
                               /\ c.depth = tree[parent].depth + 1
    BY ChildIs
  <1>3. tree \in Seq(NodeKinds)
    BY DEF IsTree
  <1>4. /\ more \in Seq(NodeKinds) /\ Len(more) = n + 1
        /\ \A i \in 1..n : more[i] = tree[i]
        /\ more[n + 1] = c
    <2>1. more = Append(tree, c)
      BY <1>2 DEF Added
    <2>2. QED
      BY <1>1, <1>3, <2>1, AppendProperties
  <1>5. more[1].parent = NoParent /\ more[1].depth = 0 /\ more[1].prob = Certain
    <2>1. 1 \in 1..n
      OBVIOUS
    <2>2. QED
      BY <1>4, <2>1 DEF IsTree
  <1>6. ASSUME NEW i \in 2..(n + 1)
        PROVE  more[i].parent \in 1..(i - 1) /\ more[i].depth = more[more[i].parent].depth + 1
    <2>1. CASE i = n + 1
      <3>1. parent \in 1..(i - 1) /\ more[parent] = tree[parent]
        BY <1>1, <1>4, <2>1
      <3>2. QED
        BY <1>2, <1>4, <2>1, <3>1
    <2>2. CASE i # n + 1
      <3>1. i \in 1..n /\ i \in 2..n
        BY <2>2
      <3>2. PICK p \in 1..(i - 1) : p = tree[i].parent /\ tree[i].depth = tree[p].depth + 1
        BY <1>1, <3>1 DEF IsTree
      <3>3. p \in 1..n
        BY <3>1
      <3>4. more[i] = tree[i] /\ more[p] = tree[p]
        BY <1>4, <3>1, <3>3
      <3>5. QED
        BY <3>2, <3>4
    <2>3. QED
      BY <2>1, <2>2
  <1>7. IsTree(more)
    BY <1>4, <1>5, <1>6 DEF IsTree
  <1>8. QED
    BY <1>1, <1>2, <1>4, <1>7

(* The children of a node, all at once                                     *)
Trees == {tree \in Seq(NodeKinds) : IsTree(tree)}

(* Trees with at least n nodes, and a frontier within                      *)
Growths(n) ==
  {g \in [tree : Trees, frontier : Seq(Nat)] :
     Len(g.tree) >= n /\ \A i \in 1..Len(g.frontier) : g.frontier[i] \in 1..Len(g.tree)}

LEMMA DraftedIs ==
  ASSUME NEW token \in DOMAIN Draft, NEW width \in Nat
  PROVE  Drafted(token, width) \in Seq([token : DOMAIN Draft, prob : 0..Certain])
  <1>1. PICK D : D = [token : DOMAIN Draft, prob : 0..Certain]
    OBVIOUS
  <1>2. PICK d \in Seq(D) : d = Draft[token]
    BY <1>1, DraftTreeAssumption
  <1>3. PICK n \in Nat : n = IF width < Len(d) THEN width ELSE Len(d)
    BY LenProperties
  <1>4. \A i \in 1..n : i \in 1..Len(d)
    BY <1>3, LenProperties
  <1>5. \A i \in 1..n : d[i] \in D
    BY <1>4, ElementOfSeq
  <1>6. SubSeq(d, 1, n) \in Seq(D)
    <2>1. 1 \in Int /\ n \in Int
      OBVIOUS
    <2>2. QED
      BY <1>5, <2>1, SubSeqProperties
  <1>7. QED
    BY <1>1, <1>2, <1>3, <1>6 DEF Drafted

LEMMA GrownIsTree ==
  ASSUME NEW n \in Nat, NEW acc \in Growths(n), NEW node \in 1..Len(acc.tree), NEW width \in Nat
  PROVE  Grown(acc, node, width) \in Growths(n)
  <1>1. PICK tree, frontier : tree = acc.tree /\ frontier = acc.frontier
    OBVIOUS
  <1>2. IsTree(tree) /\ tree \in Seq(NodeKinds) /\ frontier \in Seq(Nat) /\ Len(tree) >= n
        /\ \A i \in 1..Len(frontier) : frontier[i] \in 1..Len(tree)
    BY <1>1 DEF Growths, Trees
  <1>3. PICK t \in Nat \ {0}, f \in Nat : t = Len(tree) /\ f = Len(frontier) /\ t >= n
    BY <1>2, LenProperties DEF IsTree
  <1>4. node \in 1..t /\ tree[node].token \in DOMAIN Draft
    <2>1. tree[node] \in NodeKinds
      BY <1>1, <1>2, ElementOfSeq
    <2>2. QED
      BY <1>1, <1>3, <2>1 DEF NodeKinds
  <1>5. PICK drafts \in Seq([token : DOMAIN Draft, prob : 0..Certain]) : drafts = Drafted(tree[node].token, width)
    BY <1>4, DraftedIs
  <1>6. PICK d \in Nat : d = Len(drafts) /\ DOMAIN drafts = 1..d
    BY LenProperties
  <1>7. \A i \in 1..d : drafts[i].token \in DOMAIN Draft /\ drafts[i].prob \in 0..Certain
    <2>1. \A i \in 1..d : drafts[i] \in [token : DOMAIN Draft, prob : 0..Certain]
      BY <1>6, ElementOfSeq
    <2>2. QED
      BY <2>1
  <1>8. PICK kids \in Seq(NodeKinds) :
          /\ kids = [i \in 1..d |-> Child(tree, node, drafts[i].token, drafts[i].prob)]
          /\ Len(kids) = d
          /\ \A i \in 1..d : kids[i].parent = node /\ kids[i].depth = tree[node].depth + 1
    <2>1. PICK kids : kids = [i \in 1..d |-> Child(tree, node, drafts[i].token, drafts[i].prob)]
      OBVIOUS
    <2>2. ASSUME NEW i \in 1..d
          PROVE  kids[i] \in NodeKinds /\ kids[i].parent = node /\ kids[i].depth = tree[node].depth + 1
      <3>1. kids[i] = Child(tree, node, drafts[i].token, drafts[i].prob)
        BY <2>1
      <3>2. node \in 1..Len(tree) /\ drafts[i].token \in DOMAIN Draft /\ drafts[i].prob \in 0..Certain
        BY <1>3, <1>4, <1>7
      <3>3. QED
        BY <1>2, <3>1, <3>2, ChildIs
    <2>3. kids \in [1..d -> NodeKinds]
      BY <2>1, <2>2
    <2>4. kids \in Seq(NodeKinds) /\ Len(kids) = d
      BY <2>3, TableSequence
    <2>5. QED
      BY <2>1, <2>2, <2>4
  <1>9. PICK new \in Seq(Nat) : new = [i \in 1..d |-> t + i] /\ Len(new) = d /\ \A i \in 1..d : new[i] = t + i
    <2>1. PICK new : new = [i \in 1..d |-> t + i]
      OBVIOUS
    <2>2. new \in [1..d -> Nat] /\ \A i \in 1..d : new[i] = t + i
      BY <2>1
    <2>3. new \in Seq(Nat) /\ Len(new) = d
      BY <2>2, TableSequence
    <2>4. QED
      BY <2>1, <2>2, <2>3
  <1>10. PICK more : more = tree \o kids
    OBVIOUS
  <1>11. /\ more \in Seq(NodeKinds) /\ Len(more) = t + d
         /\ \A i \in 1..(t + d) : more[i] = IF i <= t THEN tree[i] ELSE kids[i - t]
    BY <1>2, <1>3, <1>8, <1>10, ConcatProperties
  <1>12. PICK reached : reached = frontier \o new
    OBVIOUS
  <1>13. /\ reached \in Seq(Nat) /\ Len(reached) = f + d
         /\ \A i \in 1..(f + d) : reached[i] = IF i <= f THEN frontier[i] ELSE new[i - f]
    BY <1>2, <1>3, <1>9, <1>12, ConcatProperties
  <1>14. Grown(acc, node, width) = [tree |-> more, frontier |-> reached]
    BY <1>1, <1>3, <1>5, <1>6, <1>8, <1>9, <1>10, <1>12 DEF Grown
  <1>15. IsTree(more)
    <2>1. more[1].parent = NoParent /\ more[1].depth = 0 /\ more[1].prob = Certain
      <3>1. 1 \in 1..(t + d) /\ 1 <= t
        OBVIOUS
      <3>2. more[1] = tree[1]
        BY <1>11, <3>1
      <3>3. QED
        BY <1>2, <3>2 DEF IsTree
    <2>2. ASSUME NEW i \in 2..(t + d)
          PROVE  more[i].parent \in 1..(i - 1) /\ more[i].depth = more[more[i].parent].depth + 1
      <3>1. CASE i <= t
        <4>1. i \in 2..t /\ i \in 1..(t + d)
          BY <3>1
        <4>2. PICK p \in 1..(i - 1) : p = tree[i].parent /\ tree[i].depth = tree[p].depth + 1
          BY <1>2, <1>3, <4>1 DEF IsTree
        <4>3. p \in 1..(t + d) /\ p <= t
          BY <3>1
        <4>4. more[i] = tree[i] /\ more[p] = tree[p]
          BY <1>11, <3>1, <4>1, <4>3
        <4>5. QED
          BY <4>2, <4>4
      <3>2. CASE ~(i <= t)
        <4>1. i \in 1..(t + d) /\ i - t \in 1..d /\ node \in 1..(i - 1) /\ node \in 1..(t + d) /\ node <= t
          BY <1>4, <3>2
        <4>2. more[i] = kids[i - t] /\ more[node] = tree[node]
          BY <1>11, <3>2, <4>1
        <4>3. kids[i - t].parent = node /\ kids[i - t].depth = tree[node].depth + 1
          BY <1>8, <4>1
        <4>4. QED
          BY <4>1, <4>2, <4>3
      <3>3. QED
        BY <3>1, <3>2
    <2>3. t + d \in Nat \ {0}
      OBVIOUS
    <2>4. QED
      BY <1>11, <2>1, <2>2, <2>3 DEF IsTree
  <1>16. ASSUME NEW i \in 1..(f + d) PROVE reached[i] \in 1..(t + d)
    <2>1. CASE i <= f
      <3>1. i \in 1..f
        BY <2>1
      <3>2. frontier[i] \in 1..t
        BY <1>2, <1>3, <3>1
      <3>3. QED
        BY <1>13, <2>1, <3>2
    <2>2. CASE ~(i <= f)
      <3>1. i - f \in 1..d
        BY <2>2
      <3>2. reached[i] = t + (i - f)
        BY <1>9, <1>13, <2>2, <3>1
      <3>3. t + (i - f) \in 1..(t + d)
        BY <3>1
      <3>4. QED
        BY <3>2, <3>3
    <2>3. QED
      BY <2>1, <2>2
  <1>17. t + d >= n
    BY <1>3
  <1>18. [tree |-> more, frontier |-> reached] \in Growths(n)
    <2>1. PICK g : g = [tree |-> more, frontier |-> reached]
      OBVIOUS
    <2>2. g.tree = more /\ g.frontier = reached /\ g \in [tree : Trees, frontier : Seq(Nat)]
      BY <1>11, <1>13, <1>15, <2>1 DEF Trees
    <2>3. Len(g.tree) >= n /\ \A i \in 1..Len(g.frontier) : g.frontier[i] \in 1..Len(g.tree)
      BY <1>11, <1>13, <1>16, <1>17, <2>2
    <2>4. g \in Growths(n)
      BY <2>2, <2>3 DEF Growths
    <2>5. QED
      BY <2>1, <2>4
  <1>19. QED
    BY <1>14, <1>18

LEMMA NextLevelIsTree ==
  ASSUME NEW n \in Nat, NEW grown \in Growths(n), NEW width \in Nat
  PROVE  NextLevel(grown, width) \in Growths(n)
  <1>1. PICK tree, frontier : tree = grown.tree /\ frontier = grown.frontier
    OBVIOUS
  <1>2. tree \in Trees /\ tree \in Seq(NodeKinds) /\ frontier \in Seq(Nat) /\ Len(tree) >= n
    BY <1>1 DEF Growths, Trees
  <1>3. PICK t \in Nat, f \in Nat : t = Len(tree) /\ f = Len(frontier) /\ t >= n
    BY <1>2, LenProperties
  <1>4. \A k \in 1..f : frontier[k] \in 1..t
    BY <1>1, <1>3 DEF Growths
  <1>5. PICK S : S = Growths(t)
    OBVIOUS
  <1>6. PICK start \in S : start = [tree |-> tree, frontier |-> <<>>]
    <2>1. PICK start : start = [tree |-> tree, frontier |-> <<>>]
      OBVIOUS
    <2>2. start \in [tree : Trees, frontier : Seq(Nat)] /\ start.tree = tree /\ start.frontier = <<>>
      BY <1>2, <2>1
    <2>3. Len(start.frontier) = 0 /\ 1..0 = {}
      BY <2>2
    <2>4. start \in S
      BY <1>3, <1>5, <2>2, <2>3 DEF Growths
    <2>5. QED
      BY <2>1, <2>4
  <1>7. ASSUME NEW k \in 1..f, NEW s \in S PROVE Grown(s, frontier[k], width) \in S
    <2>1. Len(s.tree) >= t /\ s.tree \in Seq(NodeKinds)
      BY <1>5 DEF Growths, Trees
    <2>2. Len(s.tree) \in Nat
      BY <2>1, LenProperties
    <2>3. frontier[k] \in 1..t
      BY <1>4
    <2>4. frontier[k] \in 1..Len(s.tree)
      BY ONLY <2>1, <2>2, <2>3, t \in Nat
    <2>5. QED
      BY <1>5, <2>4, GrownIsTree
  <1> DEFINE Runs(w) == w = [k \in 0..f |-> IF k = 0 THEN start ELSE Grown(w[k - 1], frontier[k], width)]
  <1>8. \E w : Runs(w)
    <2>1. PICK F : F = [k \in 1..f |-> [s \in S |-> Grown(s, frontier[k], width)]]
      OBVIOUS
    <2>2. \A k \in 1..f : \A s \in S : F[k][s] = Grown(s, frontier[k], width) /\ F[k][s] \in S
      BY <1>7, <2>1
    <2>3. PICK w \in [0..f -> S] : Goes(w, f, start, F)
      BY <2>2, StatesExist DEF StaysIn
    <2>4. ASSUME NEW k \in 0..f PROVE w[k] = IF k = 0 THEN start ELSE Grown(w[k - 1], frontier[k], width)
      <3>1. w[k] = IF k = 0 THEN start ELSE F[k][w[k - 1]]
        BY <2>3 DEF Goes
      <3>2. ASSUME k # 0 PROVE F[k][w[k - 1]] = Grown(w[k - 1], frontier[k], width)
        <4>1. k \in 1..f /\ k - 1 \in 0..f
          BY <3>2
        <4>2. QED
          BY <2>2, <2>3, <4>1
      <3>3. QED
        BY <3>1, <3>2
    <2>5. w = [k \in 0..f |-> IF k = 0 THEN start ELSE Grown(w[k - 1], frontier[k], width)]
      BY <2>3, <2>4
    <2>6. QED
      BY <2>5
  <1>9. PICK w : w = CHOOSE v : Runs(v)
    OBVIOUS
  <1>10. Runs(w)
    BY <1>8, <1>9
  <1>11. NextLevel(grown, width) = w[f]
    BY <1>1, <1>3, <1>6, <1>9 DEF NextLevel
  <1> DEFINE N == {k \in 0..f : w[k] \in S}
  <1>12. \A k \in 0..f : k \in N
    <2>1. 0 \in N
      BY <1>10
    <2>2. ASSUME NEW k \in 1..f, k - 1 \in N PROVE k \in N
      <3>1. k \in 0..f /\ k # 0 /\ w[k - 1] \in S
        BY <2>2
      <3>2. w[k] = Grown(w[k - 1], frontier[k], width)
        BY <1>10, <3>1
      <3>3. QED
        BY <1>7, <3>1, <3>2
    <2> HIDE DEF N
    <2>3. QED
      BY <2>1, <2>2, UpToInduction
  <1>13. PICK final \in S : final = w[f]
    BY <1>12
  <1>14. final \in Growths(n)
    <2>1. final.tree \in Seq(NodeKinds) /\ Len(final.tree) >= t
      BY <1>5 DEF Growths, Trees
    <2>2. Len(final.tree) \in Nat
      BY <2>1, LenProperties
    <2>3. Len(final.tree) >= n
      BY ONLY <1>3, <2>1, <2>2, t \in Nat, n \in Nat
    <2>4. QED
      BY <1>5, <2>3 DEF Growths
  <1>15. QED
    BY <1>11, <1>13, <1>14

LEMMA ExpandedIsTree ==
  ASSUME NEW tree, IsTree(tree), NEW width \in Nat, NEW levels \in Nat
  PROVE  IsTree(Expanded(tree, width, levels))
  <1>1. PICK S : S = Growths(1)
    OBVIOUS
  <1>2. PICK start \in S : start = [tree |-> tree, frontier |-> <<1>>]
    <2>1. PICK start : start = [tree |-> tree, frontier |-> <<1>>]
      OBVIOUS
    <2>2. tree \in Trees
      BY DEF IsTree, Trees
    <2>3. start \in [tree : Trees, frontier : Seq(Nat)] /\ start.tree = tree /\ start.frontier = <<1>>
      BY <2>1, <2>2
    <2>4. Len(start.frontier) = 1 /\ start.frontier[1] = 1
      BY <2>3
    <2>5. Len(tree) >= 1 /\ 1 \in 1..Len(tree)
      <3>1. Len(tree) \in Nat \ {0}
        BY DEF IsTree
      <3>2. QED
        BY <3>1
    <2>6. start \in S
      BY <1>1, <2>3, <2>4, <2>5 DEF Growths
    <2>7. QED
      BY <2>1, <2>6
  <1>3. \A s \in S : NextLevel(s, width) \in S
    BY <1>1, NextLevelIsTree
  <1> DEFINE Runs(w) == w = [k \in 0..levels |-> IF k = 0 THEN start ELSE NextLevel(w[k - 1], width)]
  <1>4. \E w : Runs(w)
    <2>1. PICK F : F = [k \in 1..levels |-> [s \in S |-> NextLevel(s, width)]]
      OBVIOUS
    <2>2. \A k \in 1..levels : \A s \in S : F[k][s] = NextLevel(s, width) /\ F[k][s] \in S
      BY <1>3, <2>1
    <2>3. PICK w \in [0..levels -> S] : Goes(w, levels, start, F)
      BY <2>2, StatesExist DEF StaysIn
    <2>4. ASSUME NEW k \in 0..levels PROVE w[k] = IF k = 0 THEN start ELSE NextLevel(w[k - 1], width)
      <3>1. w[k] = IF k = 0 THEN start ELSE F[k][w[k - 1]]
        BY <2>3 DEF Goes
      <3>2. ASSUME k # 0 PROVE F[k][w[k - 1]] = NextLevel(w[k - 1], width)
        <4>1. k \in 1..levels /\ k - 1 \in 0..levels
          BY <3>2
        <4>2. QED
          BY <2>2, <2>3, <4>1
      <3>3. QED
        BY <3>1, <3>2
    <2>5. w = [k \in 0..levels |-> IF k = 0 THEN start ELSE NextLevel(w[k - 1], width)]
      BY <2>3, <2>4
    <2>6. QED
      BY <2>5
  <1>5. PICK w : w = CHOOSE v : Runs(v)
    OBVIOUS
  <1>6. Runs(w)
    BY <1>4, <1>5
  <1>7. Expanded(tree, width, levels) = w[levels].tree
    BY <1>2, <1>5 DEF Expanded
  <1> DEFINE N == {k \in 0..levels : w[k] \in S}
  <1>8. \A k \in 0..levels : k \in N
    <2>1. 0 \in N
      BY <1>6
    <2>2. ASSUME NEW k \in 1..levels, k - 1 \in N PROVE k \in N
      <3>1. k \in 0..levels /\ k # 0 /\ w[k - 1] \in S
        BY <2>2
      <3>2. w[k] = NextLevel(w[k - 1], width)
        BY <1>6, <3>1
      <3>3. QED
        BY <1>3, <3>1, <3>2
    <2> HIDE DEF N
    <2>3. QED
      BY <2>1, <2>2, UpToInduction
  <1>9. w[levels].tree \in Trees
    BY <1>1, <1>8 DEF Growths
  <1>10. QED
    BY <1>7, <1>9 DEF Trees

-----------------------------------------------------------------------------
(* The nodes of a tree found again, under other numbers, in a pruned one   *)
Relabelled(tree, keep, pruned, r) ==
  /\ r \in [keep -> 1..Len(pruned)] /\ 1 \in keep /\ r[1] = 1
  /\ \A k, l \in keep : r[k] = r[l] => k = l
  /\ \A m \in 1..Len(pruned) : \E k \in keep : r[k] = m
  /\ \A k \in keep : Label(pruned, r[k]) = Label(tree, k)
  /\ \A k \in keep \ {1} : tree[k].parent \in keep /\ pruned[r[k]].parent = r[tree[k].parent]

(* The step of Pruned                                                      *)
Attached(tree, keep, done, i) ==
  IF i \notin keep \ {1} \/ tree[i].parent \notin DOMAIN done.remap THEN done
  ELSE [tree |-> Added(done.tree, done.remap[tree[i].parent], tree[i].token, tree[i].prob),
        remap |-> [k \in DOMAIN done.remap \cup {i} |->
                     IF k = i THEN Len(done.tree) + 1 ELSE done.remap[k]]]

Remaps(n) == UNION {[D -> Nat] : D \in SUBSET (1..n)}

Prunings(n) ==
  {d \in [tree : Trees, remap : Remaps(n)] :
     \A k \in DOMAIN d.remap : d.remap[k] \in 1..Len(d.tree)}

Chosen(tree, keep) ==
  /\ keep \subseteq 1..Len(tree) /\ 1 \in keep
  /\ \A i \in keep \ {1} : tree[i].parent \in keep

SoFarOf(keep, i) == {k \in keep : k = 1 \/ k <= i}

Kept(tree, keep, done, i) == Relabelled(tree, SoFarOf(keep, i), done.tree, done.remap)

LEMMA AttachedIs ==
  ASSUME NEW tree, IsTree(tree), NEW keep, NEW done \in Prunings(Len(tree)), NEW i \in 1..Len(tree)
  PROVE  Attached(tree, keep, done, i) \in Prunings(Len(tree))
  <1>1. PICK n \in Nat \ {0} : n = Len(tree)
    BY DEF IsTree
  <1>2. SUFFICES ASSUME i \in keep \ {1}, tree[i].parent \in DOMAIN done.remap
                 PROVE  Attached(tree, keep, done, i) \in Prunings(n)
    BY <1>1 DEF Attached
  <1>3. PICK old, remap : old = done.tree /\ remap = done.remap
    OBVIOUS
  <1>4. /\ IsTree(old) /\ DOMAIN remap \subseteq 1..n
        /\ remap \in [DOMAIN remap -> Nat]
        /\ \A k \in DOMAIN remap : remap[k] \in 1..Len(old)
    BY <1>1, <1>3 DEF Prunings, Remaps, Trees
  <1>5. PICK l \in Nat : l = Len(old)
    BY <1>4 DEF IsTree
  <1>6. PICK p \in 1..l : p = remap[tree[i].parent]
    BY <1>2, <1>3, <1>4, <1>5
  <1>7. tree[i].token \in DOMAIN Draft /\ tree[i].prob \in 0..Certain
    <2>1. tree[i] \in NodeKinds
      BY ElementOfSeq DEF IsTree
    <2>2. QED
      BY <2>1 DEF NodeKinds
  <1>8. PICK new : new = Added(old, p, tree[i].token, tree[i].prob)
    OBVIOUS
  <1>9. IsTree(new) /\ Len(new) = l + 1
    BY <1>4, <1>5, <1>7, <1>8, AddedIsTree
  <1>10. PICK more : more = [k \in DOMAIN remap \cup {i} |-> IF k = i THEN l + 1 ELSE remap[k]]
    OBVIOUS
  <1>11. ASSUME NEW k \in DOMAIN remap \cup {i} PROVE more[k] \in 1..(l + 1) /\ more[k] \in Nat
    <2>1. CASE k = i
      BY <1>10, <2>1
    <2>2. CASE k # i
      <3>1. remap[k] \in 1..l
        BY <1>4, <1>5, <2>2
      <3>2. more[k] = remap[k]
        BY <1>10, <2>2
      <3>3. QED
        BY <3>1, <3>2
    <2>3. QED
      BY <2>1, <2>2
  <1>12. more \in Remaps(n) /\ DOMAIN more = DOMAIN remap \cup {i}
    <2>1. PICK D : D = DOMAIN remap \cup {i}
      OBVIOUS
    <2>2. D \in SUBSET (1..n)
      BY <1>1, <1>4, <2>1
    <2>3. more \in [D -> Nat]
      BY <1>10, <1>11, <2>1
    <2>4. QED
      BY <2>1, <2>2, <2>3 DEF Remaps
  <1>13. PICK d : d = [tree |-> new, remap |-> more]
    OBVIOUS
  <1>14. d \in [tree : Trees, remap : Remaps(n)] /\ d.tree = new /\ d.remap = more
    <2>1. new \in Trees
      BY <1>9 DEF Trees, IsTree
    <2>2. QED
      BY <1>12, <1>13, <2>1
  <1>15. d \in Prunings(n)
    <2>1. \A k \in DOMAIN more : more[k] \in 1..Len(new)
      BY <1>9, <1>11, <1>12
    <2>2. QED
      BY <1>14, <2>1 DEF Prunings
  <1>16. Attached(tree, keep, done, i) = d
    BY <1>2, <1>3, <1>5, <1>6, <1>8, <1>10, <1>13 DEF Attached
  <1>17. QED
    BY <1>15, <1>16

LEMMA AttachedKept ==
  ASSUME NEW tree, IsTree(tree), NEW keep, Chosen(tree, keep), NEW i \in 1..Len(tree),
         NEW done \in Prunings(Len(tree)), Kept(tree, keep, done, i - 1)
  PROVE  Kept(tree, keep, Attached(tree, keep, done, i), i)
  <1>1. PICK n \in Nat \ {0} : n = Len(tree) /\ i \in 1..n
    BY DEF IsTree
  <1>2. keep \subseteq 1..n /\ 1 \in keep /\ \A j \in keep \ {1} : tree[j].parent \in keep
    BY <1>1 DEF Chosen
  <1>3. PICK old, remap : old = done.tree /\ remap = done.remap
    OBVIOUS
  <1>4. PICK D, E : D = SoFarOf(keep, i - 1) /\ E = SoFarOf(keep, i)
    OBVIOUS
  <1>5. Relabelled(tree, D, old, remap)
    BY <1>3, <1>4 DEF Kept
  <1>6. DOMAIN remap = D
    BY <1>5 DEF Relabelled
  <1>7. CASE i \notin keep \ {1}
    <2>1. D = E
      <3>1. \A k \in keep : k \in 1..n /\ (k = i => i = 1)
        BY <1>2, <1>7
      <3>2. \A k \in keep : (k = 1 \/ k <= i - 1) <=> (k = 1 \/ k <= i)
        BY <3>1
      <3>3. QED
        BY <1>4, <3>2 DEF SoFarOf
    <2>2. Attached(tree, keep, done, i) = done
      BY <1>7 DEF Attached
    <2>3. QED
      BY <1>3, <1>4, <1>5, <2>1, <2>2 DEF Kept
  <1>8. CASE i \in keep \ {1}
    <2>1. i \in 2..n
      BY <1>1, <1>8
    <2>2. PICK q \in 1..(i - 1) : q = tree[i].parent
      BY <1>1, <2>1 DEF IsTree
    <2>3. q \in D /\ i \notin D /\ E = D \cup {i}
      <3>1. q \in keep /\ q <= i - 1
        BY <1>2, <1>8, <2>2
      <3>2. \A k \in keep : k \in 1..n
        BY <1>2
      <3>3. \A k \in keep : (k = 1 \/ k <= i) <=> ((k = 1 \/ k <= i - 1) \/ k = i)
        BY <2>1, <3>2
      <3>4. ~(i = 1 \/ i <= i - 1)
        BY <2>1
      <3>5. QED
        BY <1>4, <1>8, <3>1, <3>3, <3>4 DEF SoFarOf
    <2>4. IsTree(old)
      BY <1>3 DEF Prunings, Trees
    <2>5. PICK l \in Nat \ {0} : l = Len(old)
      BY <2>4 DEF IsTree
    <2>6. PICK p \in 1..l : p = remap[q]
      BY <1>5, <2>3, <2>5 DEF Relabelled
    <2>7. tree[i].token \in DOMAIN Draft /\ tree[i].prob \in 0..Certain
      <3>1. tree[i] \in NodeKinds
        BY ElementOfSeq DEF IsTree
      <3>2. QED
        BY <3>1 DEF NodeKinds
    <2>8. PICK new : new = Added(old, p, tree[i].token, tree[i].prob)
      OBVIOUS
    <2>9. /\ Len(new) = l + 1 /\ \A m \in 1..l : new[m] = old[m]
          /\ new[l + 1].token = tree[i].token /\ new[l + 1].prob = tree[i].prob /\ new[l + 1].parent = p
      BY <2>4, <2>5, <2>7, <2>8, AddedIsTree
    <2>10. PICK more : more = [k \in E |-> IF k = i THEN l + 1 ELSE remap[k]]
      OBVIOUS
    <2>11. Attached(tree, keep, done, i) = [tree |-> new, remap |-> more]
      BY <1>3, <1>6, <1>8, <2>2, <2>3, <2>5, <2>6, <2>8, <2>10 DEF Attached
    <2>12. /\ \A k \in D : k # i /\ k \in E /\ more[k] = remap[k] /\ remap[k] \in 1..l
           /\ i \in E /\ more[i] = l + 1
           /\ \A k \in E : k \in D \/ k = i
      <3>1. \A k \in D : remap[k] \in 1..l
        BY <1>5, <2>5 DEF Relabelled
      <3>2. QED
        BY <2>3, <2>10, <3>1
    <2>13. more \in [E -> 1..Len(new)]
      <3>1. \A k \in E : more[k] \in 1..(l + 1)
        BY <2>12
      <3>2. QED
        BY <2>9, <2>10, <3>1
    <2>14. 1 \in E /\ more[1] = 1
      <3>1. 1 \in D /\ remap[1] = 1
        BY <1>5 DEF Relabelled
      <3>2. QED
        BY <2>12, <3>1
    <2>15. ASSUME NEW a \in E, NEW b \in E, more[a] = more[b] PROVE a = b
      <3>1. CASE a \in D /\ b \in D
        <4>1. remap[a] = remap[b]
          BY <2>12, <2>15, <3>1
        <4>2. QED
          BY <1>5, <3>1, <4>1 DEF Relabelled
      <3>2. CASE a \in D /\ b = i
        <4>1. l + 1 \in 1..l
          BY <2>12, <2>15, <3>2
        <4>2. QED
          BY <4>1
      <3>3. CASE a = i /\ b \in D
        <4>1. l + 1 \in 1..l
          BY <2>12, <2>15, <3>3
        <4>2. QED
          BY <4>1
      <3>4. QED
        BY <2>12, <3>1, <3>2, <3>3
    <2>16. ASSUME NEW m \in 1..Len(new) PROVE \E k \in E : more[k] = m
      <3>1. CASE m = l + 1
        BY <2>12, <3>1
      <3>2. CASE m # l + 1
        <4>1. m \in 1..Len(old)
          BY <2>5, <2>9, <3>2
        <4>2. PICK k \in D : remap[k] = m
          BY <1>5, <4>1 DEF Relabelled
        <4>3. QED
          BY <2>12, <4>2
      <3>3. QED
        BY <3>1, <3>2
    <2>17. ASSUME NEW k \in E PROVE Label(new, more[k]) = Label(tree, k)
      <3>1. CASE k = i
        BY <2>9, <2>12, <3>1 DEF Label
      <3>2. CASE k \in D
        <4>1. Label(old, remap[k]) = Label(tree, k)
          BY <1>5, <3>2 DEF Relabelled
        <4>2. new[more[k]] = old[remap[k]]
          BY <2>9, <2>12, <3>2
        <4>3. QED
          BY <4>1, <4>2 DEF Label
      <3>3. QED
        BY <2>12, <3>1, <3>2
    <2>18. ASSUME NEW k \in E \ {1} PROVE tree[k].parent \in E /\ new[more[k]].parent = more[tree[k].parent]
      <3>1. CASE k = i
        <4>1. q \in E /\ more[q] = p
          BY <2>3, <2>6, <2>12
        <4>2. new[more[k]].parent = p
          BY <2>9, <2>12, <3>1
        <4>3. QED
          BY <2>2, <3>1, <4>1, <4>2
      <3>2. CASE k \in D
        <4>1. tree[k].parent \in D /\ old[remap[k]].parent = remap[tree[k].parent]
          BY <1>5, <3>2 DEF Relabelled
        <4>2. new[more[k]] = old[remap[k]] /\ tree[k].parent \in E /\ more[tree[k].parent] = remap[tree[k].parent]
          BY <2>9, <2>12, <3>2, <4>1
        <4>3. QED
          BY <4>1, <4>2
      <3>3. QED
        BY <2>12, <3>1, <3>2
    <2>19. Relabelled(tree, E, new, more)
      BY <2>13, <2>14, <2>15, <2>16, <2>17, <2>18 DEF Relabelled
    <2>20. QED
      BY <1>4, <2>11, <2>19 DEF Kept
  <1>9. QED
    BY <1>7, <1>8

LEMMA PrunedIs ==
  ASSUME NEW tree, IsTree(tree), NEW k \in Nat
  PROVE  /\ IsTree(Pruned(tree, k))
         /\ \E r : Relabelled(tree, Best(tree, k), Pruned(tree, k), r)
  <1>1. PICK n \in Nat \ {0} : n = Len(tree) /\ DOMAIN tree = 1..n
    BY LenProperties DEF IsTree
  <1>2. PICK keep : keep = Best(tree, k)
    OBVIOUS
  <1>3. Chosen(tree, keep) /\ keep \subseteq 1..n /\ 1 \in keep
    BY <1>1, <1>2, BestIs DEF Chosen
  <1>4. PICK S : S = Prunings(n)
    OBVIOUS
  <1>5. PICK one : one = {1}
    OBVIOUS
  <1>6. PICK start : start = [tree |-> Root(tree[1].token), remap |-> [j \in one |-> 1]]
    OBVIOUS
  <1>7. tree[1].token \in DOMAIN Draft /\ tree[1].prob = Certain
    <2>1. 1 \in 1..n
      OBVIOUS
    <2>2. tree[1] \in NodeKinds
      BY <1>1, <2>1, ElementOfSeq DEF IsTree
    <2>3. QED
      BY <2>2 DEF NodeKinds, IsTree
  <1>8. /\ IsTree(start.tree) /\ Len(start.tree) = 1 /\ start.tree[1].token = tree[1].token
        /\ start.tree[1].prob = Certain
        /\ start.remap = [j \in one |-> 1]
    BY <1>6, <1>7, RootIsTree DEF IsTree
  <1>9. start \in S
    <2>1. start.tree \in Trees
      BY <1>8 DEF Trees, IsTree
    <2>2. start.remap \in Remaps(n)
      <3>1. one \in SUBSET (1..n) /\ start.remap \in [one -> Nat]
        BY <1>5, <1>8
      <3>2. QED
        BY <3>1 DEF Remaps
    <2>3. \A j \in DOMAIN start.remap : start.remap[j] \in 1..Len(start.tree)
      BY <1>8
    <2>4. start \in [tree : Trees, remap : Remaps(n)]
      BY <1>6, <2>1, <2>2
    <2>5. QED
      BY <1>4, <2>3, <2>4 DEF Prunings
  <1>10. \A i \in 1..n : \A s \in S : Attached(tree, keep, s, i) \in S
    BY <1>1, <1>4, AttachedIs
  <1> DEFINE Runs(w) == w = [i \in 0..n |-> IF i = 0 THEN start ELSE Attached(tree, keep, w[i - 1], i)]
  <1>11. \E w : Runs(w)
    <2>1. PICK F : F = [i \in 1..n |-> [s \in S |-> Attached(tree, keep, s, i)]]
      OBVIOUS
    <2>2. \A i \in 1..n : \A s \in S : F[i][s] = Attached(tree, keep, s, i) /\ F[i][s] \in S
      BY <1>10, <2>1
    <2>3. PICK w \in [0..n -> S] : Goes(w, n, start, F)
      BY <1>9, <2>2, StatesExist DEF StaysIn
    <2>4. ASSUME NEW i \in 0..n PROVE w[i] = IF i = 0 THEN start ELSE Attached(tree, keep, w[i - 1], i)
      <3>1. w[i] = IF i = 0 THEN start ELSE F[i][w[i - 1]]
        BY <2>3 DEF Goes
      <3>2. ASSUME i # 0 PROVE F[i][w[i - 1]] = Attached(tree, keep, w[i - 1], i)
        <4>1. i \in 1..n /\ i - 1 \in 0..n
          BY <3>2
        <4>2. QED
          BY <2>2, <2>3, <4>1
      <3>3. QED
        BY <3>1, <3>2
    <2>5. w = [i \in 0..n |-> IF i = 0 THEN start ELSE Attached(tree, keep, w[i - 1], i)]
      BY <2>3, <2>4
    <2>6. QED
      BY <2>5
  <1>12. PICK w : w = CHOOSE v : Runs(v)
    OBVIOUS
  <1>13. Runs(w)
    BY <1>11, <1>12
  <1>14. Pruned(tree, k) = w[n].tree
    BY <1>1, <1>2, <1>5, <1>6, <1>12 DEF Pruned, Attached
  <1> DEFINE N == {i \in 0..n : w[i] \in S /\ Kept(tree, keep, w[i], i)}
  <1>15. 0 \in N
    <2>1. w[0] = start
      BY <1>13
    <2>2. SoFarOf(keep, 0) = one
      <3>1. \A j \in keep : j \in 1..n
        BY <1>3
      <3>2. \A j \in keep : (j = 1 \/ j <= 0) <=> j = 1
        BY <3>1
      <3>3. QED
        BY <1>3, <1>5, <3>2 DEF SoFarOf
    <2>3. PICK new, r : new = start.tree /\ r = start.remap
      OBVIOUS
    <2>4. /\ Len(new) = 1 /\ new[1].token = tree[1].token /\ new[1].prob = tree[1].prob
          /\ r = [j \in one |-> 1]
      BY <1>7, <1>8, <2>3
    <2>5. r \in [one -> 1..Len(new)] /\ 1 \in one /\ r[1] = 1 /\ \A j \in one : j = 1
      BY <1>5, <2>4
    <2>6. \A m \in 1..Len(new) : m = 1
      BY <2>4
    <2>7. Label(new, r[1]) = Label(tree, 1)
      BY <2>4, <2>5 DEF Label
    <2>8. Relabelled(tree, one, new, r)
      BY <2>5, <2>6, <2>7 DEF Relabelled
    <2>9. QED
      BY <1>9, <2>1, <2>2, <2>3, <2>8 DEF Kept
  <1>16. ASSUME NEW i \in 1..n, i - 1 \in N PROVE i \in N
    <2>1. i \in 0..n /\ i # 0 /\ w[i - 1] \in S /\ Kept(tree, keep, w[i - 1], i - 1)
      BY <1>16
    <2>2. w[i] = Attached(tree, keep, w[i - 1], i)
      BY <1>13, <2>1
    <2>3. Kept(tree, keep, Attached(tree, keep, w[i - 1], i), i)
      BY <1>1, <1>3, <1>4, <2>1, AttachedKept
    <2>4. QED
      BY <1>10, <2>1, <2>2, <2>3
  <1>17. n \in N
    <2>1. n \in 0..n /\ n \in Nat
      OBVIOUS
    <2> HIDE DEF N
    <2>2. QED
      BY <1>15, <1>16, <2>1, UpToInduction
  <1>18. SoFarOf(keep, n) = keep
    <2>1. \A j \in keep : j \in 1..n
      BY <1>3
    <2>2. \A j \in keep : j <= n
      BY <2>1
    <2>3. QED
      BY <2>2 DEF SoFarOf
  <1>19. QED
    BY <1>2, <1>4, <1>14, <1>17, <1>18 DEF Kept, Prunings, Trees

(* The branches to the nodes that are kept stay what they were             *)
LEMMA BranchesKept ==
  ASSUME NEW tree, IsTree(tree), NEW pruned, IsTree(pruned), NEW keep, NEW r,
         Relabelled(tree, keep, pruned, r)
  PROVE  \A k \in keep : k \in 1..Len(tree) => Branches(pruned)[r[k]] = Branches(tree)[k]
  <1>1. PICK n \in Nat \ {0}, m \in Nat \ {0} : n = Len(tree) /\ m = Len(pruned)
    BY DEF IsTree
  <1>2. PICK b, c : b = Branches(tree) /\ c = Branches(pruned)
    OBVIOUS
  <1>3. b[1] = Append(<<>>, Label(tree, 1)) /\ \A i \in 2..n : b[i] = Append(b[tree[i].parent], Label(tree, i))
    BY <1>1, <1>2, BranchesBegin
  <1>4. c[1] = Append(<<>>, Label(pruned, 1)) /\ \A i \in 2..m : c[i] = Append(c[pruned[i].parent], Label(pruned, i))
    BY <1>1, <1>2, BranchesBegin
  <1>5. /\ \A k \in keep : r[k] \in 1..m
        /\ 1 \in keep /\ r[1] = 1
        /\ \A k, l \in keep : r[k] = r[l] => k = l
        /\ \A k \in keep : Label(pruned, r[k]) = Label(tree, k)
        /\ \A k \in keep \ {1} : tree[k].parent \in keep /\ pruned[r[k]].parent = r[tree[k].parent]
    BY <1>1 DEF Relabelled
  <1> DEFINE S == {i \in 1..n : i \in keep => c[r[i]] = b[i]}
  <1>6. 1 \in S
    <2>1. Label(pruned, 1) = Label(tree, 1) /\ r[1] = 1
      BY <1>5
    <2>2. c[r[1]] = b[1]
      BY ONLY <1>3, <1>4, <2>1
    <2>3. QED
      BY <2>2
  <1>7. ASSUME NEW i \in 2..n, tree[i].parent \in S PROVE i \in S
    <2>1. SUFFICES ASSUME i \in keep PROVE c[r[i]] = b[i]
      OBVIOUS
    <2>2. PICK p : p = tree[i].parent /\ p \in keep /\ c[r[p]] = b[p]
      BY <1>5, <1>7, <2>1
    <2>3. PICK j \in 1..m : j = r[i]
      BY <1>5, <2>1
    <2>4. j # 1
      BY <1>5, <2>1, <2>3
    <2>5. j \in 2..m
      BY <2>4
    <2>6. c[j] = Append(c[pruned[j].parent], Label(pruned, j))
      BY <1>4, <2>5
    <2>7. pruned[j].parent = r[p] /\ Label(pruned, j) = Label(tree, i)
      BY <1>5, <2>1, <2>2, <2>3
    <2>8. QED
      BY <1>3, <2>2, <2>3, <2>6, <2>7
  <1>8. \A i \in 1..n : i \in S
    <2> HIDE DEF S
    <2>1. QED
      BY <1>1, <1>6, <1>7, TreeInduction
  <1>9. QED
    BY <1>1, <1>2, <1>8

(* How often a branch is there after pruning and was before                *)
Lost(before, after, others, branch) ==
  /\ Times(after, branch) \in Nat /\ Times(before, branch) \in Nat
  /\ Times(after, branch) = Times(before, branch) \/ \E j \in others : before[j] = branch

LEMMA TimesKept ==
  ASSUME NEW tree, IsTree(tree), NEW pruned, IsTree(pruned), NEW keep, NEW r,
         Relabelled(tree, keep, pruned, r), keep \subseteq 1..Len(tree), NEW branch
  PROVE  /\ Times(Branches(pruned), branch) <= Times(Branches(tree), branch)
         /\ Lost(Branches(tree), Branches(pruned), (1..Len(tree)) \ keep, branch)
  <1>1. PICK n \in Nat \ {0}, m \in Nat \ {0} : n = Len(tree) /\ m = Len(pruned)
    BY DEF IsTree
  <1>2. PICK b, c : b = Branches(tree) /\ c = Branches(pruned)
    OBVIOUS
  <1>3. DOMAIN b = 1..n /\ DOMAIN c = 1..m
    BY <1>1, <1>2, BranchesAre
  <1>4. \A k \in keep : k \in 1..n /\ c[r[k]] = b[k]
    BY <1>1, <1>2, BranchesKept
  <1>5. PICK A, B, K : /\ A = {i \in 1..m : c[i] = branch} /\ B = {i \in 1..n : b[i] = branch}
                       /\ K = {i \in keep : b[i] = branch}
    OBVIOUS
  <1>6. Times(c, branch) = Cardinality(A) /\ Times(b, branch) = Cardinality(B)
    BY <1>3, <1>5 DEF Times
  <1>7. K \subseteq B
    BY <1>4, <1>5
  <1>8. IsFiniteSet(B)
    <2>1. IsFiniteSet(1..n)
      BY FS_Interval
    <2>2. B \subseteq 1..n
      BY <1>5
    <2>3. QED
      BY <2>1, <2>2, FS_Subset
  <1>9. /\ IsFiniteSet(K) /\ Cardinality(K) <= Cardinality(B)
        /\ Cardinality(K) \in Nat /\ Cardinality(B) \in Nat
    BY <1>7, <1>8, FS_Subset, FS_CardinalityType
  <1>10. Cardinality(A) = Cardinality(K)
    <2>1. PICK f : f = [k \in K |-> r[k]]
      OBVIOUS
    <2>2. \A k \in K : k \in keep /\ f[k] = r[k] /\ r[k] \in A
      <3>1. \A k \in keep : r[k] \in 1..m
        BY <1>1 DEF Relabelled
      <3>2. QED
        BY <1>4, <1>5, <2>1, <3>1
    <2>3. f \in [K -> A]
      BY <2>1, <2>2
    <2>4. \A x, y \in K : f[x] = f[y] => x = y
      BY <2>2 DEF Relabelled
    <2>5. ASSUME NEW i \in A PROVE \E k \in K : f[k] = i
      <3>1. i \in 1..m /\ c[i] = branch
        BY <1>5
      <3>2. PICK k \in keep : r[k] = i
        BY <1>1, <3>1 DEF Relabelled
      <3>3. k \in K
        BY <1>4, <1>5, <3>1, <3>2
      <3>4. QED
        BY <2>2, <3>2, <3>3
    <2>6. f \in Bijection(K, A)
      BY <2>3, <2>4, <2>5, Fun_IsBij
    <2>7. QED
      BY <1>9, <2>6, FS_Bijection DEF ExistsBijection
  <1>11. K = B \/ \E j \in (1..n) \ keep : b[j] = branch
    BY <1>5, <1>7
  <1>12. QED
    BY <1>1, <1>2, <1>6, <1>9, <1>10, <1>11 DEF Lost

LEMMA PrunedSpares ==
  ASSUME NEW tree, IsTree(tree), NEW limit \in Nat
  PROVE  Spared(tree, Pruned(tree, limit), limit)
  <1>1. PICK n \in Nat \ {0} : n = Len(tree) /\ DOMAIN tree = 1..n
    BY LenProperties DEF IsTree
  <1>2. PICK pruned : pruned = Pruned(tree, limit)
    OBVIOUS
  <1>3. PICK keep : keep = Best(tree, limit)
    OBVIOUS
  <1>4. PICK r : IsTree(pruned) /\ Relabelled(tree, keep, pruned, r)
    BY <1>2, <1>3, PrunedIs
  <1>5. PICK l \in Nat \ {0} : l = Len(pruned) /\ DOMAIN pruned = 1..l
    BY <1>4, LenProperties DEF IsTree
  <1>6. keep \subseteq 1..n
    BY <1>1, <1>3, BestIs
  <1>7. l = IF limit = 0 THEN 1 ELSE IF limit < n THEN limit ELSE n
    <2>1. IsFiniteSet(keep)
      <3>1. IsFiniteSet(1..n)
        BY FS_Interval
      <3>2. QED
        BY <1>6, <3>1, FS_Subset
    <2>2. r \in Bijection(keep, 1..l)
      BY <1>4, <1>5, Fun_IsBij DEF Relabelled
    <2>3. Cardinality(1..l) = Cardinality(keep)
      BY <2>1, <2>2, FS_Bijection DEF ExistsBijection
    <2>4. Cardinality(1..l) = l
      BY FS_Interval
    <2>5. QED
      BY <1>1, <1>3, <2>3, <2>4, BestIs
  <1>8. PICK scores, left : scores = CumulativeProbs(tree) /\ left = CumulativeProbs(pruned)
    OBVIOUS
  <1>9. PICK before, after : before = Branches(tree) /\ after = Branches(pruned)
    OBVIOUS
  <1>10. \A branch : Times(after, branch) <= Times(before, branch)
    BY <1>1, <1>4, <1>6, <1>9, TimesKept
  <1>11. PICK lost : lost = {i \in 1..n : Times(after, before[i]) < Times(before, before[i])}
    OBVIOUS
  <1>12. ASSUME NEW m \in 1..l, m > 1, NEW i \in lost PROVE scores[i] <= left[m]
    <2>1. i \in 1..n /\ Times(after, before[i]) < Times(before, before[i])
      BY <1>11
    <2>2. PICK j \in (1..n) \ keep : before[j] = before[i]
      <3>1. PICK branch : branch = before[i]
        OBVIOUS
      <3>2. /\ Times(after, branch) \in Nat /\ Times(before, branch) \in Nat
            /\ Times(after, branch) = Times(before, branch) \/ \E j \in (1..n) \ keep : before[j] = branch
        <4>1. Lost(before, after, (1..n) \ keep, branch)
          BY <1>1, <1>4, <1>6, <1>9, TimesKept
        <4>2. QED
          BY <4>1 DEF Lost
      <3>3. Times(after, branch) < Times(before, branch)
        BY <2>1, <3>1
      <3>4. Times(after, branch) # Times(before, branch)
        BY <3>2, <3>3
      <3>5. QED
        BY <3>1, <3>2, <3>4
    <2>3. scores[j] = scores[i]
      BY <1>1, <1>8, <1>9, <2>1, <2>2, BranchTells
    <2>4. PICK k \in keep : r[k] = m
      BY <1>4, <1>5 DEF Relabelled
    <2>5. k \in 1..n /\ k # 1
      <3>1. r[1] = 1
        BY <1>4 DEF Relabelled
      <3>2. QED
        BY <1>6, <1>12, <2>4, <3>1
    <2>6. after[m] = before[k]
      BY <1>1, <1>4, <1>9, <2>4, <2>5, BranchesKept
    <2>7. left[m] = scores[k]
      BY <1>1, <1>4, <1>5, <1>8, <1>9, <2>5, <2>6, BranchTells
    <2>8. scores[j] <= scores[k]
      BY <1>1, <1>3, <1>8, <2>2, <2>4, <2>5, BestIs
    <2>9. QED
      BY <2>3, <2>7, <2>8
  <1>13. PICK mask, position : mask = AttentionMask(pruned) /\ position = PositionIds(pruned)
    OBVIOUS
  <1>14. \A m \in 1..l : mask[m] = ToSet(PathTo(pruned, m)) /\ position[m] = pruned[m].depth
    BY <1>5, <1>13 DEF AttentionMask, PositionIds
  <1>15. ASSUME NEW m \in 1..l
         PROVE  /\ m \in mask[m] /\ {position[k] : k \in mask[m]} = 0..position[m]
                /\ Cardinality(mask[m]) = position[m] + 1
                /\ \A k \in mask[m] : mask[k] \subseteq mask[m]
    <2>1. Sees(pruned, m, mask[m])
      BY <1>4, <1>5, <1>14, PathsSeen
    <2>2. /\ m \in mask[m] /\ mask[m] \subseteq 1..m /\ Cardinality(mask[m]) = position[m] + 1
          /\ {pruned[k].depth : k \in mask[m]} = 0..position[m]
          /\ \A k \in mask[m] : ToSet(PathTo(pruned, k)) \subseteq mask[m]
      BY <1>14, <2>1 DEF Sees
    <2>3. \A k \in mask[m] : k \in 1..l
      BY <2>2
    <2>4. {position[k] : k \in mask[m]} = {pruned[k].depth : k \in mask[m]}
      BY <1>14, <2>3
    <2>5. QED
      BY <1>14, <2>2, <2>3, <2>4
  <1>16. QED
    BY <1>1, <1>2, <1>5, <1>7, <1>8, <1>9, <1>10, <1>11, <1>12, <1>13, <1>15 DEF Spared

LEMMA TreesPruneWell == ASSUME IsTree(nodes) PROVE PrunesLeastLikely
  <1>1. Len(nodes) \in Nat
    BY DEF IsTree
  <1>2. \A limit \in 0..(Len(nodes) + 1) : limit \in Nat
    BY <1>1
  <1>3. \A limit \in 0..(Len(nodes) + 1) : Spared(nodes, Pruned(nodes, limit), limit)
    BY <1>2, PrunedSpares
  <1>4. QED
    BY <1>3 DEF PrunesLeastLikely

LEMMA TreeStart == ASSUME TreeInit PROVE IsTree(nodes)
  BY RootIsTree, DraftTreeAssumption DEF TreeInit

LEMMA TreeStep == ASSUME IsTree(nodes), [TreeNext]_treeVars PROVE IsTree(nodes')
  <1>1. PICK n \in Nat \ {0} : n = Len(nodes) /\ DOMAIN nodes = 1..n
    BY LenProperties DEF IsTree
  <1>2. ASSUME NEW i \in DOMAIN nodes, NEW d \in ToSet(Draft[nodes[i].token]), Add(i, d) PROVE IsTree(nodes')
    <2>1. nodes[i].token \in DOMAIN Draft
      <3>1. nodes[i] \in NodeKinds
        BY <1>1, ElementOfSeq DEF IsTree
      <3>2. QED
        BY <3>1 DEF NodeKinds
    <2>2. PICK drafts : drafts = Draft[nodes[i].token]
      OBVIOUS
    <2>3. drafts \in Seq([token : DOMAIN Draft, prob : 0..Certain])
      BY <2>1, <2>2, DraftTreeAssumption
    <2>4. PICK j \in DOMAIN drafts : d = drafts[j]
      BY <2>2 DEF ToSet
    <2>5. j \in 1..Len(drafts)
      BY <2>3, LenProperties
    <2>6. d \in [token : DOMAIN Draft, prob : 0..Certain]
      BY <2>3, <2>4, <2>5, ElementOfSeq
    <2>7. d.token \in DOMAIN Draft /\ d.prob \in 0..Certain
      BY <2>6
    <2>8. nodes' = Added(nodes, i, d.token, d.prob)
      BY <1>2 DEF Add
    <2>9. QED
      BY <1>1, <2>7, <2>8, AddedIsTree
  <1>3. ASSUME NEW width \in Widths, NEW levels \in Levels, Expand(width, levels) PROVE IsTree(nodes')
    <2>1. width \in Nat /\ levels \in Nat
      BY DraftTreeAssumption
    <2>2. QED
      BY <1>3, <2>1, ExpandedIsTree DEF Expand
  <1>4. ASSUME NEW maxNodes \in 0..Len(nodes), Prune(maxNodes) PROVE IsTree(nodes')
    <2>1. maxNodes \in Nat
      OBVIOUS
    <2>2. QED
      BY <1>4, <2>1, PrunedIs DEF Prune
  <1>5. CASE UNCHANGED treeVars
    BY <1>5 DEF treeVars
  <1>6. QED
    BY <1>2, <1>3, <1>4, <1>5 DEF TreeNext

(* Pruning a draft tree that was grown in any way keeps as many nodes as   *)
(* it is asked for, the likeliest, orphans none, and what is left can be   *)
(* scored at once: whatever is drafted, to whatever limit.                 *)
THEOREM LikeliestKept == TreeSpec => []PrunesLeastLikely
  <1>1. TreeInit => IsTree(nodes)
    BY TreeStart
  <1>2. IsTree(nodes) /\ [TreeNext]_treeVars => IsTree(nodes)'
    BY TreeStep
  <1>3. IsTree(nodes) => PrunesLeastLikely
    BY TreesPruneWell
  <1>4. QED
    BY <1>1, <1>2, <1>3, PTL DEF TreeSpec
=============================================================================
