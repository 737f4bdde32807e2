------------------------------ MODULE Exchange ------------------------------
(***************************************************************************)
(* The stock exchange (economy/exchange/engine.py and book.py): admission  *)
(* of orders with their reservations, continuous matching, call auctions,  *)
(* settlement, short positions and their collateral, margin calls and      *)
(* forced covers, offerings, delisting and the stay of a bankrupt trader.  *)
(*                                                                         *)
(* ExchangeEngine.resolve is one call per tick; `stage` is the place in it, *)
(* "raised" when an exception has left it and the run has ended.          *)
(* Traders and symbols are numbers that stand for their place in the order *)
(* of ids.  An order id is a hash of its action; here ids grow with        *)
(* admission.  A limit of 0 is a market order.  Only live orders (open or  *)
(* partial) are kept: nothing reads the others.  Deposits are one balance  *)
(* per owner; settlement between banks is in Banking.                      *)
(***************************************************************************)
EXTENDS Ledger

CONSTANTS
  Traders, Symbols,
  Bids, Asks, ShortSales, Interests,  \* the inputs: sets of <<trader, symbol, limit, qty>>
  Offerings,              \* the announcements: <<symbol, shares>>
  Founder, Listed,        \* the founder of every issuer; symbols listed at start
  StartCash,              \* deposits at start, by owner
  Settings,               \* settings.exchange
  Chronicle,              \* clock.profile = "chronicle"
  DayTicks, OpenHour, CloseHour,  \* 24, 9 and 16 in the code
  LastTick, MaxInputs       \* bounds: ticks, and inputs from outside the engine

Broker == 0
Issuer == -2
Underwriter == -3
Owners == Traders \cup {Broker, Issuer, Underwriter, gv_treasury}
Highest == 1000000  \* the price of a market bid, 2^62 in the code

ASSUME ExchangeAssumption ==
  /\ Traders \subseteq Nat \ {0} /\ IsFiniteSet(Traders)
  /\ Symbols \subseteq Nat /\ IsFiniteSet(Symbols) /\ Listed \subseteq Symbols
  /\ Founder \in Traders
  /\ \A i \in Bids \cup Asks \cup ShortSales \cup Interests :
       i[1] \in Traders /\ i[2] \in Symbols /\ i[3] \in 0..Highest /\ i[4] \in Nat \ {0}
  /\ StartCash \in [Owners -> Nat]
  /\ \A o \in Offerings : o[1] \in Symbols /\ o[2] \in Nat
  \* A session ends on the day it began.
  /\ {DayTicks, OpenHour, CloseHour, LastTick, MaxInputs} \subseteq Nat
  /\ OpenHour <= CloseHour /\ CloseHour < DayTicks

ASSUME SettingsAssumption ==
  /\ Settings \in
       [tick_size_cents : Nat \ {0}, band_bp : Nat, commission_bp : 0..10000,
        commission_floor_cents : Nat, max_order_qty_bp : Nat, max_short_bp : Nat,
        initial_margin_bp : Nat, maintenance_margin_bp : Nat, borrow_fee_bp : Nat,
        days_per_sim_year : Nat \ {0}, bootstrap_shares : Nat, bootstrap_price_cents : Nat,
        ipo_low : Nat, ipo_high : Nat, ipo_book_days : Nat, underwriter_discount_bp : Nat,
        underwriting_fee_bp : Nat, listing_fee_cents : Nat]
  \* A fill of one share is never worth less than the commission on it.
  /\ Settings.commission_floor_cents <= Settings.tick_size_cents

VARIABLES
  tick, stage,
  orders,   \* live orders by id
  inputs, ord, \* the inputs so far; the next arrival ordinal of each symbol
  cash, esc, margin, \* deposits, esc#exchange, esc#margin-symbol
  holding, shorts, sec, ipo, stayed,
  incoming,  \* the order _match_continuous was called for, 0: none
  auction,   \* the call auction in progress
  todo       \* forced covers, auctions or marks still to do in this stage

vars == <<tick, stage, orders, inputs, ord, cash, esc, margin, holding, shorts, sec,
          ipo, stayed, incoming, auction, todo>>
bookVars == <<orders, cash, esc, margin, holding>>
clockVars == <<tick, stayed, ipo>>

Max0(n) == IF n > 0 THEN n ELSE 0
Least(a, b) == IF a < b THEN a ELSE b

-----------------------------------------------------------------------------
(* Prices and reservations *)

Hour == tick % DayTicks
SessionOpen == Chronicle \/ (OpenHour <= Hour /\ Hour < CloseHour)
Opening == Chronicle \/ Hour = OpenHour
Closing == Chronicle \/ Hour = CloseHour

Band(s) ==
  LET at(width) == (sec[s].ref * (10000 + width)) \div 10000
      floor(p) == IF p > Settings.tick_size_cents THEN p ELSE Settings.tick_size_cents
  IN  <<floor(at(-Settings.band_bp)), floor(at(Settings.band_bp))>>
InBand(s, price) == Band(s)[1] <= price /\ price <= Band(s)[2]

Commission(notional) ==
  LET part == bp_ceil(notional, Settings.commission_bp)
      floor == Settings.commission_floor_cents
  IN  IF Settings.commission_bp = 0 THEN 0
      ELSE IF part > floor THEN part ELSE floor

\* Mutant: the commission of one fill of the whole order.
ReserveRequiredOnce(qty, price) ==
  IF qty <= 0 THEN 0 ELSE qty * price + Commission(qty * price)

\* The commission is reserved for fills of one share each.
ReserveRequired(qty, price) ==
  IF qty <= 0 THEN 0 ELSE qty * price + qty * Commission(price)

ReservePrice(s, limit) == IF limit = 0 THEN Band(s)[2] ELSE limit

crosses(i, r) ==
  \/ i.lim = 0 \/ r.lim = 0
  \/ i.side = "buy" /\ i.lim >= r.lim
  \/ i.side = "sell" /\ i.lim <= r.lim

\* bid_priority and ask_priority: price, then the ordinal within the tick of arrival,
\* whatever that tick was, then the id.
Before(i, j) ==
  LET price(o) == IF orders[o].side = "sell" THEN orders[o].lim
                  ELSE -(IF orders[o].lim = 0 THEN Highest ELSE orders[o].lim)
  IN  \/ price(i) < price(j)
      \/ price(i) = price(j) /\ orders[i].ord < orders[j].ord
      \/ price(i) = price(j) /\ orders[i].ord = orders[j].ord /\ i < j
Foremost(S) == CHOOSE i \in S : \A j \in S \ {i} : Before(i, j)

Live(s) == {i \in DOMAIN orders : orders[i].sym = s}
OnSide(s, side) == {i \in Live(s) : orders[i].side = side}

-----------------------------------------------------------------------------
(* _cancel of a set of orders *)

Without(S) == [i \in DOMAIN orders \ S |-> orders[i]]

\* The orders of S for which a trader has cents in escrow, those it pledged collateral for,
\* and those of one symbol.
Escrowed(S, t) == {i \in S : orders[i].by = t /\ orders[i].kind # "short"}
Pledged(S, t, s) == {i \in S : orders[i].by = t /\ orders[i].sym = s /\ orders[i].kind = "short"}
Offered(S, t, s) == {i \in S : orders[i].by = t /\ orders[i].sym = s}
Cents(S) == SumOf([i \in S |-> orders[i].cents])
SharesIn(S) == SumOf([i \in S |-> orders[i].shares])
Freed(h, n) == [h EXCEPT !.reserved = @ - n]

CancelAll(S) ==
  IF S = {} THEN UNCHANGED bookVars ELSE
  /\ orders' = Without(S)
  /\ cash' = [o \in Owners |-> cash[o] + Cents({i \in S : orders[i].by = o})]
  /\ esc' = [t \in Traders |-> esc[t] - Cents(Escrowed(S, t))]
  /\ margin' = [t \in Traders |-> [s \in Symbols |-> margin[t][s] - Cents(Pledged(S, t, s))]]
  /\ holding' = [t \in Traders |-> [s \in Symbols |->
       Freed(holding[t][s], SharesIn(Offered(S, t, s)))]]

-----------------------------------------------------------------------------
NoAuction == [sym |-> 0, price |-> 0, left |-> 0, bids |-> {}, asks |-> {}]

Init ==
  /\ tick = 0 /\ stage = "cancels"
  /\ orders = <<>> /\ inputs = 0 /\ ord = [s \in Symbols |-> 0]
  /\ cash = StartCash
  /\ esc = [t \in Traders |-> 0]
  /\ margin = [t \in Traders |-> [s \in Symbols |-> 0]]
  /\ holding = [t \in Traders |-> [s \in Symbols |->
       [qty |-> IF t = Founder /\ s \in Listed THEN Settings.bootstrap_shares ELSE 0,
        reserved |-> 0, locked |-> 0]]]
  /\ shorts = [t \in Traders |-> [s \in Symbols |->
       [status |-> "none", qty |-> 0, entry |-> 0, coll |-> 0, opened |-> 0, deadline |-> -1]]]
  /\ sec = [s \in Symbols |->
       IF s \in Listed
       THEN [status |-> "listed", out |-> Settings.bootstrap_shares,
             last |-> Settings.bootstrap_price_cents, ref |-> Settings.bootstrap_price_cents]
       ELSE [status |-> "none", out |-> 0, last |-> 0, ref |-> 0]]
  /\ ipo = [s \in Symbols |-> [status |-> "none", close |-> 0, offered |-> 0, ind |-> <<>>]]
  /\ stayed = {} /\ incoming = 0 /\ todo = {}
  /\ auction = NoAuction

\* An action of a trader or of another institution.
Input == inputs < MaxInputs /\ inputs' = inputs + 1

-----------------------------------------------------------------------------
(* Cancels and announcements come before the orders of a tick. *)

CancelOrder(i) ==
  /\ stage = "cancels" /\ i \in DOMAIN orders /\ orders[i].tick < tick
  /\ Input /\ CancelAll({i})
  /\ UNCHANGED <<tick, stage, ord, shorts, sec, ipo, stayed, incoming, auction,
                 todo>>

\* The firm can pay the fees at the highest price of the range.  One announcement
\* per symbol (a bound), all shares offered as primary ones.
AnnounceIpo(s, n) ==
  LET low == Settings.ipo_low
      fees == bp_ceil(n * Settings.ipo_high, Settings.underwriting_fee_bp)
              + Settings.listing_fee_cents
  IN  /\ stage = "cancels"
      /\ sec[s].status = "none" /\ ipo[s].status = "none"
      /\ n > 0 /\ cash[Issuer] >= fees /\ Input
      /\ ipo' = [ipo EXCEPT ![s] = [status |-> "announced", offered |-> n, ind |-> <<>>,
                   close |-> tick + Settings.ipo_book_days * DayTicks]]
      /\ UNCHANGED <<bookVars, tick, stage, ord, shorts, sec, stayed, incoming, auction,
                     todo>>

\* _forced_cover_actions: computed once, quantities included, before the orders of the tick.
DueCover(t, s) ==
  /\ shorts[t][s].status = "open" /\ shorts[t][s].qty > 0
  /\ shorts[t][s].deadline >= 0 /\ tick >= shorts[t][s].deadline
  /\ ~ \E i \in Live(s) : orders[i].by = t /\ orders[i].kind = "forced"
DueCovers ==
  {<<p[1], p[2], shorts[p[1]][p[2]].qty>> :
     p \in {q \in Traders \X Symbols : DueCover(q[1], q[2])}}

BeginOrders ==
  /\ stage = "cancels"
  /\ stage' = "orders" /\ todo' = DueCovers
  /\ UNCHANGED <<bookVars, clockVars, inputs, ord, shorts, sec, incoming, auction>>

-----------------------------------------------------------------------------
(* _admit.  Orders arrive by symbol, in the shuffled order of each symbol. *)

Arriving(s) ==
  /\ stage = "orders"
  /\ \A z \in Symbols : z > s => ord[z] = 0
  /\ \A q \in todo : q[2] >= s

MaxQty(s) ==
  LET m == (sec[s].out * Settings.max_order_qty_bp) \div 10000
  IN  IF m > 1 THEN m ELSE 1

Admissible(s, lim, qty) ==
  /\ sec[s].status = "listed" /\ SessionOpen
  /\ qty <= MaxQty(s)
  /\ lim # 0 => InBand(s, lim) /\ lim % Settings.tick_size_cents = 0

NewId == 1 + Max(DOMAIN orders \cup {0})

\* The order is stored and, outside the auctions, matched at once.
Enter(o) ==
  /\ orders' = [i \in DOMAIN orders \cup {NewId} |-> IF i = NewId THEN o ELSE orders[i]]
  /\ ord' = [ord EXCEPT ![o.sym] = @ + 1]
  /\ IF Opening \/ Closing
     THEN stage' = "orders" /\ incoming' = 0
     ELSE stage' = "stp" /\ incoming' = NewId
  /\ UNCHANGED <<tick, shorts, sec, ipo, stayed, auction>>

Order(t, s, side, lim, qty, kind, cents, shares) ==
  [by |-> t, sym |-> s, side |-> side, lim |-> lim, rem |-> qty, kind |-> kind,
   cents |-> cents, shares |-> shares, tick |-> tick, ord |-> ord[s]]

EnterBuy(t, s, lim, qty, kind) ==
  LET cents == ReserveRequired(qty, ReservePrice(s, lim))
  IN  /\ Admissible(s, lim, qty) /\ cash[t] >= cents
      /\ cash' = [cash EXCEPT ![t] = @ - cents]
      /\ esc' = [esc EXCEPT ![t] = @ + cents]
      /\ Enter(Order(t, s, "buy", lim, qty, kind, cents, 0))
      /\ UNCHANGED <<margin, holding>>

SubmitBuy(t, s, lim, qty) ==
  /\ Arriving(s) /\ t \notin stayed /\ Input
  /\ EnterBuy(t, s, lim, qty, "plain")
  /\ UNCHANGED todo

SubmitSell(t, s, lim, qty) ==
  /\ Arriving(s) /\ t \notin stayed /\ Input /\ Admissible(s, lim, qty)
  /\ qty <= holding[t][s].qty - holding[t][s].reserved - holding[t][s].locked
  /\ holding' = [holding EXCEPT ![t][s].reserved = @ + qty]
  /\ Enter(Order(t, s, "sell", lim, qty, "plain", 0, qty))
  /\ UNCHANGED <<cash, esc, margin, todo>>

\* A SHORT brings the collateral it must; shares the trader holds do not matter.
SubmitShort(t, s, lim, qty) ==
  LET coll == bp_ceil(qty * ReservePrice(s, lim), Settings.initial_margin_bp)
      aggregate == SumOf([u \in Traders |-> Max0(-holding[u][s].qty)])
  IN  /\ Arriving(s) /\ t \notin stayed /\ Input /\ Admissible(s, lim, qty)
      /\ aggregate + qty <= (sec[s].out * Settings.max_short_bp) \div 10000
      /\ cash[t] >= coll
      /\ cash' = [cash EXCEPT ![t] = @ - coll]
      /\ margin' = [margin EXCEPT ![t][s] = @ + coll]
      /\ Enter(Order(t, s, "sell", lim, qty, "short", coll, 0))
      /\ UNCHANGED <<esc, holding, todo>>

\* A market buy of what the position was when the tick began, whatever was covered since;
\* the stay does not hold it up.
CoverQty(t, s) == {q[3] : q \in {c \in todo : c[1] = t /\ c[2] = s}}

ForcedCover(t, s) ==
  /\ Arriving(s)
  /\ \E qty \in CoverQty(t, s) :
       todo' = todo \ {<<t, s, qty>>} /\ EnterBuy(t, s, 0, qty, "forced")
  /\ UNCHANGED inputs

\* A refused order has its ordinal too; a refused cover is tried again next tick.
ForcedCoverRefused(t, s) ==
  /\ Arriving(s)
  /\ \E qty \in CoverQty(t, s) :
       /\ ~Admissible(s, 0, qty) \/ cash[t] < ReserveRequired(qty, Band(s)[2])
       /\ todo' = todo \ {<<t, s, qty>>}
  /\ ord' = [ord EXCEPT ![s] = @ + 1]
  /\ UNCHANGED <<bookVars, clockVars, stage, inputs, shorts, sec, incoming, auction>>

Refuse(s) ==
  /\ Arriving(s) /\ Input
  /\ ord' = [ord EXCEPT ![s] = @ + 1]
  /\ UNCHANGED <<bookVars, clockVars, stage, shorts, sec, incoming, auction, todo>>

Joined(ind, t, x) == [u \in DOMAIN ind \cup {t} |-> IF u = t THEN x ELSE ind[u]]

\* _ipo_indication; a second one of an investor raises after its posting.
Indicate(t, s, lim, qty) ==
  /\ Arriving(s) /\ Input
  /\ ipo[s].status = "announced" /\ tick <= ipo[s].close
  /\ Settings.ipo_low <= lim /\ lim <= Settings.ipo_high
  /\ cash[t] >= qty * lim
  /\ ord' = [ord EXCEPT ![s] = @ + 1]
  /\ IF t \in DOMAIN ipo[s].ind
     THEN stage' = "raised" /\ UNCHANGED <<cash, esc, ipo>>
     ELSE /\ cash' = [cash EXCEPT ![t] = @ - qty * lim]
          /\ esc' = [esc EXCEPT ![t] = @ + qty * lim]
          /\ ipo' = [ipo EXCEPT ![s].ind = Joined(@, t, <<qty, lim>>)]
          /\ UNCHANGED stage
  /\ UNCHANGED <<tick, orders, margin, holding, shorts, sec, stayed, incoming,
                 auction, todo>>

-----------------------------------------------------------------------------
(* _settle of a fill *)

\* Mutant: a second fill replaces the collateral of the first.
ShortedReplaces(p, qty, price, coll) ==
  [status |-> "open", qty |-> p.qty + qty, entry |-> price, coll |-> coll, opened |-> tick,
   deadline |-> -1]

\* A short position after _record_short; after _record_cover it is Cover, below.
Shorted(p, qty, price, coll) ==
  IF p.status = "none"
  THEN [status |-> "open", qty |-> qty, entry |-> price, coll |-> coll, opened |-> tick,
        deadline |-> -1]
  ELSE [p EXCEPT !.entry = (p.entry * p.qty + price * qty) \div (p.qty + qty),
                 !.qty = @ + qty, !.coll = @ + coll]

Covered(p, qty) == Least(qty, p.qty)
Released(p, qty) ==
  IF p.qty = 0 THEN 0 ELSE (p.coll * Covered(p, qty)) \div p.qty
Cover(p, qty) ==
  IF p.status = "none" \/ qty = 0 THEN p
  ELSE [p EXCEPT !.qty = @ - Covered(p, qty), !.coll = @ - Released(p, qty),
                 !.status = IF p.qty = Covered(p, qty) THEN "covered" ELSE @]

\* The two orders of a fill after it.
Collateral(sell, qty) == IF sell.kind = "short" THEN (sell.cents * qty) \div sell.rem ELSE 0
FilledBuy(buy, qty) ==
  [buy EXCEPT !.rem = @ - qty,
              !.cents = ReserveRequired(buy.rem - qty, ReservePrice(buy.sym, buy.lim))]
FilledSell(sell, qty) ==
  [sell EXCEPT !.rem = @ - qty, !.cents = @ - Collateral(sell, qty),
               !.shares = IF sell.kind = "short" THEN @ ELSE @ - qty]
Filled(b, a, qty, i) ==
  IF i = b THEN FilledBuy(orders[i], qty)
  ELSE IF i = a THEN FilledSell(orders[i], qty) ELSE orders[i]

\* What the two traders hold after it.
Bought(h, qty) == [h EXCEPT !.qty = @ + qty]
Sold(h, qty, short) ==
  [h EXCEPT !.qty = @ - qty, !.reserved = IF short THEN @ ELSE @ - qty]

Settle(b, a, price, qty) ==
  LET buy == orders[b]   sell == orders[a]   s == buy.sym
      gross == price * qty
      fee == Commission(gross)
      release == Max0(buy.cents - gross - fee - FilledBuy(buy, qty).cents)
      short == sell.kind = "short"
      coll == Collateral(sell, qty)
      old == holding[buy.by][s].qty
      cover == Least(qty, Max0(-old))
      back == Released(shorts[buy.by][s], cover)
  IN  /\ orders' = [i \in {j \in DOMAIN orders : Filled(b, a, qty, j).rem > 0} |->
                      Filled(b, a, qty, i)]
      /\ cash' = [o \in Owners |->
                    cash[o] + (IF o = sell.by THEN gross - fee ELSE 0)
                            + (IF o = buy.by THEN release + back ELSE 0)
                            + (IF o = Broker THEN 2 * fee ELSE 0)]
      /\ esc' = [esc EXCEPT ![buy.by] = @ - gross - fee - release]
      /\ margin' = [margin EXCEPT ![buy.by][s] = @ - back]
      /\ holding' = [holding EXCEPT
           ![buy.by][s] = Bought(@, qty), ![sell.by][s] = Sold(@, qty, short)]
      /\ shorts' = [shorts EXCEPT
           ![sell.by][s] = IF short THEN Shorted(@, qty, price, coll) ELSE @,
           ![buy.by][s] = Cover(@, cover)]
      /\ sec' = [sec EXCEPT ![s].last = price]

-----------------------------------------------------------------------------
(* _match_continuous *)

\* Mutant: nothing is cancelled.
PreventSelfTradeNever ==
  /\ stage = "stp" /\ stage' = "match"
  /\ UNCHANGED <<bookVars, clockVars, inputs, ord, shorts, sec, incoming, auction, todo>>

\* Every other live order of the trader that `crosses` the incoming one is cancelled:
\* neither its symbol nor its side is looked at.
PreventSelfTrade ==
  /\ stage = "stp" /\ stage' = "match"
  /\ CancelAll({i \in DOMAIN orders \ {incoming} :
                  orders[i].by = orders[incoming].by /\ crosses(orders[incoming], orders[i])})
  /\ UNCHANGED <<clockVars, inputs, ord, shorts, sec, incoming, auction, todo>>

FillPrice(r) == IF orders[r].lim # 0 THEN orders[r].lim ELSE orders[incoming].lim

\* continuous_matches: the orders the incoming one may still trade with.
Opposite ==
  IF incoming \notin DOMAIN orders THEN {}
  ELSE LET i == orders[incoming]
       IN  {r \in Live(i.sym) : /\ orders[r].side # i.side /\ crosses(i, orders[r])
                                /\ orders[r].by # i.by /\ FillPrice(r) # 0}

MatchFill ==
  /\ stage = "match" /\ Opposite # {}
  /\ \E r \in {Foremost(Opposite)} :
       \E qty \in {Least(orders[r].rem, orders[incoming].rem)}, price \in {FillPrice(r)} :
         IF orders[incoming].side = "buy"
         THEN Settle(incoming, r, price, qty)
         ELSE Settle(r, incoming, price, qty)
  /\ UNCHANGED <<clockVars, stage, inputs, ord, incoming, auction, todo>>

MatchDone ==
  /\ stage = "match" /\ Opposite = {}
  /\ stage' = "orders" /\ incoming' = 0
  /\ CancelAll({i \in DOMAIN orders : i = incoming /\ orders[i].lim = 0})
  /\ UNCHANGED <<clockVars, inputs, ord, shorts, sec, auction, todo>>

-----------------------------------------------------------------------------
(* _match_call, symbol after symbol *)

EndOrders ==
  /\ stage = "orders" /\ todo = {}
  /\ stage' = "auction"
  /\ todo' = {s \in Symbols : (Opening \/ Closing) /\ sec[s].status # "none"}
  /\ UNCHANGED <<bookVars, clockVars, inputs, ord, shorts, sec, incoming, auction>>

\* The orders of a symbol that would trade at a price.
BidsAt(s, p) == {i \in OnSide(s, "buy") : orders[i].lim = 0 \/ orders[i].lim >= p}
AsksAt(s, p) == {i \in OnSide(s, "sell") : orders[i].lim <= p}
Demand(s, p) == SumOf([i \in BidsAt(s, p) |-> orders[i].rem])
Supply(s, p) == SumOf([i \in AsksAt(s, p) |-> orders[i].rem])

\* uncross: most volume, then least imbalance, then nearest to the reference, then lowest.
Candidates(s) ==
  LET Gap(n) == IF n < 0 THEN -n ELSE n
      Row(p, demand, supply) ==
        [vol |-> Least(demand, supply), gap |-> Gap(demand - supply),
         far |-> Gap(p - sec[s].ref), price |-> p]
  IN  {Row(p, Demand(s, p), Supply(s, p)) : p \in {orders[i].lim : i \in Live(s)} \ {0}}

Better(x, y) ==
  \/ x.vol > y.vol
  \/ x.vol = y.vol /\ x.gap < y.gap
  \/ x.vol = y.vol /\ x.gap = y.gap /\ x.far < y.far
  \/ x.vol = y.vol /\ x.gap = y.gap /\ x.far = y.far /\ x.price < y.price

\* The best candidate, if it trades anything.
Uncrossed(s) ==
  LET rows == Candidates(s)
  IN  {x \in rows : x.vol > 0 /\ \A y \in rows \ {x} : Better(x, y)}

\* call_auction: the orders on both sides of the price.
StartAuction ==
  /\ stage = "auction" /\ todo # {}
  /\ \E s \in {Min(todo)} :
       /\ todo' = todo \ {s}
       /\ IF sec[s].status = "listed"
          THEN /\ stage' = "fill"
               /\ IF Uncrossed(s) = {} THEN auction' = [NoAuction EXCEPT !.sym = s]
                  ELSE \E x \in Uncrossed(s) :
                    auction' = [sym |-> s, price |-> x.price, left |-> x.vol,
                                bids |-> BidsAt(s, x.price), asks |-> AsksAt(s, x.price)]
          ELSE UNCHANGED <<stage, auction>>
  /\ UNCHANGED <<bookVars, clockVars, inputs, ord, shorts, sec, incoming>>

AuctionOver == auction.bids = {} \/ auction.asks = {} \/ auction.left = 0
TopBid == Foremost(auction.bids)
TopAsk == Foremost(auction.asks)

\* A trader's own orders do not trade: the one that arrived later is passed over.
AuctionSkip ==
  /\ stage = "fill" /\ ~AuctionOver
  /\ \E b \in {TopBid}, a \in {TopAsk} :
       /\ orders[b].by = orders[a].by
       /\ auction' = IF orders[b].ord < orders[a].ord
                     THEN [auction EXCEPT !.asks = @ \ {a}]
                     ELSE [auction EXCEPT !.bids = @ \ {b}]
  /\ UNCHANGED <<bookVars, clockVars, stage, inputs, ord, shorts, sec, incoming, todo>>

AuctionFill ==
  /\ stage = "fill" /\ ~AuctionOver
  /\ \E b \in {TopBid}, a \in {TopAsk} :
       \E qty \in {Least(auction.left, Least(orders[b].rem, orders[a].rem))} :
         /\ orders[b].by # orders[a].by
         /\ Settle(b, a, auction.price, qty)
         /\ auction' = [auction EXCEPT !.left = @ - qty,
              !.bids = IF orders[b].rem = qty THEN @ \ {b} ELSE @,
              !.asks = IF orders[a].rem = qty THEN @ \ {a} ELSE @]
  /\ UNCHANGED <<clockVars, stage, inputs, ord, incoming, todo>>

\* _cancel_self_crosses
SelfCrosses ==
  {p \in OnSide(auction.sym, "buy") \X OnSide(auction.sym, "sell") :
     orders[p[1]].by = orders[p[2]].by /\ crosses(orders[p[1]], orders[p[2]])}

FirstSelfCross ==
  CHOOSE p \in SelfCrosses : \A q \in SelfCrosses \ {p} :
    \/ orders[p[1]].by < orders[q[1]].by
    \/ orders[p[1]].by = orders[q[1]].by /\ p[1] < q[1]
    \/ orders[p[1]].by = orders[q[1]].by /\ p[1] = q[1] /\ p[2] < q[2]

Newer(i, j) ==
  \/ orders[i].tick > orders[j].tick
  \/ orders[i].tick = orders[j].tick /\ orders[i].ord > orders[j].ord

CancelSelfCross ==
  /\ stage = "fill" /\ AuctionOver /\ SelfCrosses # {}
  /\ \E p \in {FirstSelfCross} : CancelAll({IF Newer(p[1], p[2]) THEN p[1] ELSE p[2]})
  /\ UNCHANGED <<clockVars, stage, inputs, ord, shorts, sec, incoming, auction, todo>>

CancelMarketOrders ==
  /\ stage = "fill" /\ AuctionOver /\ SelfCrosses = {}
  /\ stage' = "auction" /\ auction' = NoAuction
  /\ CancelAll({i \in Live(auction.sym) : orders[i].lim = 0})
  /\ UNCHANGED <<clockVars, inputs, ord, shorts, sec, incoming, todo>>

-----------------------------------------------------------------------------
(* _close_ipos *)

DueIpos == {s \in Symbols : ipo[s].status = "announced" /\ tick >= ipo[s].close}

\* The highest price at which the indications take all shares, else the lowest of the range.
Clearing(s) ==
  LET ind == ipo[s].ind
      takes(p) == SumOf([t \in {u \in DOMAIN ind : ind[u][2] >= p} |-> ind[t][1]])
      full == {p \in {ind[t][2] : t \in DOMAIN ind} : takes(p) >= ipo[s].offered}
  IN  IF full = {} THEN Settings.ipo_low ELSE Max(full)
Offer(s) ==
  LET p == (Clearing(s) * (10000 - Settings.underwriter_discount_bp)) \div 10000
      tickSize == Settings.tick_size_cents
  IN  IF p < tickSize THEN tickSize ELSE p - (p % tickSize)

\* The shares of each investor: those whose limit reaches the offer, pro rata.
IpoShares(s) ==
  LET ind == ipo[s].ind
      eligible == {t \in DOMAIN ind : ind[t][2] >= Offer(s)}
      wanted == [a \in {<<"investor", t>> : t \in eligible} |-> ind[a[2]][1]]
      shares == Allocate(Least(ipo[s].offered, SumOf(wanted)), wanted)
  IN  [t \in eligible |-> shares[<<"investor", t>>]]

FailIpo(s) ==
  /\ stage = "auction" /\ todo = {} /\ s \in DueIpos /\ ipo[s].ind = <<>>
  /\ ipo' = [ipo EXCEPT ![s].status = "failed"]
  /\ UNCHANGED <<bookVars, tick, stage, inputs, ord, shorts, sec, stayed, incoming, auction,
                 todo>>

IpoTotal(s) ==
  IF Settings.bootstrap_shares > ipo[s].offered THEN Settings.bootstrap_shares
  ELSE ipo[s].offered

\* list_security with the allocations: the founder holds the shares that were not sold.
ListSecurity(s, got, offer) ==
  LET Shares(t) == IF t \in DOMAIN got THEN got[t] ELSE 0
      rest == IpoTotal(s) - SumOf(got)
  IN  /\ holding' = [t \in Traders |-> [holding[t] EXCEPT ![s] =
           [qty |-> Shares(t) + IF t = Founder THEN rest ELSE 0, reserved |-> 0,
            locked |-> IF t = Founder THEN Shares(t) + rest ELSE 0]]]
      /\ sec' = [sec EXCEPT ![s] = [status |-> "listed", out |-> IpoTotal(s),
                                    last |-> offer, ref |-> offer]]

\* The postings of an offering.  The funds were checked at the announcement; a firm that
\* has spent them since makes the first one raise.
Allot(s, offer, got, sold, fee, listing) ==
  LET ind == ipo[s].ind
      Shares(t) == IF t \in DOMAIN got THEN got[t] ELSE 0
      Reserved(t) == IF t \in DOMAIN ind THEN ind[t][1] * ind[t][2] ELSE 0
  IN  IF cash[Issuer] + sold * offer < fee + listing
      THEN stage' = "raised" /\ UNCHANGED <<cash, esc, holding, sec, ipo>>
      ELSE /\ cash' = [o \in Owners |-> cash[o]
                + (IF o \in Traders THEN Reserved(o) - Shares(o) * offer ELSE 0)
                + (IF o = Issuer THEN sold * offer - fee - listing ELSE 0)
                + (IF o = Underwriter THEN fee ELSE 0)
                + (IF o = gv_treasury THEN listing ELSE 0)]
           /\ esc' = [t \in Traders |-> esc[t] - Reserved(t)]
           /\ ListSecurity(s, got, offer)
           /\ ipo' = [ipo EXCEPT ![s].status = "completed"]
           /\ UNCHANGED stage

CompleteIpo(s) ==
  /\ stage = "auction" /\ todo = {} /\ s \in DueIpos /\ ipo[s].ind # <<>>
  /\ \E offer \in {Offer(s)}, got \in {IpoShares(s)} :
     \E sold \in {SumOf(got)} :
     \E fee \in {bp_ceil(sold * offer, Settings.underwriting_fee_bp)} :
     \E listing \in {Least(Settings.listing_fee_cents, Max0(sold * offer - fee))} :
       Allot(s, offer, got, sold, fee, listing)
  /\ UNCHANGED <<tick, orders, inputs, ord, margin, shorts, stayed, incoming,
                 auction, todo>>

-----------------------------------------------------------------------------
(* _mark_shorts, _close_session, and what happens between two calls *)

CloseIpos ==
  /\ stage = "auction" /\ todo = {} /\ DueIpos = {}
  /\ stage' = "mark"
  /\ todo' = {p \in Traders \X Symbols : /\ shorts[p[1]][p[2]].status = "open"
                                         /\ shorts[p[1]][p[2]].qty > 0}
  /\ UNCHANGED <<bookVars, clockVars, inputs, ord, shorts, sec, incoming, auction>>

UnderMargin(p, mark) ==
  p.coll - Max0((mark - p.entry) * p.qty) < bp_ceil(mark * p.qty, Settings.maintenance_margin_bp)

Longs(s) == {u \in Traders : holding[u][s].qty > 0}
BorrowFee(p, mark) ==
  bp_ceil(mark * p.qty, Settings.borrow_fee_bp) \div Settings.days_per_sim_year
FeeParts(fee, s) ==
  Allocate(fee, [a \in {<<"long", u>> : u \in Longs(s)} |-> holding[a[2]][s].qty])

\* A margin call, which is never withdrawn, and the borrow fee of the day.
MarkShort(t, s) ==
  /\ stage = "mark" /\ <<t, s>> \in todo
  /\ \A q \in todo : t < q[1] \/ (t = q[1] /\ s <= q[2])
  /\ todo' = todo \ {<<t, s>>}
  /\ shorts' = [shorts EXCEPT ![t][s].deadline =
                  IF UnderMargin(shorts[t][s], sec[s].last) /\ @ = -1 THEN tick + DayTicks ELSE @]
  /\ \E fee \in {BorrowFee(shorts[t][s], sec[s].last)} :
       IF /\ tick > shorts[t][s].opened /\ tick % DayTicks = 0
          /\ fee > 0 /\ Longs(s) # {} /\ cash[t] >= fee
       THEN \E parts \in {FeeParts(fee, s)} :
              cash' = [o \in Owners |-> cash[o] - (IF o = t THEN fee ELSE 0)
                         + (IF o \in Longs(s) THEN parts[<<"long", o>>] ELSE 0)]
       ELSE UNCHANGED cash
  /\ UNCHANGED <<orders, esc, margin, holding, clockVars, stage, inputs, ord, sec, incoming,
                 auction>>

CloseSession ==
  /\ stage = "mark" /\ todo = {}
  /\ stage' = "between"
  /\ CancelAll(IF Closing THEN DOMAIN orders ELSE {})
  /\ UNCHANGED <<clockVars, inputs, ord, shorts, sec, incoming, auction, todo>>

\* A bound: a run in which nothing more can happen is not followed further.
Quiet ==
  /\ inputs = MaxInputs /\ orders = <<>>
  /\ \A s \in Symbols : ipo[s].status # "announced"
  /\ \A t \in Traders, s \in Symbols : shorts[t][s].qty = 0

NextTick ==
  /\ stage = "between" /\ tick < LastTick /\ ~Quiet
  /\ tick' = tick + 1 /\ stage' = "cancels" /\ ord' = [s \in Symbols |-> 0]
  /\ sec' = IF Chronicle \/ tick' % DayTicks = OpenHour
            THEN [s \in Symbols |-> [sec[s] EXCEPT !.ref = sec[s].last]]
            ELSE sec
  /\ UNCHANGED <<bookVars, stayed, ipo, inputs, shorts, incoming, auction, todo>>

\* delist, by a bankruptcy or an acquisition of the issuer.
Delist(s) ==
  /\ stage = "between" /\ sec[s].status = "listed"
  /\ Input /\ CancelAll(Live(s))
  /\ sec' = [sec EXCEPT ![s].status = "delisted"]
  /\ UNCHANGED <<clockVars, stage, ord, shorts, incoming, auction, todo>>

\* cancel_entity, when a bankruptcy of the trader opens; from then on _under_stay.
Stay(t) ==
  /\ stage = "between" /\ t \notin stayed /\ Input
  /\ CancelAll({i \in DOMAIN orders : orders[i].by = t})
  /\ stayed' = stayed \cup {t}
  /\ UNCHANGED <<tick, ipo, stage, ord, shorts, sec, incoming, auction, todo>>

\* The other markets: the issuer spends what it has.
IssuerSpends ==
  /\ stage = "between" /\ cash[Issuer] > 0 /\ Input
  /\ cash' = [cash EXCEPT ![Issuer] = 0, ![gv_treasury] = @ + cash[Issuer]]
  /\ UNCHANGED <<orders, esc, margin, holding, clockVars, stage, ord, shorts, sec, incoming,
                 auction, todo>>

Ended ==
  /\ stage = "raised" \/ (stage = "between" /\ (tick = LastTick \/ Quiet))
  /\ UNCHANGED vars

Next ==
  \/ \E i \in DOMAIN orders : CancelOrder(i)
  \/ \E i \in Offerings : AnnounceIpo(i[1], i[2])
  \/ BeginOrders
  \/ \E i \in Bids : SubmitBuy(i[1], i[2], i[3], i[4])
  \/ \E i \in Asks : SubmitSell(i[1], i[2], i[3], i[4])
  \/ \E i \in ShortSales : SubmitShort(i[1], i[2], i[3], i[4])
  \/ \E i \in Interests : Indicate(i[1], i[2], i[3], i[4])
  \/ \E t \in Traders, s \in Symbols : ForcedCover(t, s) \/ ForcedCoverRefused(t, s)
  \/ \E s \in Symbols : Refuse(s)
  \/ PreventSelfTrade \/ MatchFill \/ MatchDone
  \/ EndOrders \/ StartAuction \/ AuctionSkip \/ AuctionFill
  \/ CancelSelfCross \/ CancelMarketOrders
  \/ \E s \in Symbols : FailIpo(s) \/ CompleteIpo(s)
  \/ CloseIpos
  \/ \E t \in Traders, s \in Symbols : MarkShort(t, s)
  \/ CloseSession \/ NextTick
  \/ \E s \in Symbols : Delist(s)
  \/ \E t \in Traders : Stay(t)
  \/ IssuerSpends \/ Ended

Spec == Init /\ [][Next]_vars

-----------------------------------------------------------------------------
(* Properties *)

\* Everything has its type; balances are never negative (P3).
TypeOK ==
  /\ tick \in 0..LastTick
  /\ stage \in {"cancels", "orders", "stp", "match", "auction", "fill", "mark", "between",
                "raised"}
  /\ DOMAIN orders \subseteq Nat /\ inputs \in 0..MaxInputs
  /\ \A i \in DOMAIN orders :
       /\ orders[i].by \in Traders /\ orders[i].sym \in Symbols
       /\ orders[i].lim \in 0..Highest /\ orders[i].rem > 0
       /\ orders[i].cents >= 0 /\ orders[i].shares >= 0
  /\ cash \in [Owners -> Nat] /\ esc \in [Traders -> Nat]
  /\ margin \in [Traders -> [Symbols -> Nat]]
  /\ \A t \in Traders, s \in Symbols :
       /\ holding[t][s].qty \in Int /\ holding[t][s].reserved >= 0 /\ holding[t][s].locked >= 0
       /\ shorts[t][s].status \in {"none", "open", "covered"}
       /\ shorts[t][s].qty >= 0 /\ shorts[t][s].coll >= 0

\* The offerings a trader has indicated interest in.
Indicated(t) == {s \in Symbols : ipo[s].status = "announced" /\ t \in DOMAIN ipo[s].ind}

\* INV-ORDERS: after any sequence of fills, cancels, covers, margin calls and offerings,
\* each trader's escrow is what the live orders and indications reserve, and each margin
\* account what the short orders and positions hold as collateral.  A position counts
\* whatever its status (the code's own check counts open ones only, see the README).
EscrowBacked ==
  \A t \in Traders :
    /\ esc[t] = Cents(Escrowed(DOMAIN orders, t))
                + SumOf([s \in Indicated(t) |-> ipo[s].ind[t][1] * ipo[s].ind[t][2]])
    /\ \A s \in Symbols :
         margin[t][s] = Cents(Pledged(DOMAIN orders, t, s)) + shorts[t][s].coll

\* INV-SHARES and the shares half of INV-ORDERS: settlement neither makes nor destroys
\* shares, and what a holder has reserved is what its sell orders still offer.
SharesAccounted ==
  \A s \in Symbols :
    /\ SumOf([t \in Traders |-> holding[t][s].qty]) = sec[s].out
    /\ \A t \in Traders :
         holding[t][s].reserved =
           SumOf([i \in {k \in OnSide(s, "sell") : orders[k].by = t /\ orders[k].kind # "short"}
                    |-> orders[i].rem])

\* P12: whatever was filled, at whatever prices, a live buy order holds exactly what
\* buying its remainder share by share at its limit costs with commissions, so every
\* later fill can be paid and a cancel gives back the exact rest.
ReservesExact ==
  \A i \in DOMAIN orders : orders[i].side = "buy" =>
    LET p == ReservePrice(orders[i].sym, orders[i].lim)
    IN  orders[i].cents = orders[i].rem * (p + Commission(p))

\* P6: no trade lies outside the band around the session's reference.  The band is checked
\* on the order; it holds for the print because the reference never moves under a live order
\* (which is also why _trigger_breaker and _resume_halts are never reached).
LiveInBand ==
  \A i \in DOMAIN orders : orders[i].lim # 0 => InBand(orders[i].sym, orders[i].lim)

\* P9: in continuous trading no order meets another of the same trader in the book.
NoSelfCross ==
  stage = "orders" /\ ~Opening => \A s \in Symbols :
    \A b \in OnSide(s, "buy"), a \in OnSide(s, "sell") :
      orders[b].by = orders[a].by => ~crosses(orders[b], orders[a])

\* The accounts are exact: no balance is negative, shares are where the register says, and a
\* buy order has reserved exactly what its remainder may cost.
AccountsExact ==
  /\ TypeOK
  /\ SharesAccounted
  /\ ReservesExact

\* The book is orderly: live orders lie in the band, and in continuous trading nobody meets
\* an order of its own.
BookOrderly == LiveInBand /\ NoSelfCross
=============================================================================
