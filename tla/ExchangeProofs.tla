--------------------------- MODULE ExchangeProofs ---------------------------
(***************************************************************************)
(* The book is orderly and the accounts are exact, for all traders,        *)
(* symbols, inputs, settings and hours of trading.                         *)
(*                                                                         *)
(* The band of a symbol moves with its reference, which is set when a      *)
(* session opens and when the symbol is listed: there are no orders then,  *)
(* because the close cancels all of them and nothing is admitted until the *)
(* next opening (SessionHolds), and because a symbol on offer is not       *)
(* listed yet (SecuritiesHold).  Orders of one trader may meet only        *)
(* between the opening and the auction of their symbol, and for the moment *)
(* between the admission of an order and its self-trade check (SelfHolds). *)
(* That is IInv.                                                           *)
(*                                                                         *)
(* The accounts rest on it: a buy order has reserved what its remainder    *)
(* costs at the highest price it may be filled at (ReservesExact), and     *)
(* that stays enough only while the band does not move under it.  AInv     *)
(* says what each account is kept for: escrow and margin for the claims    *)
(* of live orders, for indications and positions (Backed), reserved shares *)
(* for sell orders (HoldingsSound), all shares for the holders             *)
(* (SharesHeld).  Claims are sums over the book, so the module begins with *)
(* what happens to a sum when a term is added, dropped or changed.         *)
(***************************************************************************)
EXTENDS Exchange, FiniteSetTheorems, TLAPS

OrderFields ==
  {"by", "sym", "side", "lim", "rem", "kind", "cents", "shares", "tick", "ord"}

\* A symbol on offer is not listed.
SecuritiesHold ==
  /\ DOMAIN sec = Symbols /\ DOMAIN ipo = Symbols
  /\ \A s \in Symbols :
       /\ DOMAIN sec[s] = {"status", "out", "last", "ref"}
       /\ DOMAIN ipo[s] = {"status", "close", "offered", "ind"}
       /\ ipo[s].status = "announced" => sec[s].status = "none"

OrderHolds(i) ==
  /\ DOMAIN orders[i] = OrderFields
  /\ orders[i].sym \in Symbols /\ orders[i].side \in {"buy", "sell"}
  /\ orders[i].lim \in Nat
  /\ sec[orders[i].sym].status = "listed"
  /\ orders[i].lim # 0 => InBand(orders[i].sym, orders[i].lim)

\* Live orders are of listed symbols and lie in their bands.
OrdersHold == \A i \in DOMAIN orders : OrderHolds(i)

\* There are orders only from the opening to the close of a session.
SessionHolds ==
  /\ tick \in Nat
  /\ DOMAIN orders # {} =>
       /\ Chronicle \/ (OpenHour <= Hour /\ Hour <= CloseHour)
       /\ stage = "between" => ~Closing
       /\ stage = "cancels" => ~Opening

Meets(b, a) ==
  /\ orders[b].sym = orders[a].sym
  /\ orders[b].side = "buy" /\ orders[a].side = "sell"
  /\ orders[b].by = orders[a].by /\ crosses(orders[b], orders[a])

\* The opening auction of the symbol is still to come; or the run has ended.
Unopened(s) ==
  \/ stage = "raised"
  \/ Opening /\ \/ stage = "orders"
                \/ stage \in {"auction", "fill"} /\ s \in todo
                \/ stage = "fill" /\ s = auction.sym

Unchecked(b, a) == stage = "stp" /\ (incoming = b \/ incoming = a)

\* Orders of one trader meet only before the opening auction or the self-trade check.
SelfHolds ==
  /\ DOMAIN auction = {"sym", "price", "left", "bids", "asks"}
  /\ stage \in {"stp", "match"} => ~Opening
  /\ \A b, a \in DOMAIN orders : Meets(b, a) => Unopened(orders[b].sym) \/ Unchecked(b, a)

IInv ==
  /\ SecuritiesHold
  /\ OrdersHold
  /\ SessionHolds
  /\ SelfHolds

-----------------------------------------------------------------------------
(* What a cancel, a fill and an admission do to the book *)

\* Some orders are gone, and the others are still what they were asked to be.
Thinned ==
  /\ DOMAIN orders' \subseteq DOMAIN orders
  /\ \A i \in DOMAIN orders' :
       /\ DOMAIN orders'[i] = OrderFields
       /\ orders'[i].by = orders[i].by /\ orders'[i].sym = orders[i].sym
       /\ orders'[i].side = orders[i].side /\ orders'[i].lim = orders[i].lim

\* No symbol changes its status or its reference.
SecKept ==
  /\ DOMAIN sec' = Symbols
  /\ \A s \in Symbols :
       /\ DOMAIN sec'[s] = {"status", "out", "last", "ref"}
       /\ sec'[s].status = sec[s].status /\ sec'[s].ref = sec[s].ref

\* Orders that stay are thinned.
LEMMA SameThins ==
  ASSUME OrdersHold, orders' = orders
  PROVE  Thinned
BY DEF OrdersHold, OrderHolds, Thinned

\* Securities that stay are kept.
LEMMA SameKept ==
  ASSUME SecuritiesHold, sec' = sec
  PROVE  SecKept
BY DEF SecuritiesHold, SecKept

\* _cancel takes orders off the book and changes no other.
LEMMA CancelThins ==
  ASSUME OrdersHold, NEW S, CancelAll(S)
  PROVE  Thinned /\ DOMAIN orders' = DOMAIN orders \ S
<1>1. CASE S = {}
  <2>1. orders' = orders
    BY <1>1 DEF CancelAll, bookVars
  <2> QED
    BY <1>1, <2>1, SameThins
<1>2. CASE S # {}
  <2>1. orders' = [i \in DOMAIN orders \ S |-> orders[i]]
    BY <1>2 DEF CancelAll, Without
  <2> QED
    BY <2>1 DEF OrdersHold, OrderHolds, Thinned
<1> QED
  BY <1>1, <1>2

\* _settle leaves the terms of orders alone, and of a security all but its last price.
LEMMA SettleThins ==
  ASSUME OrdersHold, SecuritiesHold, NEW b, NEW a, NEW price, NEW qty, Settle(b, a, price, qty)
  PROVE  Thinned /\ SecKept
<1>1. /\ orders' = [i \in {j \in DOMAIN orders : Filled(b, a, qty, j).rem > 0} |->
                      Filled(b, a, qty, i)]
      /\ sec' = [sec EXCEPT ![orders[b].sym].last = price]
  BY DEF Settle
<1>2. ASSUME NEW i \in DOMAIN orders
      PROVE  LET o == Filled(b, a, qty, i)
             IN  /\ DOMAIN o = OrderFields
                 /\ o.by = orders[i].by /\ o.sym = orders[i].sym
                 /\ o.side = orders[i].side /\ o.lim = orders[i].lim
  <2>1. DOMAIN orders[i] = OrderFields
    BY DEF OrdersHold, OrderHolds
  <2>2. CASE i = b
    <3>1. Filled(b, a, qty, i) = FilledBuy(orders[i], qty)
      BY <2>2 DEF Filled
    <3> QED
      BY <2>1, <3>1 DEF OrderFields, FilledBuy
  <2>3. CASE i # b /\ i = a
    <3>1. Filled(b, a, qty, i) = FilledSell(orders[i], qty)
      BY <2>3 DEF Filled
    <3> QED
      BY <2>1, <3>1 DEF OrderFields, FilledSell
  <2>4. CASE i # b /\ i # a
    BY <2>1, <2>4 DEF Filled
  <2> QED
    BY <2>2, <2>3, <2>4
<1>3. Thinned
  BY <1>1, <1>2 DEF Thinned
<1>5. SecKept
  BY <1>1 DEF SecuritiesHold, SecKept
<1> QED
  BY <1>3, <1>5

\* An order has been admitted.
Entered(o) ==
  /\ \E n : /\ DOMAIN orders' = DOMAIN orders \cup {n}
            /\ \A i \in DOMAIN orders' : orders'[i] = IF i = n THEN o ELSE orders[i]
            /\ \/ (Opening \/ Closing) /\ stage' = "orders"
               \/ ~Opening /\ stage' = "stp" /\ incoming' = n

\* One order comes into the book.
LEMMA EnterEnters ==
  ASSUME NEW o, Enter(o)
  PROVE  Entered(o) /\ UNCHANGED <<tick, sec, ipo, auction>>
<1>1. PICK n : n = NewId
  OBVIOUS
<1>2. orders' = [i \in DOMAIN orders \cup {n} |-> IF i = n THEN o ELSE orders[i]]
  BY <1>1 DEF Enter
<1>3. \/ (Opening \/ Closing) /\ stage' = "orders"
      \/ ~Opening /\ stage' = "stp" /\ incoming' = n
  BY <1>1 DEF Enter
<1> QED
  BY <1>2, <1>3 DEF Enter, Entered

-----------------------------------------------------------------------------
(* The parts of the invariant under the steps that only thin the book *)

\* The band moves only with the reference.
LEMMA BandSame ==
  ASSUME NEW s, NEW p, InBand(s, p), sec'[s].ref = sec[s].ref
  PROVE  InBand(s, p)'
BY DEF InBand, Band

\* Fewer orders, of the same securities.
LEMMA ThinnedHolds ==
  ASSUME OrdersHold, Thinned,
         \A i \in DOMAIN orders' : /\ sec'[orders[i].sym].status = sec[orders[i].sym].status
                                   /\ sec'[orders[i].sym].ref = sec[orders[i].sym].ref
  PROVE  OrdersHold'
<1> SUFFICES ASSUME NEW i \in DOMAIN orders' PROVE OrderHolds(i)'
  BY DEF OrdersHold
<1>1. OrderHolds(i) /\ DOMAIN orders'[i] = OrderFields
      /\ orders'[i].sym = orders[i].sym /\ orders'[i].side = orders[i].side
      /\ orders'[i].lim = orders[i].lim
  BY DEF OrdersHold, Thinned
<1>2. PICK s, p : s = orders[i].sym /\ p = orders[i].lim
  OBVIOUS
<1>3. p # 0 => InBand(s, p)'
  BY <1>1, <1>2, BandSame DEF OrderHolds
<1> QED
  BY <1>1, <1>2, <1>3 DEF OrderHolds

\* ... as most steps have it.
LEMMA KeptHolds ==
  ASSUME SecuritiesHold, OrdersHold, Thinned, SecKept, ipo' = ipo
  PROVE  OrdersHold' /\ SecuritiesHold'
<1>1. OrdersHold'
  <2>1. \A i \in DOMAIN orders' : orders[i].sym \in Symbols
    BY DEF Thinned, OrdersHold, OrderHolds
  <2> QED
    BY <2>1, ThinnedHolds DEF SecKept
<1>2. SecuritiesHold'
  BY DEF SecuritiesHold, SecKept
<1> QED
  BY <1>1, <1>2

\* Orders that meet after a step that thins the book met before.
LEMMA MetBefore ==
  ASSUME Thinned, NEW b \in DOMAIN orders', NEW a \in DOMAIN orders', Meets(b, a)'
  PROVE  Meets(b, a) /\ orders'[b].sym = orders[b].sym
BY DEF Thinned, Meets, crosses

\* The book is thinned at a place of the tick where orders of one trader may meet no less
\* than before.
LEMMA ThinnedSelf ==
  ASSUME SelfHolds, Thinned, DOMAIN auction' = DOMAIN auction,
         stage' \in {"stp", "match"} => ~Opening',
         \A b \in DOMAIN orders : \A a \in DOMAIN orders :
           Meets(b, a) /\ (Unopened(orders[b].sym) \/ Unchecked(b, a))
             /\ b \in DOMAIN orders' /\ a \in DOMAIN orders'
             => \A s : s = orders[b].sym => Unopened(s)' \/ Unchecked(b, a)'
  PROVE  SelfHolds'
<1> SUFFICES ASSUME NEW b \in DOMAIN orders', NEW a \in DOMAIN orders', Meets(b, a)'
             PROVE  Unopened(orders[b].sym)' \/ Unchecked(b, a)'
  BY DEF SelfHolds
<1>1. Meets(b, a) /\ orders'[b].sym = orders[b].sym
  BY MetBefore
<1>2. b \in DOMAIN orders /\ a \in DOMAIN orders
  BY DEF Thinned
<1>3. PICK s : s = orders[b].sym
  OBVIOUS
<1>4. Unopened(s)' \/ Unchecked(b, a)'
  BY <1>1, <1>2, <1>3 DEF SelfHolds
<1> QED
  BY <1>1, <1>3, <1>4 DEF Unopened

\* A step that stays at its place in the tick.
LEMMA SameSelf ==
  ASSUME SelfHolds, Thinned, UNCHANGED <<tick, stage, incoming>>,
         DOMAIN auction' = DOMAIN auction, auction'.sym = auction.sym,
         stage \in {"orders", "mark"} \/ todo' = todo
  PROVE  SelfHolds'
<1>1. Opening' = Opening
  BY DEF Opening, Hour
<1>2. ASSUME NEW s, Unopened(s) PROVE Unopened(s)'
  BY <1>1, <1>2 DEF Unopened
<1>3. ASSUME NEW b, NEW a, Unchecked(b, a) PROVE Unchecked(b, a)'
  BY <1>3 DEF Unchecked
<1> QED
  BY <1>1, <1>2, <1>3, ThinnedSelf DEF SelfHolds

\* A session goes on, or is over with its orders.
LEMMA SameSession ==
  ASSUME SessionHolds, DOMAIN orders' \subseteq DOMAIN orders, tick' = tick,
         \/ stage' \notin {"between", "cancels"}
         \/ stage' = stage
         \/ stage' = "between" /\ (Closing => DOMAIN orders' = {})
  PROVE  SessionHolds'
BY DEF SessionHolds, Hour, Opening, Closing

-----------------------------------------------------------------------------
(* The steps *)

\* The invariant of the book holds at the start.
LEMMA InitHolds == Init => IInv
<1> SUFFICES ASSUME Init PROVE IInv
  OBVIOUS
<1>1. DOMAIN orders = {} /\ tick = 0 /\ stage = "cancels" /\ auction = NoAuction
  BY DEF Init
<1>2. SecuritiesHold
  BY DEF Init, SecuritiesHold
<1>3. OrdersHold /\ SessionHolds /\ SelfHolds
  BY <1>1 DEF OrdersHold, SessionHolds, SelfHolds, NoAuction
<1> QED
  BY <1>2, <1>3 DEF IInv

\* The steps that stay where they are and thin the book or leave it.
Stays ==
  /\ Thinned /\ SecKept
  /\ UNCHANGED <<tick, stage, ipo, incoming>>
  /\ DOMAIN auction' = DOMAIN auction /\ auction'.sym = auction.sym
  /\ stage \in {"orders", "mark"} \/ todo' = todo

\* A step within a stage.
LEMMA StaysHolds ==
  ASSUME IInv, Stays
  PROVE  IInv'
<1>1. OrdersHold' /\ SecuritiesHold'
  BY KeptHolds DEF IInv, Stays
<1>2. SelfHolds'
  BY SameSelf DEF IInv, Stays
<1>3. SessionHolds'
  BY SameSession DEF IInv, Stays, Thinned
<1> QED
  BY <1>1, <1>2, <1>3 DEF IInv

\* The steps within a stage.
LEMMA StayingSteps ==
  ASSUME IInv,
         \/ \E i \in DOMAIN orders : CancelOrder(i)
         \/ \E t \in Traders, s \in Symbols : ForcedCoverRefused(t, s) \/ MarkShort(t, s)
         \/ \E s \in Symbols : Refuse(s)
         \/ \E t \in Traders : Stay(t)
         \/ MatchFill \/ AuctionSkip \/ AuctionFill \/ CancelSelfCross \/ IssuerSpends \/ Ended
  PROVE  Stays
<1> USE DEF IInv
<1>0. /\ orders' = orders => Thinned
      /\ sec' = sec => SecKept
      /\ \A S : CancelAll(S) => Thinned
      /\ DOMAIN auction = {"sym", "price", "left", "bids", "asks"}
  BY SameThins, SameKept, CancelThins DEF SelfHolds
<1>1. CASE \E i \in DOMAIN orders : CancelOrder(i)
  BY <1>0, <1>1 DEF CancelOrder, Stays
<1>2. CASE \E t \in Traders, s \in Symbols : ForcedCoverRefused(t, s)
  BY <1>0, <1>2 DEF ForcedCoverRefused, Arriving, Stays, bookVars, clockVars
<1>3. CASE \E s \in Symbols : Refuse(s)
  BY <1>0, <1>3 DEF Refuse, Arriving, Stays, bookVars, clockVars
<1>4. CASE \E t \in Traders : Stay(t)
  BY <1>0, <1>4 DEF Stay, Stays
<1>5. CASE MatchFill
  <2>1. PICK b, a, price, qty : Settle(b, a, price, qty)
    BY <1>5 DEF MatchFill
  <2>2. Thinned /\ SecKept
    BY <2>1, SettleThins
  <2> QED
    BY <1>5, <2>2 DEF MatchFill, Stays, clockVars
<1>6. CASE AuctionSkip
  <2>1. \E u, v : auction' = [auction EXCEPT !.asks = u] \/ auction' = [auction EXCEPT !.bids = v]
    BY <1>6 DEF AuctionSkip
  <2>2. DOMAIN auction' = DOMAIN auction /\ auction'.sym = auction.sym
    BY <1>0, <2>1
  <2> QED
    BY <1>0, <1>6, <2>2 DEF AuctionSkip, Stays, bookVars, clockVars
<1>7. CASE AuctionFill
  <2>a. PICK b \in {TopBid}, a \in {TopAsk} :
          \E qty \in {Least(auction.left, Least(orders[b].rem, orders[a].rem))} :
            /\ orders[b].by # orders[a].by
            /\ Settle(b, a, auction.price, qty)
            /\ auction' = [auction EXCEPT !.left = @ - qty,
                 !.bids = IF orders[b].rem = qty THEN @ \ {b} ELSE @,
                 !.asks = IF orders[a].rem = qty THEN @ \ {a} ELSE @]
    BY <1>7, Zenon DEF AuctionFill
  <2>1. PICK qty :
          /\ Settle(b, a, auction.price, qty)
          /\ auction' = [auction EXCEPT !.left = @ - qty,
               !.bids = IF orders[b].rem = qty THEN @ \ {b} ELSE @,
               !.asks = IF orders[a].rem = qty THEN @ \ {a} ELSE @]
    BY <2>a, Zenon
  <2>2. Thinned /\ SecKept
    BY <2>1, SettleThins
  <2>3. DOMAIN auction' = DOMAIN auction /\ auction'.sym = auction.sym
    BY <1>0, <2>1
  <2> QED
    BY <1>7, <2>2, <2>3 DEF AuctionFill, Stays, clockVars
<1>8. CASE CancelSelfCross
  <2>1. PICK S : CancelAll(S)
    BY <1>8 DEF CancelSelfCross
  <2> QED
    BY <1>0, <1>8, <2>1 DEF CancelSelfCross, Stays, clockVars
<1>9. CASE IssuerSpends \/ Ended
  BY <1>0, <1>9 DEF IssuerSpends, Ended, vars, Stays, clockVars
<1>10. CASE \E t \in Traders, s \in Symbols : MarkShort(t, s)
  BY <1>0, <1>10 DEF MarkShort, Stays, clockVars
<1> QED
  BY <1>1, <1>2, <1>3, <1>4, <1>5, <1>6, <1>7, <1>8, <1>9, <1>10

\* An order is admitted in the band.
LEMMA AdmissionHolds ==
  ASSUME IInv, NEW t, NEW s \in Symbols, NEW side \in {"buy", "sell"}, NEW lim \in Nat, NEW qty,
         NEW kind, NEW cents, NEW shares, stage = "orders", Admissible(s, lim, qty),
         Enter(Order(t, s, side, lim, qty, kind, cents, shares))
  PROVE  IInv'
<1>1. PICK o : o = Order(t, s, side, lim, qty, kind, cents, shares)
  OBVIOUS
<1>2. Entered(o) /\ UNCHANGED <<tick, sec, ipo, auction>>
  BY <1>1, EnterEnters
<1>3. PICK n : /\ DOMAIN orders' = DOMAIN orders \cup {n}
               /\ \A i \in DOMAIN orders' : orders'[i] = IF i = n THEN o ELSE orders[i]
               /\ \/ (Opening \/ Closing) /\ stage' = "orders"
                  \/ ~Opening /\ stage' = "stp" /\ incoming' = n
  BY <1>2 DEF Entered
<1>4. /\ DOMAIN o = OrderFields /\ o.sym = s /\ o.side = side /\ o.lim = lim
  BY <1>1 DEF Order, OrderFields
<1>5. /\ sec[s].status = "listed" /\ SessionOpen
      /\ lim # 0 => InBand(s, lim)
  BY DEF Admissible
<1>6. SecuritiesHold'
  BY <1>2 DEF IInv, SecuritiesHold
<1>7. OrdersHold'
  <2> SUFFICES ASSUME NEW i \in DOMAIN orders' PROVE OrderHolds(i)'
    BY DEF OrdersHold
  <2>1. \A z, p : InBand(z, p) => InBand(z, p)'
    BY <1>2, BandSame
  <2>2. CASE i = n
    <3>1. orders'[i] = o
      BY <1>3, <2>2
    <3> QED
      BY <1>2, <1>4, <1>5, <2>1, <3>1 DEF OrderHolds
  <2>3. CASE i # n
    <3>1. orders'[i] = orders[i] /\ OrderHolds(i)
      BY <1>3, <2>3 DEF IInv, OrdersHold
    <3>2. PICK z, p : z = orders[i].sym /\ p = orders[i].lim
      OBVIOUS
    <3>3. p # 0 => InBand(z, p)'
      BY <2>1, <3>1, <3>2 DEF OrderHolds
    <3> QED
      BY <1>2, <3>1, <3>2, <3>3 DEF OrderHolds
  <2> QED
    BY <2>2, <2>3
<1>8. Hour \in Int /\ Hour' = Hour /\ Opening' = Opening /\ {OpenHour, CloseHour} \subseteq Int
  BY <1>2, ExchangeAssumption DEF IInv, SessionHolds, Hour, Opening
<1>9. SessionHolds'
  BY <1>2, <1>3, <1>5, <1>8 DEF IInv, SessionHolds, SessionOpen
<1>10. stage' = "orders" => Opening
  BY <1>3, <1>5, <1>8 DEF SessionOpen, Opening, Closing
<1>11. SelfHolds'
  <2>1. stage' \in {"stp", "match"} => ~Opening'
    BY <1>3, <1>8
  <2> SUFFICES ASSUME NEW b \in DOMAIN orders', NEW a \in DOMAIN orders', Meets(b, a)'
               PROVE  Unopened(orders[b].sym)' \/ Unchecked(b, a)'
    BY <1>2, <2>1 DEF IInv, SelfHolds
  <2>2. CASE stage' = "orders"
    BY <1>8, <1>10, <2>2 DEF Unopened
  <2>3. CASE stage' = "stp" /\ (b = n \/ a = n)
    BY <1>3, <2>3 DEF Unchecked
  <2>4. CASE stage' = "stp" /\ b # n /\ a # n
    <3>1. orders'[b] = orders[b] /\ orders'[a] = orders[a] /\ b \in DOMAIN orders /\ a \in DOMAIN orders
      BY <1>3, <2>4
    <3>2. Meets(b, a)
      BY <3>1 DEF Meets, crosses
    <3>3. ~Opening
      BY <1>3, <2>4
    <3> QED
      BY <3>1, <3>2, <3>3 DEF IInv, SelfHolds, Unopened, Unchecked
  <2> QED
    BY <1>3, <2>2, <2>3, <2>4
<1> QED
  BY <1>6, <1>7, <1>9, <1>11 DEF IInv

\* The four ways into the book.
LEMMA AdmittedHolds ==
  ASSUME IInv,
         \/ \E i \in Bids : SubmitBuy(i[1], i[2], i[3], i[4])
         \/ \E i \in Asks : SubmitSell(i[1], i[2], i[3], i[4])
         \/ \E i \in ShortSales : SubmitShort(i[1], i[2], i[3], i[4])
         \/ \E t \in Traders, s \in Symbols : ForcedCover(t, s)
  PROVE  IInv'
<1>0. \A i \in Bids \cup Asks \cup ShortSales : i[2] \in Symbols /\ i[3] \in Nat
  <2>1. \A i \in Bids \cup Asks \cup ShortSales : i[2] \in Symbols /\ i[3] \in 0..Highest
    BY ExchangeAssumption
  <2>a. Highest \in Nat
    BY SMT DEF Highest
  <2>2. 0..Highest \subseteq Nat
    BY <2>a
  <2> QED
    BY <2>1, <2>2
<1>1. CASE \E i \in Bids : SubmitBuy(i[1], i[2], i[3], i[4])
  <2>1. PICK i \in Bids : SubmitBuy(i[1], i[2], i[3], i[4])
    BY <1>1
  <2>2. stage = "orders" /\ EnterBuy(i[1], i[2], i[3], i[4], "plain")
    BY <2>1 DEF SubmitBuy, Arriving
  <2> QED
    BY <1>0, <2>2, AdmissionHolds DEF EnterBuy
<1>2. CASE \E i \in Asks : SubmitSell(i[1], i[2], i[3], i[4])
  <2>1. PICK i \in Asks : SubmitSell(i[1], i[2], i[3], i[4])
    BY <1>2
  <2>2. /\ stage = "orders" /\ Admissible(i[2], i[3], i[4])
        /\ Enter(Order(i[1], i[2], "sell", i[3], i[4], "plain", 0, i[4]))
    BY <2>1 DEF SubmitSell, Arriving
  <2> QED
    BY <1>0, <2>2, AdmissionHolds
<1>3. CASE \E i \in ShortSales : SubmitShort(i[1], i[2], i[3], i[4])
  <2>1. PICK i \in ShortSales : SubmitShort(i[1], i[2], i[3], i[4])
    BY <1>3
  <2>2. /\ stage = "orders" /\ Admissible(i[2], i[3], i[4])
        /\ \E coll : Enter(Order(i[1], i[2], "sell", i[3], i[4], "short", coll, 0))
    BY <2>1 DEF SubmitShort, Arriving
  <2> QED
    BY <1>0, <2>2, AdmissionHolds
<1>4. CASE \E t \in Traders, s \in Symbols : ForcedCover(t, s)
  <2>1. PICK t \in Traders, s \in Symbols : ForcedCover(t, s)
    BY <1>4
  <2>2. PICK qty : EnterBuy(t, s, 0, qty, "forced")
    BY <2>1 DEF ForcedCover
  <2>3. stage = "orders"
    BY <2>1 DEF ForcedCover, Arriving
  <2> QED
    BY <2>2, <2>3, AdmissionHolds DEF EnterBuy
<1> QED
  BY <1>1, <1>2, <1>3, <1>4

\* The steps that go on to another place of the tick.
LEMMA MovesHold ==
  ASSUME IInv, Thinned, SecKept, ipo' = ipo, tick' = tick, DOMAIN auction' = DOMAIN auction,
         stage' \in {"orders", "match", "auction", "fill", "mark", "between", "raised"},
         stage' = "match" => ~Opening,
         stage' = "between" /\ Closing => DOMAIN orders' = {},
         \A b \in DOMAIN orders : \A a \in DOMAIN orders :
           Meets(b, a) /\ (Unopened(orders[b].sym) \/ Unchecked(b, a))
             /\ b \in DOMAIN orders' /\ a \in DOMAIN orders'
             => \A s : s = orders[b].sym => Unopened(s)'
  PROVE  IInv'
<1>1. OrdersHold' /\ SecuritiesHold'
  BY KeptHolds DEF IInv
<1>2. SessionHolds'
  BY SameSession DEF IInv, Thinned
<1>3. Opening' = Opening
  BY DEF Opening, Hour
<1>4. SelfHolds'
  BY <1>3, ThinnedSelf DEF IInv
<1> QED
  BY <1>1, <1>2, <1>4 DEF IInv

\* The steps from stage to stage.
LEMMA MovingSteps ==
  ASSUME IInv,
         \/ BeginOrders \/ PreventSelfTrade \/ MatchDone \/ EndOrders \/ StartAuction
         \/ CancelMarketOrders \/ CloseIpos \/ CloseSession
  PROVE  IInv'
<1>0. /\ orders' = orders => Thinned
      /\ sec' = sec => SecKept
      /\ \A S : CancelAll(S) => Thinned /\ DOMAIN orders' = DOMAIN orders \ S
      /\ DOMAIN auction = {"sym", "price", "left", "bids", "asks"}
      /\ stage \in {"stp", "match"} => ~Opening
  BY SameThins, SameKept, CancelThins DEF IInv, SelfHolds
<1>1. CASE BeginOrders
  BY <1>0, <1>1, MovesHold DEF BeginOrders, bookVars, clockVars, Unopened, Unchecked
<1>2. CASE PreventSelfTrade
  <2>1. \A b \in DOMAIN orders : \A a \in DOMAIN orders :
          Meets(b, a) /\ (Unopened(orders[b].sym) \/ Unchecked(b, a))
            => ~(b \in DOMAIN orders' /\ a \in DOMAIN orders')
    <3> SUFFICES ASSUME NEW b \in DOMAIN orders, NEW a \in DOMAIN orders, Meets(b, a),
                        Unopened(orders[b].sym) \/ Unchecked(b, a)
                 PROVE  b \notin DOMAIN orders' \/ a \notin DOMAIN orders'
      OBVIOUS
    <3>1. incoming = b \/ incoming = a
      BY <1>0, <1>2 DEF PreventSelfTrade, Unopened, Unchecked
    <3>2. PICK S : /\ S = {i \in DOMAIN orders \ {incoming} : orders[i].by = orders[incoming].by
                                                     /\ crosses(orders[incoming], orders[i])}
                   /\ CancelAll(S)
      BY <1>2 DEF PreventSelfTrade
    <3>3. DOMAIN orders' = DOMAIN orders \ S
      BY <1>0, <3>2
    <3>4. a # b /\ orders[a].by = orders[b].by
      BY DEF Meets
    <3>5. crosses(orders[b], orders[a]) /\ crosses(orders[a], orders[b])
      <4>1. orders[b].lim \in Nat /\ orders[a].lim \in Nat
        BY DEF IInv, OrdersHold, OrderHolds
      <4> QED
        BY <4>1 DEF Meets, crosses
    <3> QED
      BY <3>1, <3>2, <3>3, <3>4, <3>5
  <2>2. Thinned
    BY <1>0, <1>2 DEF PreventSelfTrade
  <2> QED
    BY <1>0, <1>2, <2>1, <2>2, MovesHold DEF PreventSelfTrade, clockVars
<1>3. CASE MatchDone
  <2>1. Thinned
    BY <1>0, <1>3 DEF MatchDone
  <2> QED
    BY <1>0, <1>3, <2>1, MovesHold DEF MatchDone, clockVars, Unopened, Unchecked
<1>4. CASE EndOrders
  <2>1. \A b \in DOMAIN orders : Unopened(orders[b].sym) => Opening /\ orders[b].sym \in todo'
    <3>1. \A b \in DOMAIN orders : orders[b].sym \in Symbols /\ sec[orders[b].sym].status = "listed"
      BY DEF IInv, OrdersHold, OrderHolds
    <3> QED
      BY <1>4, <3>1 DEF EndOrders, Unopened
  <2>2. Opening' = Opening
    BY <1>4 DEF EndOrders, clockVars, Opening, Hour
  <2> QED
    BY <1>0, <1>4, <2>1, <2>2, MovesHold DEF EndOrders, bookVars, clockVars, Unopened, Unchecked
<1>5. CASE StartAuction
  <2>1. PICK s : /\ todo' = todo \ {s}
                 /\ \/ /\ sec[s].status = "listed" /\ stage' = "fill"
                       /\ DOMAIN auction' = DOMAIN auction /\ auction'.sym = s
                    \/ sec[s].status # "listed" /\ UNCHANGED <<stage, auction>>
    <3>1. PICK s : /\ todo' = todo \ {s}
                   /\ IF sec[s].status = "listed"
                      THEN /\ stage' = "fill"
                           /\ \/ auction' = [NoAuction EXCEPT !.sym = s]
                              \/ \E p, l, b, a : auction' = [sym |-> s, price |-> p, left |-> l,
                                                             bids |-> b, asks |-> a]
                      ELSE UNCHANGED <<stage, auction>>
      BY <1>5 DEF StartAuction
    <3> QED
      BY <1>0, <3>1 DEF NoAuction
  <2>2. Opening' = Opening /\ stage = "auction"
    BY <1>5 DEF StartAuction, clockVars, Opening, Hour
  <2>3. \A b \in DOMAIN orders : sec[orders[b].sym].status = "listed"
    BY DEF IInv, OrdersHold, OrderHolds
  <2>4. \A b \in DOMAIN orders : \A a \in DOMAIN orders :
           Meets(b, a) /\ (Unopened(orders[b].sym) \/ Unchecked(b, a))
             => \A z : z = orders[b].sym => Unopened(z)'
    BY <2>1, <2>2, <2>3 DEF Unopened, Unchecked
  <2> QED
    BY <1>0, <1>5, <2>1, <2>2, <2>4, MovesHold DEF StartAuction, bookVars, clockVars
<1>6. CASE CancelMarketOrders
  <2>1. \A b \in DOMAIN orders : \A a \in DOMAIN orders : Meets(b, a) => orders[b].sym # auction.sym
    <3> SUFFICES ASSUME NEW b \in DOMAIN orders, NEW a \in DOMAIN orders, Meets(b, a),
                        orders[b].sym = auction.sym
                 PROVE  <<b, a>> \in SelfCrosses
      BY <1>6 DEF CancelMarketOrders
    <3> QED
      BY DEF SelfCrosses, OnSide, Live, Meets
  <2>2. Opening' = Opening
    BY <1>6 DEF CancelMarketOrders, clockVars, Opening, Hour
  <2>3. Thinned /\ DOMAIN auction' = DOMAIN auction
    BY <1>0, <1>6 DEF CancelMarketOrders, NoAuction
  <2> QED
    BY <1>0, <1>6, <2>1, <2>2, <2>3, MovesHold DEF CancelMarketOrders, clockVars, Unopened, Unchecked
<1>7. CASE CloseIpos
  BY <1>0, <1>7, MovesHold DEF CloseIpos, bookVars, clockVars, Unopened, Unchecked
<1>8. CASE CloseSession
  <2>1. Thinned /\ (Closing => DOMAIN orders' = {})
    BY <1>0, <1>8 DEF CloseSession
  <2> QED
    BY <1>0, <1>8, <2>1, MovesHold DEF CloseSession, clockVars, Unopened, Unchecked
<1> QED
  BY <1>1, <1>2, <1>3, <1>4, <1>5, <1>6, <1>7, <1>8

-----------------------------------------------------------------------------
(* Offerings, the next tick and delisting *)

\* Offerings do not touch the book.
LEMMA OfferHolds ==
  ASSUME IInv,
         \/ \E i \in Offerings : AnnounceIpo(i[1], i[2])
         \/ \E i \in Interests : Indicate(i[1], i[2], i[3], i[4])
         \/ \E s \in Symbols : FailIpo(s)
  PROVE  IInv'
<1>0. /\ orders' = orders => Thinned
      /\ sec' = sec => SecKept
  BY SameThins, SameKept DEF IInv
<1>1. /\ orders' = orders /\ sec' = sec /\ tick' = tick /\ auction' = auction /\ todo' = todo
      /\ incoming' = incoming /\ stage' \in {stage, "raised"} /\ stage \in {"cancels", "orders", "auction"}
  BY DEF AnnounceIpo, Indicate, FailIpo, Arriving, bookVars
<1>2. SecuritiesHold'
  <2>1. CASE \E i \in Offerings : AnnounceIpo(i[1], i[2])
    <3>0. PICK i \in Offerings : AnnounceIpo(i[1], i[2])
      BY <2>1
    <3>1. /\ sec[i[1]].status = "none"
          /\ ipo' = [ipo EXCEPT ![i[1]] = [status |-> "announced", offered |-> i[2], ind |-> <<>>,
                       close |-> tick + Settings.ipo_book_days * DayTicks]]
      BY <3>0 DEF AnnounceIpo
    <3> QED
      BY <1>1, <3>1 DEF IInv, SecuritiesHold
  <2>2. CASE \E i \in Interests : Indicate(i[1], i[2], i[3], i[4])
    <3>1. ipo' = ipo \/ \E z, v : ipo' = [ipo EXCEPT ![z].ind = v]
      BY <2>2 DEF Indicate
    <3> QED
      BY <1>1, <3>1 DEF IInv, SecuritiesHold
  <2>3. CASE \E s \in Symbols : FailIpo(s)
    <3>1. \E z : ipo' = [ipo EXCEPT ![z].status = "failed"]
      BY <2>3 DEF FailIpo
    <3> QED
      BY <1>1, <3>1 DEF IInv, SecuritiesHold
  <2> QED
    BY <2>1, <2>2, <2>3
<1>3. OrdersHold'
  BY <1>0, <1>1, ThinnedHolds DEF IInv
<1>4. SessionHolds'
  BY <1>1, SameSession DEF IInv
<1>5. SelfHolds'
  <2>1. CASE stage' = stage
    BY <1>0, <1>1, <2>1, SameSelf DEF IInv
  <2>2. CASE stage' = "raised"
    BY <1>1, <2>2 DEF IInv, SelfHolds, Unopened
  <2> QED
    BY <1>1, <2>1, <2>2
<1> QED
  BY <1>2, <1>3, <1>4, <1>5 DEF IInv

\* A symbol is listed before it has orders.
LEMMA ListingHolds ==
  ASSUME IInv, NEW s \in Symbols, CompleteIpo(s)
  PROVE  IInv'
<1>1. /\ orders' = orders /\ tick' = tick /\ auction' = auction /\ todo' = todo
      /\ incoming' = incoming /\ stage = "auction" /\ s \in DueIpos
  BY DEF CompleteIpo
<1>2. \/ stage' = "raised" /\ sec' = sec /\ ipo' = ipo
      \/ /\ stage' = stage /\ ipo' = [ipo EXCEPT ![s].status = "completed"]
         /\ \E out, offer : sec' = [sec EXCEPT ![s] = [status |-> "listed", out |-> out,
                                                       last |-> offer, ref |-> offer]]
  <2>1. \/ stage' = "raised" /\ sec' = sec /\ ipo' = ipo
        \/ /\ stage' = stage /\ ipo' = [ipo EXCEPT ![s].status = "completed"]
           /\ \E got, offer : ListSecurity(s, got, offer)
    <3>1. PICK offer, got, sold, fee, listing : Allot(s, offer, got, sold, fee, listing)
      BY DEF CompleteIpo
    <3> QED
      BY <3>1 DEF Allot
  <2>2. ASSUME NEW got, NEW offer, ListSecurity(s, got, offer)
        PROVE  sec' = [sec EXCEPT ![s] = [status |-> "listed", out |-> IpoTotal(s),
                                          last |-> offer, ref |-> offer]]
    BY <2>2 DEF ListSecurity
  <2> QED
    BY <2>1, <2>2
<1>3. sec[s].status = "none"
  BY <1>1 DEF IInv, SecuritiesHold, DueIpos
<1>4. /\ SecuritiesHold'
      /\ \A z \in Symbols : z # s => sec'[z] = sec[z]
  BY <1>2 DEF IInv, SecuritiesHold
<1>5. Thinned
  BY <1>1, SameThins DEF IInv
<1>6. OrdersHold'
  <2>1. \A i \in DOMAIN orders : orders[i].sym \in Symbols /\ orders[i].sym # s
    BY <1>3 DEF IInv, OrdersHold, OrderHolds
  <2> QED
    BY <1>1, <1>4, <1>5, <2>1, ThinnedHolds DEF IInv
<1>7. SessionHolds'
  BY <1>1, <1>2, SameSession DEF IInv
<1>8. SelfHolds'
  <2>1. CASE stage' = stage
    BY <1>1, <1>5, <2>1, SameSelf DEF IInv
  <2>2. CASE stage' = "raised"
    BY <1>1, <2>2 DEF IInv, SelfHolds, Unopened
  <2> QED
    BY <1>2, <2>1, <2>2
<1> QED
  BY <1>4, <1>6, <1>7, <1>8 DEF IInv

\* A symbol leaves with its orders.
LEMMA DelistHolds ==
  ASSUME IInv, NEW s \in Symbols, Delist(s)
  PROVE  IInv'
<1>1. /\ sec' = [sec EXCEPT ![s].status = "delisted"] /\ sec[s].status = "listed"
      /\ UNCHANGED <<tick, ipo, stage, incoming, auction, todo>>
  BY DEF Delist, clockVars
<1>2. Thinned /\ DOMAIN orders' = DOMAIN orders \ Live(s)
  BY CancelThins DEF Delist, IInv
<1>3. \A i \in DOMAIN orders' : orders[i].sym \in Symbols /\ orders[i].sym # s
  BY <1>2 DEF IInv, OrdersHold, OrderHolds, Live
<1>4. /\ SecuritiesHold'
      /\ \A z \in Symbols : z # s => sec'[z] = sec[z]
  BY <1>1 DEF IInv, SecuritiesHold
<1>5. OrdersHold'
  BY <1>2, <1>3, <1>4, ThinnedHolds DEF IInv
<1>6. SessionHolds'
  BY <1>1, <1>2, SameSession DEF IInv, Thinned
<1>7. SelfHolds'
  BY <1>1, <1>2, SameSelf DEF IInv
<1> QED
  BY <1>4, <1>5, <1>6, <1>7 DEF IInv

\* The hour after an hour of the session that is not its last is a later hour of the session.
LEMMA NextHour ==
  ASSUME NEW t \in Nat, OpenHour <= t % DayTicks, t % DayTicks < CloseHour
  PROVE  OpenHour < (t + 1) % DayTicks /\ (t + 1) % DayTicks <= CloseHour
<1>1. /\ DayTicks \in Nat /\ OpenHour \in Nat /\ CloseHour \in Nat
      /\ OpenHour <= CloseHour /\ CloseHour < DayTicks
  BY ExchangeAssumption
<1>2. PICK d \in Nat : d = DayTicks /\ d > 0
  BY <1>1
<1>3. PICK q \in Int, r \in Int : /\ q = t \div d /\ r = t % d
                                  /\ t = d * q + r /\ 0 <= r /\ r < d
  BY <1>2
<1>4. PICK p \in Int, z \in Int : /\ p = (t + 1) \div d /\ z = (t + 1) % d
                                  /\ t + 1 = d * p + z /\ 0 <= z /\ z < d
  BY <1>2
<1>5. r + 1 < d
  BY <1>1, <1>2, <1>3
<1>6. PICK k \in Int : k = p - q
  OBVIOUS
<1>7. d * k = d * p - d * q
  BY <1>6
<1>8. d * k = r + 1 - z
  BY <1>3, <1>4, <1>7
<1>9. k = 0
  <2>1. CASE k >= 1
    <3>1. d * k >= d
      BY <2>1
    <3> QED
      BY <1>3, <1>4, <1>5, <1>8, <3>1
  <2>2. CASE k <= -1
    <3>1. d * k <= -d
      BY <2>2
    <3> QED
      BY <1>3, <1>4, <1>5, <1>8, <3>1
  <2> QED
    BY <2>1, <2>2
<1>10. z = r + 1
  BY <1>8, <1>9
<1> QED
  BY <1>1, <1>2, <1>3, <1>4, <1>10

\* The reference does not move under a live order, and the session goes on.
LEMMA ReferenceStays ==
  ASSUME IInv, NextTick, DOMAIN orders # {}
  PROVE  /\ sec' = sec /\ ~Chronicle
         /\ OpenHour < (tick + 1) % DayTicks /\ (tick + 1) % DayTicks <= CloseHour
<1>1. /\ tick' = tick + 1 /\ stage = "between"
      /\ sec' = IF Chronicle \/ tick' % DayTicks = OpenHour
                THEN [s \in Symbols |-> [sec[s] EXCEPT !.ref = sec[s].last]]
                ELSE sec
  BY DEF NextTick
<1>2. tick \in Nat
  BY DEF IInv, SessionHolds
<1>3. ~Chronicle /\ OpenHour <= tick % DayTicks /\ tick % DayTicks <= CloseHour
      /\ tick % DayTicks # CloseHour
  BY <1>1 DEF IInv, SessionHolds, Closing, Hour
<1>4. tick % DayTicks \in Int /\ {OpenHour, CloseHour, (tick + 1) % DayTicks} \subseteq Int
  BY <1>2, ExchangeAssumption
<1>5. tick % DayTicks < CloseHour
  BY <1>3, <1>4
<1>6. OpenHour < (tick + 1) % DayTicks /\ (tick + 1) % DayTicks <= CloseHour
  BY <1>2, <1>3, <1>5, NextHour
<1> QED
  BY <1>1, <1>3, <1>4, <1>6

\* A new tick.
LEMMA NextTickHolds ==
  ASSUME IInv, NextTick
  PROVE  IInv'
<1>1. /\ orders' = orders /\ tick' = tick + 1 /\ stage = "between" /\ stage' = "cancels"
      /\ ipo' = ipo /\ auction' = auction
      /\ sec' = IF Chronicle \/ tick' % DayTicks = OpenHour
                THEN [s \in Symbols |-> [sec[s] EXCEPT !.ref = sec[s].last]]
                ELSE sec
  BY DEF NextTick, bookVars
<1>2. SecuritiesHold'
  BY <1>1 DEF IInv, SecuritiesHold
<1>3. tick \in Nat /\ tick' \in Nat
  BY <1>1 DEF IInv, SessionHolds
<1>4. DOMAIN orders # {} => /\ sec' = sec /\ ~Chronicle
                            /\ OpenHour < (tick + 1) % DayTicks
                            /\ (tick + 1) % DayTicks <= CloseHour
  BY ReferenceStays
<1>5. {OpenHour, CloseHour, (tick + 1) % DayTicks} \subseteq Int
  BY <1>3, ExchangeAssumption
<1>7. SessionHolds'
  BY <1>1, <1>3, <1>4, <1>5 DEF SessionHolds, Hour, Opening
<1>8. Thinned
  BY <1>1, SameThins DEF IInv
<1>9. OrdersHold'
  BY <1>1, <1>4, <1>8, ThinnedHolds DEF IInv
<1>10. SelfHolds'
  BY <1>1, <1>8, ThinnedSelf DEF IInv, Unopened, Unchecked
<1> QED
  BY <1>2, <1>7, <1>9, <1>10 DEF IInv

\* The invariant of the book is inductive.
LEMMA StepHolds == IInv /\ [Next]_vars => IInv'
<1> SUFFICES ASSUME IInv, [Next]_vars PROVE IInv'
  OBVIOUS
<1>1. CASE UNCHANGED vars
  <2>1. Stays
    BY <1>1, SameThins, SameKept DEF vars, Stays, IInv
  <2> QED
    BY <2>1, StaysHolds
<1>2. CASE Next
  BY <1>2, StayingSteps, StaysHolds, AdmittedHolds, MovingSteps, OfferHolds, ListingHolds,
     DelistHolds, NextTickHolds DEF Next
<1> QED
  BY <1>1, <1>2

\* Live orders always lie in the band of their session (engine.py:428-441, 356-384),
\* and in continuous trading nobody meets an order of its own (engine.py:620-623,
\* 645-684), for all traders, symbols, inputs and hours of trading.
THEOREM BookStaysOrderly == Spec => []BookOrderly
<1>1. IInv => BookOrderly
  <2> SUFFICES ASSUME IInv PROVE LiveInBand /\ NoSelfCross
    BY DEF BookOrderly
  <2>1. LiveInBand
    BY DEF IInv, OrdersHold, OrderHolds, LiveInBand
  <2>2. NoSelfCross
    BY DEF IInv, SelfHolds, NoSelfCross, OnSide, Live, Meets, Unopened, Unchecked
  <2> QED
    BY <2>1, <2>2
<1> QED
  BY <1>1, InitHolds, StepHolds, PTL DEF Spec

-----------------------------------------------------------------------------
(* Sums over finite sets *)

\* g gives every subset of S the sum of f over it.
Sums(g, f, S) ==
  g = [T \in SUBSET S |-> IF T = {} THEN 0
                          ELSE f[CHOOSE x \in T : TRUE] + g[T \ {CHOOSE x \in T : TRUE}]]

\* The sum over a set, by the element the choice picks.
LEMMA SumUnfolds ==
  ASSUME NEW f
  PROVE  SumOf(f) = (CHOOSE g : Sums(g, f, DOMAIN f))[DOMAIN f]
BY DEF SumOf, MapThenSumSet, MapThenFoldSet, Sums

\* Sets of finite sets have a smallest member: induction by minimal counterexample.
LEMMA Smallest ==
  ASSUME NEW S, IsFiniteSet(S), NEW Bad, Bad \subseteq SUBSET S, Bad # {}
  PROVE  \E T \in Bad : \A U \in SUBSET T : U # T => U \notin Bad
<1> DEFINE Sizes == {Cardinality(T) : T \in Bad}
           R == OpToRel(<, Nat)
<1>1. \A T \in SUBSET S : IsFiniteSet(T) /\ Cardinality(T) \in Nat
  BY FS_Subset, FS_CardinalityType
<1>2. Sizes \subseteq Nat /\ Sizes # {}
  BY <1>1
<1>3. \A m, n \in Nat : <<m, n>> \in R <=> m < n
  BY DEF OpToRel
<1> HIDE DEF R
<1>4. PICK n \in Sizes : \A m \in Sizes : ~(<<m, n>> \in R)
  <2> HIDE DEF Sizes
  <2> QED
    BY <1>2, NatLessThanWellFounded, WFMin DEF R
<1>5. PICK T \in Bad : n = Cardinality(T)
  OBVIOUS
<1>6. ASSUME NEW U \in SUBSET T, U # T, U \in Bad
      PROVE  FALSE
  <2>1. Cardinality(U) < Cardinality(T) /\ Cardinality(U) \in Nat /\ Cardinality(T) \in Nat
    <3>1. IsFiniteSet(T) /\ Cardinality(U) \in Nat /\ Cardinality(T) \in Nat
      BY <1>1, <1>6
    <3>2. Cardinality(U) <= Cardinality(T) /\ (Cardinality(T) = Cardinality(U) => T = U)
      BY <3>1, FS_Subset
    <3> QED
      BY <1>6, <3>1, <3>2
  <2>2. Cardinality(U) \in Sizes
    BY <1>6
  <2>3. ~(Cardinality(U) < Cardinality(T))
    BY <1>2, <1>3, <1>4, <1>5, <2>2
  <2> QED
    BY <2>1, <2>3
<1> QED
  BY <1>6

\* Sums of functions that agree on a set agree.
LEMMA SumsAgree ==
  ASSUME NEW f, NEW e, NEW A, NEW B, NEW g, NEW h, Sums(g, f, A), Sums(h, e, B),
         NEW S, IsFiniteSet(S), S \subseteq A, S \subseteq B, \A x \in S : f[x] = e[x]
  PROVE  g[S] = h[S]
<1> DEFINE Bad == {T \in SUBSET S : g[T] # h[T]}
<1> SUFFICES ASSUME Bad # {}
             PROVE  FALSE
  OBVIOUS
<1>1. PICK T \in Bad : \A U \in SUBSET T : U # T => U \notin Bad
  <2> HIDE DEF Bad
  <2>1. Bad \subseteq SUBSET S
    BY DEF Bad
  <2> QED
    BY <2>1, Smallest
<1> DEFINE c == CHOOSE x \in T : TRUE
<1>2. T \in SUBSET A /\ T \in SUBSET B
  OBVIOUS
<1>3. CASE T = {}
  <2>1. g[{}] = 0
    BY <1>2, <1>3 DEF Sums
  <2>2. h[{}] = 0
    BY <1>2, <1>3 DEF Sums
  <2> QED
    BY <1>3, <2>1, <2>2
<1>4. CASE T # {}
  <2>1. c \in T
    BY <1>4
  <2>2. g[T] = f[c] + g[T \ {c}]
    BY <1>2, <1>4 DEF Sums
  <2>3. h[T] = e[c] + h[T \ {c}]
    BY <1>2, <1>4 DEF Sums
  <2> HIDE DEF c
  <2>4. g[T \ {c}] = h[T \ {c}]
    <3>1. T \ {c} # T
      BY <2>1
    <3> QED
      BY <1>1, <3>1
  <2>5. f[c] = e[c]
    BY <2>1
  <2> QED
    BY <2>2, <2>3, <2>4, <2>5
<1> QED
  BY <1>3, <1>4

\* Every function has its sums over a finite set.
LEMMA SumsExist ==
  ASSUME NEW f, NEW S, IsFiniteSet(S)
  PROVE  \E g : Sums(g, f, S)
<1> DEFINE Bad == {T \in SUBSET S : ~\E g : Sums(g, f, T)}
<1> SUFFICES ASSUME Bad # {}
             PROVE  FALSE
  OBVIOUS
<1>1. PICK T \in Bad : \A U \in SUBSET T : U # T => U \notin Bad
  <2> HIDE DEF Bad
  <2>1. Bad \subseteq SUBSET S
    BY DEF Bad
  <2> QED
    BY <2>1, Smallest
<1> DEFINE G == [x \in T |-> CHOOSE g : Sums(g, f, T \ {x})]
           c == CHOOSE x \in T : TRUE
           Out(V) == CHOOSE x \in T : x \notin V
           h == [V \in SUBSET T |-> IF V = {} THEN 0
                                    ELSE IF V = T THEN f[c] + G[c][T \ {c}] ELSE G[Out(V)][V]]
<1>2. \A x \in T : Sums(G[x], f, T \ {x})
  <2> TAKE x \in T
  <2>1. \E g : Sums(g, f, T \ {x})
    <3>1. T \ {x} # T
      OBVIOUS
    <3> QED
      BY <1>1, <3>1
  <2>2. G[x] = CHOOSE g : Sums(g, f, T \ {x})
    OBVIOUS
  <2> HIDE DEF G
  <2> QED
    BY <2>1, <2>2
<1>3. \A V \in SUBSET T : V # T => Out(V) \in T \ V
  OBVIOUS
<1>4. IsFiniteSet(T) /\ \A V \in SUBSET T : IsFiniteSet(V)
  BY FS_Subset
<1> HIDE DEF G, Out
<1>5. ASSUME NEW V \in SUBSET T, V # {}, NEW d, d = CHOOSE x \in V : TRUE
      PROVE  h[V] = f[d] + h[V \ {d}]
  <2>1. d \in V
    BY <1>5
  <2>2. V \ {d} # T /\ V \ {d} \in SUBSET T
    BY <2>1
  <2> DEFINE U == V \ {d}
             y == Out(U)
  <2>3. y \in T \ U /\ Sums(G[y], f, T \ {y}) /\ U \subseteq T \ {y} /\ IsFiniteSet(U)
    <3>1. y \in T \ U
      BY <1>3, <2>2
    <3>2. IsFiniteSet(U)
      BY <1>4, <2>2
    <3> HIDE DEF y
    <3> QED
      BY <1>2, <2>2, <3>1, <3>2
  <2>4. h[U] = G[y][U]
    <3>1. CASE U = {}
      <4>1. G[y][{}] = 0
        BY <2>3 DEF Sums
      <4> QED
        BY <3>1, <4>1
    <3>2. CASE U # {}
      BY <2>2, <3>2
    <3> QED
      BY <3>1, <3>2
  <2>5. CASE V = T
    <3>1. d = c /\ d \in T
      BY <1>5, <2>1, <2>5
    <3>2. h[V] = f[d] + G[d][U]
      BY <1>5, <2>5, <3>1
    <3>3. Sums(G[d], f, T \ {d}) /\ U \subseteq T \ {d}
      BY <1>2, <2>5, <3>1
    <3> HIDE DEF h, U, y, c
    <3>4. G[d][U] = G[y][U]
      BY <2>3, <3>3, SumsAgree
    <3> QED
      BY <2>4, <3>2, <3>4 DEF U
  <2>6. CASE V # T
    <3> DEFINE x == Out(V)
    <3>1. x \in T \ V /\ Sums(G[x], f, T \ {x}) /\ V \in SUBSET (T \ {x})
      BY <1>2, <1>3, <2>6
    <3>2. h[V] = G[x][V]
      BY <1>5, <2>6
    <3>3. G[x][V] = f[d] + G[x][U]
      BY <1>5, <3>1 DEF Sums
    <3>4. U \subseteq T \ {x}
      BY <3>1
    <3> HIDE DEF h, U, x, y
    <3>5. G[x][U] = G[y][U]
      BY <2>3, <3>1, <3>4, SumsAgree
    <3> QED
      BY <2>4, <3>2, <3>3, <3>5 DEF U
  <2> QED
    BY <2>5, <2>6
<1>6. h[{}] = 0 /\ DOMAIN h = SUBSET T /\ h = [V \in SUBSET T |-> h[V]]
  OBVIOUS
<1> HIDE DEF h
<1>7. h = [V \in SUBSET T |-> IF V = {} THEN 0
             ELSE f[CHOOSE x \in V : TRUE] + h[V \ {CHOOSE x \in V : TRUE}]]
  BY <1>5, <1>6
<1>8. Sums(h, f, T)
  BY <1>7 DEF Sums
<1> QED
  BY <1>8

\* The sum over a set is that over the set without any one of its members, and the member.
LEMMA SumsSplit ==
  ASSUME NEW f, NEW S, IsFiniteSet(S), \A x \in S : f[x] \in Int, NEW g, Sums(g, f, S)
  PROVE  g[S] \in Int /\ \A x \in S : g[S] = f[x] + g[S \ {x}]
<1> DEFINE Right(T) == g[T] \in Int /\ \A x \in T : g[T] = f[x] + g[T \ {x}]
           Bad == {T \in SUBSET S : ~Right(T)}
<1> SUFFICES ASSUME Bad # {}
             PROVE  FALSE
  OBVIOUS
<1>1. PICK T \in Bad : \A U \in SUBSET T : U # T => U \notin Bad
  <2> HIDE DEF Bad
  <2>1. Bad \subseteq SUBSET S
    BY DEF Bad
  <2> QED
    BY <2>1, Smallest
<1> DEFINE c == CHOOSE x \in T : TRUE
<1>2. T # {}
  <2> SUFFICES ASSUME T = {}
               PROVE  FALSE
    OBVIOUS
  <2>1. g[{}] = 0
    BY DEF Sums
  <2> QED
    BY <2>1
<1>3. c \in T /\ f[c] \in Int
  BY <1>2
<1>4. g[T] = f[c] + g[T \ {c}]
  BY <1>2 DEF Sums
<1> HIDE DEF c
<1>5. \A U \in SUBSET T : U # T => Right(U)
  BY <1>1
<1>6. g[T] \in Int
  <2>1. g[T \ {c}] \in Int
    BY <1>3, <1>5
  <2> QED
    BY <1>3, <1>4, <2>1
<1>7. ASSUME NEW x \in T
      PROVE  g[T] = f[x] + g[T \ {x}]
  <2>1. CASE x = c
    BY <1>4, <2>1
  <2>2. CASE x # c
    <3> DEFINE U == T \ {c, x}
               A == T \ {c}
               B == T \ {x}
    <3>1. /\ A \in SUBSET T /\ A # T /\ x \in A /\ A \ {x} = U
          /\ B \in SUBSET T /\ B # T /\ c \in B /\ B \ {c} = U
          /\ U \in SUBSET T /\ U # T
      BY <1>3, <2>2
    <3> HIDE DEF A, B, U
    <3>2. g[A] = f[x] + g[U] /\ g[B] = f[c] + g[U]
      BY <1>5, <3>1
    <3>3. g[U] \in Int /\ f[x] \in Int
      BY <1>5, <3>1
    <3>4. g[T] = f[c] + g[A]
      BY <1>4 DEF A
    <3>5. g[T] = f[x] + g[B]
      BY <1>3, <3>2, <3>3, <3>4
    <3> QED
      BY <3>5 DEF B
  <2> QED
    BY <2>1, <2>2
<1> QED
  BY <1>6, <1>7

IsSummable(f) == IsFiniteSet(DOMAIN f) /\ \A x \in DOMAIN f : f[x] \in Int

\* SumOf is the sum over the whole domain.
LEMMA SumOfSums ==
  ASSUME NEW f, IsFiniteSet(DOMAIN f)
  PROVE  \E g : Sums(g, f, DOMAIN f) /\ SumOf(f) = g[DOMAIN f]
<1> DEFINE g == CHOOSE g : Sums(g, f, DOMAIN f)
<1>1. Sums(g, f, DOMAIN f)
  BY SumsExist
<1>2. SumOf(f) = g[DOMAIN f]
  BY SumUnfolds
<1> HIDE DEF g
<1> QED
  BY <1>1, <1>2

\* The sum of nothing.
LEMMA SumEmpty ==
  ASSUME NEW f, DOMAIN f = {}
  PROVE  SumOf(f) = 0
<1>1. PICK g : Sums(g, f, DOMAIN f) /\ SumOf(f) = g[DOMAIN f]
  BY SumOfSums, FS_EmptySet
<1> QED
  BY <1>1 DEF Sums

\* The sum of f and that of what f is elsewhere than at x.
LEMMA SumWithout ==
  ASSUME NEW f, IsSummable(f), NEW x \in DOMAIN f, NEW e, DOMAIN e = DOMAIN f \ {x},
         \A y \in DOMAIN e : e[y] = f[y]
  PROVE  SumOf(f) = f[x] + SumOf(e) /\ SumOf(f) \in Int /\ SumOf(e) \in Int
<1>1. IsFiniteSet(DOMAIN f) /\ IsFiniteSet(DOMAIN e) /\ \A y \in DOMAIN f : f[y] \in Int
  BY FS_Subset DEF IsSummable
<1>2. PICK g : Sums(g, f, DOMAIN f) /\ SumOf(f) = g[DOMAIN f]
  BY <1>1, SumOfSums
<1>3. PICK h : Sums(h, e, DOMAIN e) /\ SumOf(e) = h[DOMAIN e]
  BY <1>1, SumOfSums
<1>4. g[DOMAIN f] \in Int /\ \A y \in DOMAIN f : g[DOMAIN f] = f[y] + g[DOMAIN f \ {y}]
  BY <1>1, <1>2, SumsSplit
<1>5. g[DOMAIN e] = h[DOMAIN e]
  BY <1>1, <1>2, <1>3, SumsAgree
<1>6. h[DOMAIN e] \in Int
  BY <1>1, <1>3, SumsSplit
<1> QED
  BY <1>2, <1>3, <1>4, <1>5, <1>6

\* A sum of integers is an integer.
LEMMA SumIsInt ==
  ASSUME NEW f, IsSummable(f)
  PROVE  SumOf(f) \in Int
<1>1. PICK g : Sums(g, f, DOMAIN f) /\ SumOf(f) = g[DOMAIN f]
  BY SumOfSums DEF IsSummable
<1> QED
  BY <1>1, SumsSplit DEF IsSummable

\* One value changes.
LEMMA SumChanged ==
  ASSUME NEW f, IsSummable(f), NEW x \in DOMAIN f, NEW e, DOMAIN e = DOMAIN f, e[x] \in Int,
         \A y \in DOMAIN f \ {x} : e[y] = f[y]
  PROVE  SumOf(e) = SumOf(f) - f[x] + e[x]
<1> DEFINE r == [y \in DOMAIN f \ {x} |-> f[y]]
<1>1. IsSummable(e) /\ f[x] \in Int
  BY DEF IsSummable
<1>2. DOMAIN r = DOMAIN f \ {x} /\ \A y \in DOMAIN r : r[y] = f[y] /\ r[y] = e[y]
  OBVIOUS
<1> HIDE DEF r
<1>3. SumOf(f) = f[x] + SumOf(r) /\ SumOf(r) \in Int
  BY <1>2, SumWithout
<1>4. SumOf(e) = e[x] + SumOf(r) /\ SumOf(e) \in Int /\ SumOf(r) \in Int
  <2>1. x \in DOMAIN e /\ DOMAIN r = DOMAIN e \ {x} /\ \A y \in DOMAIN r : r[y] = e[y]
    BY <1>2
  <2> QED
    BY <1>1, <2>1, SumWithout
<1> QED
  BY <1>1, <1>3, <1>4

\* One value is added.
LEMMA SumAdded ==
  ASSUME NEW f, IsSummable(f), NEW x, x \notin DOMAIN f, NEW e, DOMAIN e = DOMAIN f \cup {x},
         e[x] \in Int, \A y \in DOMAIN f : e[y] = f[y]
  PROVE  SumOf(e) = SumOf(f) + e[x]
<1>1. IsSummable(e)
  BY FS_AddElement DEF IsSummable
<1>2. x \in DOMAIN e /\ DOMAIN f = DOMAIN e \ {x} /\ \A y \in DOMAIN f : f[y] = e[y]
  OBVIOUS
<1>3. SumOf(e) = e[x] + SumOf(f) /\ SumOf(e) \in Int /\ SumOf(f) \in Int
  BY <1>1, <1>2, SumWithout
<1> QED
  BY <1>3

\* Equal terms, equal sums.
LEMMA SameSum ==
  ASSUME NEW f, NEW e, IsFiniteSet(DOMAIN f), DOMAIN e = DOMAIN f, \A x \in DOMAIN f : e[x] = f[x]
  PROVE  SumOf(e) = SumOf(f)
<1>1. PICK g : Sums(g, f, DOMAIN f) /\ SumOf(f) = g[DOMAIN f]
  BY SumOfSums
<1>2. PICK h : Sums(h, e, DOMAIN e) /\ SumOf(e) = h[DOMAIN e]
  BY SumOfSums
<1> QED
  BY <1>1, <1>2, SumsAgree

\* A sum over part of the domain.
Over(f, T) == [x \in T |-> f[x]]

\* Induction over the subsets of a finite set, with the property as a set of subsets.
LEMMA SetsGrow ==
  ASSUME NEW S, IsFiniteSet(S), NEW P, {} \in P,
         \A T \in SUBSET S : \A x \in S \ T : T \in P => T \cup {x} \in P
  PROVE  S \in P
<1> DEFINE Bad == {T \in SUBSET S : T \notin P}
<1> SUFFICES ASSUME Bad # {}
             PROVE  FALSE
  OBVIOUS
<1>1. PICK T \in Bad : \A U \in SUBSET T : U # T => U \notin Bad
  <2> HIDE DEF Bad
  <2>1. Bad \subseteq SUBSET S
    BY DEF Bad
  <2> QED
    BY <2>1, Smallest
<1>2. PICK x : x \in T
  OBVIOUS
<1>3. T \ {x} \in P /\ T \ {x} \in SUBSET S /\ x \in S \ (T \ {x})
  BY <1>1, <1>2
<1>4. (T \ {x}) \cup {x} = T
  BY <1>2
<1> QED
  BY <1>3, <1>4

\* One more argument: its value is added.
LEMMA OverAdded ==
  ASSUME NEW f, IsSummable(f), NEW T \in SUBSET DOMAIN f, NEW x \in DOMAIN f \ T
  PROVE  /\ SumOf(Over(f, T \cup {x})) = SumOf(Over(f, T)) + f[x]
         /\ SumOf(Over(f, T)) \in Int /\ f[x] \in Int
<1> DEFINE g == Over(f, T)
           h == Over(f, T \cup {x})
<1>1. IsSummable(g)
  BY FS_Subset DEF IsSummable, Over
<1>2. /\ x \notin DOMAIN g /\ DOMAIN h = DOMAIN g \cup {x} /\ h[x] = f[x] /\ f[x] \in Int
      /\ \A y \in DOMAIN g : h[y] = g[y]
  BY DEF IsSummable, Over
<1> HIDE DEF g, h
<1>3. SumOf(h) = SumOf(g) + h[x] /\ SumOf(g) \in Int
  BY <1>1, <1>2, SumAdded, SumIsInt
<1> QED
  BY <1>2, <1>3 DEF g, h

\* A sum over nothing.
LEMMA OverNone ==
  ASSUME NEW f
  PROVE  SumOf(Over(f, {})) = 0
<1> DEFINE g == Over(f, {})
<1>1. DOMAIN g = {}
  BY DEF Over
<1> HIDE DEF g
<1>2. SumOf(g) = 0
  BY <1>1, SumEmpty
<1> QED
  BY <1>2 DEF g

\* A sum over everything.
LEMMA OverAll ==
  ASSUME NEW f, IsSummable(f)
  PROVE  SumOf(Over(f, DOMAIN f)) = SumOf(f)
<1> DEFINE g == Over(f, DOMAIN f)
<1>1. DOMAIN f = DOMAIN g /\ \A x \in DOMAIN g : f[x] = g[x]
  BY DEF Over
<1>2. IsFiniteSet(DOMAIN g)
  BY <1>1 DEF IsSummable
<1> HIDE DEF g
<1>3. SumOf(f) = SumOf(g)
  BY <1>1, <1>2, SameSum
<1> QED
  BY <1>3 DEF g

\* The sum of two functions.
LEMMA SumPlus ==
  ASSUME NEW f, NEW g, IsSummable(f), IsSummable(g), DOMAIN f = DOMAIN g,
         NEW e, DOMAIN e = DOMAIN f, \A x \in DOMAIN f : e[x] = f[x] + g[x]
  PROVE  SumOf(e) = SumOf(f) + SumOf(g)
<1> DEFINE S == DOMAIN f
           P == {T \in SUBSET S : SumOf(Over(e, T)) = SumOf(Over(f, T)) + SumOf(Over(g, T))}
<1>1. IsFiniteSet(S) /\ IsSummable(e)
  BY DEF IsSummable
<1>2. {} \in P
  BY OverNone
<1>3. ASSUME NEW T \in SUBSET S, NEW x \in S \ T, T \in P
      PROVE  T \cup {x} \in P
  <2>1. /\ SumOf(Over(f, T \cup {x})) = SumOf(Over(f, T)) + f[x]
        /\ SumOf(Over(f, T)) \in Int /\ f[x] \in Int
    BY OverAdded
  <2>2. /\ SumOf(Over(g, T \cup {x})) = SumOf(Over(g, T)) + g[x]
        /\ SumOf(Over(g, T)) \in Int /\ g[x] \in Int
    BY OverAdded
  <2>3. /\ SumOf(Over(e, T \cup {x})) = SumOf(Over(e, T)) + e[x]
        /\ SumOf(Over(e, T)) \in Int /\ e[x] \in Int
    BY <1>1, OverAdded
  <2>4. e[x] = f[x] + g[x] /\ SumOf(Over(e, T)) = SumOf(Over(f, T)) + SumOf(Over(g, T))
    BY <1>3
  <2>5. SumOf(Over(e, T \cup {x})) = SumOf(Over(f, T \cup {x})) + SumOf(Over(g, T \cup {x}))
    BY <2>1, <2>2, <2>3, <2>4
  <2> QED
    BY <2>5
<1>4. S \in P
  <2> HIDE DEF P, S
  <2> QED
    BY <1>1, <1>2, <1>3, SetsGrow
<1>5. SumOf(Over(e, S)) = SumOf(Over(f, S)) + SumOf(Over(g, S))
  BY <1>4
<1> QED
  BY <1>1, <1>5, OverAll

\* Values of zero do not count.
LEMMA SumFiltered ==
  ASSUME NEW f, IsSummable(f), NEW U \in SUBSET DOMAIN f, \A x \in DOMAIN f \ U : f[x] = 0
  PROVE  SumOf(f) = SumOf(Over(f, U)) /\ SumOf(f) \in Int
<1> DEFINE S == DOMAIN f
           P == {T \in SUBSET S : SumOf(Over(f, T)) = SumOf(Over(f, T \cap U))}
<1>1. IsFiniteSet(S)
  BY DEF IsSummable
<1>2. {} \in P
  <2>1. {} \cap U = {}
    OBVIOUS
  <2> QED
    BY <2>1
<1>3. ASSUME NEW T \in SUBSET S, NEW x \in S \ T, T \in P
      PROVE  T \cup {x} \in P
  <2>1. /\ SumOf(Over(f, T \cup {x})) = SumOf(Over(f, T)) + f[x]
        /\ SumOf(Over(f, T)) \in Int /\ f[x] \in Int
    BY OverAdded
  <2>2. SumOf(Over(f, T)) = SumOf(Over(f, T \cap U))
    BY <1>3
  <2>3. SumOf(Over(f, (T \cup {x}) \cap U)) = SumOf(Over(f, T \cap U)) + f[x]
    <3>1. CASE x \in U
      <4>1. (T \cup {x}) \cap U = (T \cap U) \cup {x}
        BY <3>1
      <4>2. T \cap U \in SUBSET DOMAIN f /\ x \in DOMAIN f \ (T \cap U)
        OBVIOUS
      <4> QED
        BY <4>1, <4>2, OverAdded
    <3>2. CASE x \notin U
      <4>1. (T \cup {x}) \cap U = T \cap U /\ f[x] = 0
        BY <3>2
      <4> QED
        BY <2>1, <2>2, <4>1
    <3> QED
      BY <3>1, <3>2
  <2>4. SumOf(Over(f, T \cup {x})) = SumOf(Over(f, (T \cup {x}) \cap U))
    BY <2>1, <2>2, <2>3
  <2> QED
    BY <2>4
<1>4. S \in P
  <2> HIDE DEF P, S
  <2> QED
    BY <1>1, <1>2, <1>3, SetsGrow
<1>5. SumOf(Over(f, S)) = SumOf(Over(f, S \cap U)) /\ S \cap U = U
  BY <1>4
<1> QED
  BY <1>5, OverAll, SumIsInt

\* A sum is that of the two parts of its domain.
LEMMA SumParts ==
  ASSUME NEW f, IsSummable(f), NEW U \in SUBSET DOMAIN f
  PROVE  /\ SumOf(f) = SumOf(Over(f, U)) + SumOf(Over(f, DOMAIN f \ U))
         /\ SumOf(Over(f, U)) \in Int /\ SumOf(Over(f, DOMAIN f \ U)) \in Int
<1> DEFINE S == DOMAIN f
           g == [x \in S |-> IF x \in U THEN f[x] ELSE 0]
           h == [x \in S |-> IF x \in U THEN 0 ELSE f[x]]
<1>1. /\ IsSummable(g) /\ IsSummable(h) /\ DOMAIN g = S /\ DOMAIN h = S
      /\ \A x \in S : f[x] = g[x] + h[x]
  BY DEF IsSummable
<1>2. /\ \A x \in S \ U : g[x] = 0
      /\ \A x \in S \ (S \ U) : h[x] = 0
      /\ Over(g, U) = Over(f, U) /\ Over(h, S \ U) = Over(f, S \ U)
  BY DEF Over
<1> HIDE DEF g, h
<1>3. SumOf(f) = SumOf(g) + SumOf(h)
  BY <1>1, SumPlus
<1>4. SumOf(g) = SumOf(Over(g, U)) /\ SumOf(g) \in Int
  BY <1>1, <1>2, SumFiltered
<1>5. SumOf(h) = SumOf(Over(h, S \ U)) /\ SumOf(h) \in Int
  <2>1. S \ U \in SUBSET DOMAIN h /\ \A x \in DOMAIN h \ (S \ U) : h[x] = 0
    BY <1>1, <1>2
  <2> QED
    BY <1>1, <2>1, SumFiltered
<1> QED
  BY <1>2, <1>3, <1>4, <1>5

\* Smaller values, smaller sum.
LEMMA SumLess ==
  ASSUME NEW f, NEW g, IsSummable(f), IsSummable(g), DOMAIN f = DOMAIN g,
         \A x \in DOMAIN f : f[x] <= g[x]
  PROVE  SumOf(f) <= SumOf(g) /\ SumOf(f) \in Int /\ SumOf(g) \in Int
<1> DEFINE S == DOMAIN f
           P == {T \in SUBSET S : SumOf(Over(f, T)) <= SumOf(Over(g, T))}
<1>1. IsFiniteSet(S)
  BY DEF IsSummable
<1>2. {} \in P
  BY OverNone
<1>3. ASSUME NEW T \in SUBSET S, NEW x \in S \ T, T \in P
      PROVE  T \cup {x} \in P
  <2>1. /\ SumOf(Over(f, T \cup {x})) = SumOf(Over(f, T)) + f[x]
        /\ SumOf(Over(f, T)) \in Int /\ f[x] \in Int
    BY OverAdded
  <2>2. /\ SumOf(Over(g, T \cup {x})) = SumOf(Over(g, T)) + g[x]
        /\ SumOf(Over(g, T)) \in Int /\ g[x] \in Int
    BY OverAdded
  <2>3. f[x] <= g[x] /\ SumOf(Over(f, T)) <= SumOf(Over(g, T))
    BY <1>3
  <2>4. SumOf(Over(f, T \cup {x})) <= SumOf(Over(g, T \cup {x}))
    BY <2>1, <2>2, <2>3
  <2> QED
    BY <2>4
<1>4. S \in P
  <2> HIDE DEF P, S
  <2> QED
    BY <1>1, <1>2, <1>3, SetsGrow
<1>5. SumOf(Over(f, S)) <= SumOf(Over(g, S))
  BY <1>4
<1> QED
  BY <1>5, OverAll, SumIsInt

\* A sum of what is not negative is not negative.
LEMMA SumIsNat ==
  ASSUME NEW f, IsFiniteSet(DOMAIN f), \A x \in DOMAIN f : f[x] \in Nat
  PROVE  SumOf(f) \in Nat /\ IsSummable(f)
<1> DEFINE z == [x \in DOMAIN f |-> 0]
<1>1. IsSummable(f) /\ IsSummable(z) /\ DOMAIN z = DOMAIN f /\ \A x \in DOMAIN z : z[x] <= f[x]
  BY DEF IsSummable
<1>2. Over(z, {}) = <<>> /\ \A x \in DOMAIN z : z[x] = 0
  BY DEF Over
<1> HIDE DEF z
<1>3. SumOf(z) = SumOf(Over(z, {}))
  <2>1. {} \in SUBSET DOMAIN z /\ \A x \in DOMAIN z \ {} : z[x] = 0
    BY <1>2
  <2> QED
    BY <1>1, <2>1, SumFiltered
<1>4. SumOf(z) = 0
  BY <1>3, OverNone
<1>5. SumOf(z) <= SumOf(f) /\ SumOf(f) \in Int
  BY <1>1, SumLess
<1> QED
  BY <1>1, <1>4, <1>5

\* A common factor.
LEMMA SumTimes ==
  ASSUME NEW f, IsSummable(f), NEW c \in Int,
         NEW e, DOMAIN e = DOMAIN f, \A x \in DOMAIN f : e[x] = c * f[x]
  PROVE  SumOf(e) = c * SumOf(f) /\ IsSummable(e)
<1> DEFINE S == DOMAIN f
           P == {T \in SUBSET S : SumOf(Over(e, T)) = c * SumOf(Over(f, T))}
<1>1. IsFiniteSet(S) /\ IsSummable(e)
  BY DEF IsSummable
<1>2. {} \in P
  BY OverNone
<1>3. ASSUME NEW T \in SUBSET S, NEW x \in S \ T, T \in P
      PROVE  T \cup {x} \in P
  <2>1. /\ SumOf(Over(f, T \cup {x})) = SumOf(Over(f, T)) + f[x]
        /\ SumOf(Over(f, T)) \in Int /\ f[x] \in Int
    BY OverAdded
  <2>2. /\ SumOf(Over(e, T \cup {x})) = SumOf(Over(e, T)) + e[x]
        /\ SumOf(Over(e, T)) \in Int /\ e[x] \in Int
    BY <1>1, OverAdded
  <2>3. e[x] = c * f[x] /\ SumOf(Over(e, T)) = c * SumOf(Over(f, T))
    BY <1>3
  <2>4. \A u, v \in Int : c * (u + v) = c * u + c * v
    OBVIOUS
  <2>5. SumOf(Over(e, T \cup {x})) = c * SumOf(Over(f, T \cup {x}))
    BY <2>1, <2>2, <2>3, <2>4
  <2> QED
    BY <2>5
<1>4. S \in P
  <2> HIDE DEF P, S
  <2> QED
    BY <1>1, <1>2, <1>3, SetsGrow
<1>5. SumOf(Over(e, S)) = c * SumOf(Over(f, S))
  BY <1>4
<1> QED
  BY <1>1, <1>5, OverAll

\* A sum of ones counts.
LEMMA SumCounts ==
  ASSUME NEW S, IsFiniteSet(S), NEW U \in SUBSET S,
         NEW e, DOMAIN e = S, \A x \in S : e[x] = IF x \in U THEN 1 ELSE 0
  PROVE  SumOf(e) = Cardinality(U) /\ IsSummable(e)
<1> DEFINE P == {T \in SUBSET S : SumOf(Over(e, T)) = Cardinality(T \cap U)}
<1>1. IsSummable(e)
  BY DEF IsSummable
<1>2. {} \in P
  <2>1. {} \cap U = {}
    OBVIOUS
  <2> QED
    BY <2>1, OverNone, FS_EmptySet
<1>3. ASSUME NEW T \in SUBSET S, NEW x \in S \ T, T \in P
      PROVE  T \cup {x} \in P
  <2>1. SumOf(Over(e, T \cup {x})) = SumOf(Over(e, T)) + e[x]
    BY <1>1, OverAdded
  <2>2. SumOf(Over(e, T)) = Cardinality(T \cap U) /\ IsFiniteSet(T \cap U)
    BY <1>3, FS_Subset
  <2>3. Cardinality((T \cup {x}) \cap U) = Cardinality(T \cap U) + e[x]
    <3>1. CASE x \in U
      <4>1. (T \cup {x}) \cap U = (T \cap U) \cup {x} /\ x \notin T \cap U
        BY <3>1
      <4> QED
        BY <2>2, <3>1, <4>1, FS_AddElement
    <3>2. CASE x \notin U
      <4>1. (T \cup {x}) \cap U = T \cap U /\ e[x] = 0
        BY <3>2
      <4>2. Cardinality(T \cap U) \in Nat
        BY <2>2, FS_CardinalityType
      <4> QED
        BY <4>1, <4>2
    <3> QED
      BY <3>1, <3>2
  <2>4. SumOf(Over(e, T \cup {x})) = Cardinality((T \cup {x}) \cap U)
    BY <2>1, <2>2, <2>3
  <2> QED
    BY <2>4
<1>4. S \in P
  <2> HIDE DEF P
  <2> QED
    BY <1>2, <1>3, SetsGrow
<1>5. SumOf(Over(e, S)) = Cardinality(S \cap U) /\ S \cap U = U
  BY <1>4
<1> QED
  BY <1>1, <1>5, OverAll

\* No term is more than the sum.
LEMMA TermInSum ==
  ASSUME NEW f, IsFiniteSet(DOMAIN f), \A x \in DOMAIN f : f[x] \in Nat, NEW x \in DOMAIN f
  PROVE  f[x] <= SumOf(f) /\ SumOf(f) \in Nat
<1> DEFINE g == [y \in DOMAIN f \ {x} |-> f[y]]
<1>1. SumOf(f) \in Nat /\ IsSummable(f) /\ f[x] \in Nat
  BY SumIsNat
<1>2. /\ DOMAIN g = DOMAIN f \ {x} /\ IsFiniteSet(DOMAIN g)
      /\ \A y \in DOMAIN g : g[y] = f[y] /\ g[y] \in Nat
  BY FS_Subset
<1> HIDE DEF g
<1>3. SumOf(g) \in Nat
  BY <1>2, SumIsNat
<1>4. SumOf(f) = f[x] + SumOf(g)
  BY <1>1, <1>2, SumWithout
<1> QED
  BY <1>1, <1>3, <1>4

-----------------------------------------------------------------------------
(* The first elements of an order *)

Ranked(lt, S) ==
  /\ \A x \in S : <<x, x>> \notin lt
  /\ \A x, y, z \in S : <<x, y>> \in lt /\ <<y, z>> \in lt => <<x, z>> \in lt
  /\ \A x, y \in S : x # y => <<x, y>> \in lt \/ <<y, x>> \in lt

\* In an order of a finite set there are k members that fewer than k come before.
LEMMA FirstInRank ==
  ASSUME NEW S, IsFiniteSet(S), NEW lt, Ranked(lt, S), NEW k \in 0..Cardinality(S)
  PROVE  Cardinality({x \in S : Cardinality({y \in S : <<y, x>> \in lt}) < k}) = k
<1> DEFINE n == Cardinality(S)
           below(x) == {y \in S : <<y, x>> \in lt}
           rank == [x \in S |-> Cardinality(below(x))]
           T == 0..(n - 1)
           F == {x \in S : rank[x] < k}
<1>1. n \in Nat
  BY FS_CardinalityType
<1>2. ASSUME NEW x \in S
      PROVE  IsFiniteSet(below(x)) /\ rank[x] \in Nat /\ rank[x] < n
  <2>1. below(x) \subseteq S /\ x \notin below(x)
    BY DEF Ranked
  <2>2. /\ IsFiniteSet(below(x)) /\ Cardinality(below(x)) <= n
        /\ Cardinality(below(x)) = n => below(x) = S
    BY <2>1, FS_Subset
  <2>3. Cardinality(below(x)) \in Nat
    BY <2>2, FS_CardinalityType
  <2> QED
    BY <1>1, <2>1, <2>2, <2>3
<1>3. ASSUME NEW x \in S, NEW y \in S, <<x, y>> \in lt
      PROVE  rank[x] < rank[y]
  <2>1. below(x) \subseteq below(y) /\ x \in below(y) /\ x \notin below(x)
    BY <1>3 DEF Ranked
  <2>2. /\ Cardinality(below(x)) <= Cardinality(below(y))
        /\ Cardinality(below(x)) = Cardinality(below(y)) => below(x) = below(y)
    BY <1>2, <2>1, FS_Subset
  <2>3. rank[x] \in Nat /\ rank[y] \in Nat
    BY <1>2
  <2> QED
    BY <2>1, <2>2, <2>3
<1>4. \A x, y \in S : x # y => rank[x] # rank[y]
  <2> SUFFICES ASSUME NEW x \in S, NEW y \in S, x # y
               PROVE  rank[x] # rank[y]
    OBVIOUS
  <2>1. <<x, y>> \in lt \/ <<y, x>> \in lt
    BY DEF Ranked
  <2>2. rank[x] < rank[y] \/ rank[y] < rank[x]
    BY <1>3, <2>1
  <2>3. rank[x] \in Nat /\ rank[y] \in Nat
    BY <1>2
  <2> HIDE DEF rank
  <2> QED
    BY <2>2, <2>3
<1>5. DOMAIN rank = S /\ rank = [x \in S |-> rank[x]] /\ \A x \in S : rank[x] \in T
  <2>1. \A x \in S : rank[x] \in Nat /\ rank[x] < n
    BY <1>2
  <2>2. DOMAIN rank = S /\ rank = [x \in S |-> rank[x]]
    OBVIOUS
  <2> HIDE DEF rank, n
  <2> QED
    BY <1>1, <2>1, <2>2
<1> HIDE DEF rank
<1>6. rank \in Injection(S, T)
  BY <1>4, <1>5 DEF Injection, IsInjective
<1>7. IsFiniteSet(T) /\ Cardinality(T) = n
  <2> HIDE DEF n
  <2> QED
    BY <1>1, FS_Interval
<1>8. rank \in Surjection(S, T)
  <2> HIDE DEF T
  <2> QED
    BY <1>6, <1>7, FS_Injection
<1>9. \A i \in T : \E x \in S : rank[x] = i
  BY <1>8 DEF Surjection
<1> DEFINE g == [x \in F |-> rank[x]]
           V == 0..(k - 1)
<1>10. g \in Surjection(F, V) /\ g \in Injection(F, V)
  <2>1. \A x \in F : g[x] \in V
    <3>1. \A x \in F : rank[x] \in Nat /\ rank[x] < k
      BY <1>5
    <3> QED
      BY <3>1
  <2>2. \A i \in V : \E x \in F : g[x] = i
    <3> SUFFICES ASSUME NEW i \in V
                 PROVE  \E x \in F : rank[x] = i
      OBVIOUS
    <3>1. i \in T /\ i < k
      BY <1>1
    <3> QED
      BY <1>9, <3>1
  <2>3. \A x, y \in F : g[x] = g[y] => x = y
    BY <1>4
  <2>4. g \in [F -> V]
    BY <2>1
  <2> HIDE DEF F, g, V
  <2> QED
    BY <2>2, <2>3, <2>4 DEF Surjection, Injection, IsInjective
<1>11. IsFiniteSet(V) /\ Cardinality(V) = k
  <2>1. k \in Nat
    BY <1>1
  <2> QED
    BY <2>1, FS_Interval
<1>12. Cardinality(F) = Cardinality(V)
  <2> HIDE DEF F, V, g
  <2> QED
    BY <1>10, <1>11, FS_Injection
<1>13. F = {x \in S : Cardinality({y \in S : <<y, x>> \in lt}) < k}
  BY DEF rank
<1> QED
  BY <1>11, <1>12, <1>13

-----------------------------------------------------------------------------
(* Exact shares of a pool *)

\* Quotient and remainder.
LEMMA Divides ==
  ASSUME NEW m \in Nat, NEW d \in Nat \ {0}
  PROVE  /\ m \div d \in Nat /\ m % d \in Nat /\ m % d < d
         /\ m = d * (m \div d) + (m % d)
OBVIOUS

\* Comparing products with the same factor.
LEMMA LeastProduct ==
  ASSUME NEW d \in Nat \ {0}, NEW x \in Int, NEW y \in Int, d * x <= d * y
  PROVE  x <= y
<1> SUFFICES ASSUME x >= y + 1
             PROVE  FALSE
  OBVIOUS
<1>1. d * x >= d * (y + 1)
  OBVIOUS
<1>2. d * (y + 1) = d * y + d
  OBVIOUS
<1> QED
  BY <1>1, <1>2

\* ... strictly,
LEMMA LessProduct ==
  ASSUME NEW d \in Nat \ {0}, NEW x \in Int, NEW y \in Int, d * x < d * y
  PROVE  x < y
<1> SUFFICES ASSUME x >= y
             PROVE  FALSE
  OBVIOUS
<1>1. d * x >= d * y
  OBVIOUS
<1> QED
  BY <1>1

\* ... and back.
LEMMA MoreTimes ==
  ASSUME NEW d \in Nat \ {0}, NEW x \in Int, NEW y \in Int, x < y
  PROVE  d * x < d * y
<1>1. d * (y - x) >= 1
  <2>1. PICK z \in Nat \ {0} : z = y - x
    OBVIOUS
  <2>2. d * z >= 1
    OBVIOUS
  <2> QED
    BY <2>1, <2>2
<1>2. d * (y - x) = d * y - d * x
  OBVIOUS
<1> QED
  BY <1>1, <1>2

\* A multiple of d that lies less than d above another one is that one.
LEMMA WholePart ==
  ASSUME NEW d \in Nat \ {0}, NEW x \in Nat, NEW y \in Nat, NEW z \in Nat, z < d, d * x = d * y + z
  PROVE  x = y /\ z = 0
<1>1. d * y <= d * x /\ d * x < d * (y + 1)
  <2>1. d * (y + 1) = d * y + d
    OBVIOUS
  <2> QED
    BY <2>1
<1>2. y <= x /\ x < y + 1
  BY <1>1, LeastProduct, LessProduct
<1>3. x = y
  BY <1>2
<1> QED
  BY <1>3

\* allocate leaves nothing over and nothing out, and gives nobody more than its weight of a
\* pool that is no more than all the weights (money.py).
LEMMA AllocateExact ==
  ASSUME NEW pool \in Nat, NEW w, IsFiniteSet(DOMAIN w), DOMAIN w # {},
         \A a \in DOMAIN w : w[a] \in Nat \ {0} /\ a[2] \in Int,
         \A a, d \in DOMAIN w : a[2] = d[2] => a = d
  PROVE  /\ DOMAIN Allocate(pool, w) = DOMAIN w
         /\ \A a \in DOMAIN w : Allocate(pool, w)[a] \in Nat
         /\ SumOf(Allocate(pool, w)) = pool
         /\ pool <= SumOf(w) => \A a \in DOMAIN w : Allocate(pool, w)[a] <= w[a]
<1> DEFINE ids == DOMAIN w
           total == SumOf(w)
           base == [a \in ids |-> (pool * w[a]) \div total]
           rest == [a \in ids |-> (pool * w[a]) % total]
           left == pool - SumOf(base)
           R(a, d) == \/ rest[a] > rest[d]
                      \/ rest[a] = rest[d] /\ w[a] > w[d]
                      \/ rest[a] = rest[d] /\ w[a] = w[d] /\ a[2] < d[2]
           F == {a \in ids : Cardinality({d \in ids : R(d, a)}) < left}
           all == Allocate(pool, w)
           n == Cardinality(ids)
<1>1. all = [a \in ids |-> IF Cardinality({d \in ids : R(d, a)}) < left
                           THEN base[a] + 1 ELSE base[a]]
  BY DEF Allocate
<1>2. DOMAIN all = ids /\ \A a \in ids : all[a] = IF a \in F THEN base[a] + 1 ELSE base[a]
  BY <1>1
<1>3. total \in Nat \ {0} /\ IsSummable(w)
  <2>1. PICK a \in ids : TRUE
    OBVIOUS
  <2>2. w[a] <= total /\ total \in Nat
    BY TermInSum
  <2>3. w[a] \in Nat \ {0}
    OBVIOUS
  <2>4. IsSummable(w)
    BY DEF IsSummable
  <2> HIDE DEF total
  <2> QED
    BY <2>2, <2>3, <2>4
<1>4. ASSUME NEW a \in ids
      PROVE  /\ base[a] \in Nat /\ rest[a] \in Nat /\ rest[a] < total
             /\ pool * w[a] = total * base[a] + rest[a]
  <2>1. pool * w[a] \in Nat
    OBVIOUS
  <2>2. base[a] = (pool * w[a]) \div total /\ rest[a] = (pool * w[a]) % total
    OBVIOUS
  <2> HIDE DEF base, rest, total
  <2> QED
    BY <1>3, <2>1, <2>2, Divides
<1>5. DOMAIN base = ids /\ DOMAIN rest = ids
  OBVIOUS
<1> HIDE DEF total, base, rest, all
<1>6. /\ SumOf(base) \in Nat /\ IsSummable(base)
      /\ SumOf(rest) \in Nat /\ IsSummable(rest)
  BY <1>4, <1>5, SumIsNat
<1>7. left \in Int
  BY <1>6
<1>8. pool * total = total * SumOf(base) + SumOf(rest)
  <2> DEFINE e == [a \in ids |-> pool * w[a]]
             f == [a \in ids |-> total * base[a]]
  <2>1. /\ DOMAIN e = ids /\ DOMAIN f = ids
        /\ \A a \in ids : e[a] = pool * w[a] /\ f[a] = total * base[a] /\ e[a] = f[a] + rest[a]
    BY <1>4
  <2> HIDE DEF e, f
  <2>2. SumOf(e) = pool * total
    BY <1>3, <2>1, SumTimes DEF total
  <2>3. SumOf(f) = total * SumOf(base) /\ IsSummable(f)
    BY <1>3, <1>5, <1>6, <2>1, SumTimes
  <2>4. SumOf(e) = SumOf(f) + SumOf(rest)
    BY <1>5, <1>6, <2>1, <2>3, SumPlus
  <2> QED
    BY <2>2, <2>3, <2>4
<1>9. total * left = SumOf(rest)
  <2>1. total * left = total * pool - total * SumOf(base)
    BY <1>3, <1>6
  <2>2. total * pool = pool * total
    BY <1>3
  <2>3. total * SumOf(base) \in Int /\ pool * total \in Int
    BY <1>3, <1>6
  <2> HIDE DEF left
  <2> QED
    BY <1>6, <1>8, <2>1, <2>2, <2>3
<1>10. left >= 0
  <2>1. total * 0 <= total * left
    BY <1>3, <1>6, <1>9
  <2> HIDE DEF left
  <2> QED
    BY <1>3, <1>7, <2>1, LeastProduct
<1>11. n \in Nat
  BY FS_CardinalityType
<1>12. left <= n
  <2> DEFINE one == [a \in ids |-> IF a \in ids THEN 1 ELSE 0]
             e == [a \in ids |-> total]
  <2>1. DOMAIN one = ids /\ DOMAIN e = ids /\ \A a \in ids : one[a] = (IF a \in ids THEN 1 ELSE 0)
    OBVIOUS
  <2>2. \A a \in ids : e[a] = total * one[a] /\ rest[a] <= e[a]
    BY <1>3, <1>4
  <2> HIDE DEF one, e
  <2>3. SumOf(one) = n /\ IsSummable(one)
    <3> HIDE DEF n, ids
    <3> QED
      BY <2>1, SumCounts DEF n, ids
  <2>4. SumOf(e) = total * n /\ IsSummable(e)
    BY <1>3, <2>1, <2>2, <2>3, SumTimes
  <2>5. SumOf(rest) <= SumOf(e)
    BY <1>5, <1>6, <2>1, <2>2, <2>4, SumLess
  <2>6. total * left <= total * n
    BY <1>9, <2>4, <2>5
  <2> HIDE DEF left, n
  <2> QED
    BY <1>3, <1>7, <1>11, <2>6, LeastProduct
<1>13. Cardinality(F) = left
  <2> DEFINE lt == {p \in ids \X ids : R(p[1], p[2])}
  <2>1. \A a, d \in ids : <<a, d>> \in lt <=> R(a, d)
    OBVIOUS
  <2>2. \A a \in ids : rest[a] \in Int /\ w[a] \in Int /\ a[2] \in Int
    BY <1>4
  <2>3. \A a \in ids : ~R(a, a)
    BY <2>2
  <2>4. \A a, b, c \in ids : R(a, b) /\ R(b, c) => R(a, c)
    BY <2>2
  <2>5. \A a, b \in ids : a # b => R(a, b) \/ R(b, a)
    BY <2>2
  <2>6. Ranked(lt, ids)
    <3> HIDE DEF lt, R
    <3> QED
      BY <2>1, <2>3, <2>4, <2>5 DEF Ranked
  <2>7. left \in 0..Cardinality(ids)
    BY <1>7, <1>10, <1>11, <1>12
  <2>8. F = {a \in ids : Cardinality({d \in ids : <<d, a>> \in lt}) < left}
    <3>1. \A a \in ids : {d \in ids : R(d, a)} = {d \in ids : <<d, a>> \in lt}
      BY <2>1
    <3> HIDE DEF lt, R, left
    <3> QED
      BY <3>1
  <2> HIDE DEF lt, F, left, ids
  <2> QED
    BY <2>6, <2>7, <2>8, FirstInRank DEF ids
<1>14. SumOf(all) = pool
  <2> DEFINE one == [a \in ids |-> IF a \in F THEN 1 ELSE 0]
  <2>1. DOMAIN one = ids /\ \A a \in ids : one[a] = IF a \in F THEN 1 ELSE 0
    OBVIOUS
  <2>2. F \in SUBSET ids
    OBVIOUS
  <2> HIDE DEF one, F, left
  <2>3. SumOf(one) = left /\ IsSummable(one)
    BY <1>13, <2>1, <2>2, SumCounts
  <2>4. \A a \in ids : all[a] = base[a] + one[a]
    BY <1>2, <1>4, <2>1
  <2>5. SumOf(all) = SumOf(base) + SumOf(one)
    BY <1>2, <1>5, <1>6, <2>1, <2>3, <2>4, SumPlus
  <2> QED
    BY <1>6, <2>3, <2>5 DEF left
<1>15. ASSUME NEW a \in ids
       PROVE  all[a] \in Nat
  <2>1. base[a] \in Nat
    BY <1>4
  <2>2. all[a] = base[a] \/ all[a] = base[a] + 1
    <3> HIDE DEF F
    <3> QED
      BY <1>2
  <2> QED
    BY <2>1, <2>2
<1>16. ASSUME pool <= total, NEW a \in ids
       PROVE  all[a] <= w[a]
  <2>1. w[a] \in Nat \ {0} /\ base[a] \in Nat /\ rest[a] \in Nat /\ pool * w[a] = total * base[a] + rest[a]
    BY <1>4
  <2>2. CASE pool = total
    <3>1. ASSUME NEW d \in ids
          PROVE  base[d] = w[d]
      <4>1. /\ w[d] \in Nat /\ base[d] \in Nat /\ rest[d] \in Nat /\ rest[d] < total
            /\ total * w[d] = total * base[d] + rest[d]
        BY <1>4, <2>2
      <4> HIDE DEF ids, F, left, R
      <4> QED
        BY <1>3, <4>1, WholePart
    <3>2. SumOf(base) = total
      BY <1>5, <3>1, SameSum DEF total
    <3>3. left = 0
      BY <1>3, <2>2, <3>2
    <3>4. a \notin F
      <4> HIDE DEF R
      <4>1. IsFiniteSet({x \in ids : R(x, a)})
        BY FS_Subset
      <4>2. Cardinality({x \in ids : R(x, a)}) \in Nat
        BY <4>1, FS_CardinalityType
      <4>3. PICK c \in Nat : c = Cardinality({x \in ids : R(x, a)})
        BY <4>2
      <4>4. ~(c < left)
        <5> HIDE DEF left
        <5> QED
          BY <3>3
      <4> HIDE DEF left
      <4> QED
        BY <4>3, <4>4
    <3>5. all[a] = base[a]
      <4> HIDE DEF F
      <4> QED
        BY <1>2, <3>4
    <3> QED
      BY <2>1, <3>1, <3>5
  <2>3. CASE pool < total
    <3>0. PICK x \in Nat \ {0}, y \in Nat, z \in Nat : x = w[a] /\ y = base[a] /\ z = rest[a]
      BY <2>1
    <3>1. x * pool < x * total
      BY <1>3, <2>3, MoreTimes
    <3>2. total * y < total * x
      <4>1. pool * x = total * y + z
        BY <2>1, <3>0
      <4>2. pool * x = x * pool /\ total * x = x * total
        BY <1>3
      <4>3. PICK g \in Int, h \in Int, l \in Int : g = total * y /\ h = x * pool /\ l = x * total
        BY <1>3
      <4> QED
        BY <3>1, <4>1, <4>2, <4>3
    <3>3. y < x
      BY <1>3, <3>2, LessProduct
    <3>4. all[a] = y \/ all[a] = y + 1
      <4> HIDE DEF F
      <4> QED
        BY <1>2, <3>0
    <3> QED
      BY <3>0, <3>3, <3>4
  <2> QED
    BY <1>3, <1>16, <2>2, <2>3
<1> QED
  BY <1>2, <1>14, <1>15, <1>16 DEF all, total

-----------------------------------------------------------------------------
(* The accounts *)

OrderSound(o) ==
  /\ DOMAIN o = OrderFields
  /\ o.by \in Traders /\ o.sym \in Symbols /\ o.side \in {"buy", "sell"}
  /\ o.lim \in 0..Highest /\ o.rem \in Nat \ {0} /\ o.cents \in Nat
  /\ o.tick \in Nat /\ o.ord \in Nat
  /\ o.side = "buy" => o.kind \in {"plain", "forced"} /\ o.shares = 0
  /\ o.side = "sell" => \/ o.kind = "short" /\ o.shares = 0
                        \/ o.kind = "plain" /\ o.cents = 0 /\ o.shares = o.rem

\* What an order holds: cents in escrow, cents of collateral, or shares.
Claim(o, k, t, s) ==
  IF k = "escrow" THEN IF o.by = t /\ o.kind # "short" THEN o.cents ELSE 0
  ELSE IF k = "pledge" THEN IF o.by = t /\ o.sym = s /\ o.kind = "short" THEN o.cents ELSE 0
  ELSE IF o.by = t /\ o.sym = s THEN o.shares ELSE 0
Claims(book, k, t, s) == SumOf([i \in DOMAIN book |-> Claim(book[i], k, t, s)])
ClaimKinds == {"escrow", "pledge", "shares"}

BookSound(book) ==
  /\ IsFiniteSet(DOMAIN book) /\ DOMAIN book \subseteq Nat
  /\ \A i \in DOMAIN book : OrderSound(book[i])

\* What a trader has put aside for the offerings it is interested in.
Stake(offer, t) ==
  IF offer.status = "announced" /\ t \in DOMAIN offer.ind
  THEN offer.ind[t][1] * offer.ind[t][2] ELSE 0
Interest(offers, t) == SumOf([s \in Symbols |-> Stake(offers[s], t)])

OfferSound(x) ==
  /\ x.offered \in Nat /\ DOMAIN x.ind \subseteq Traders
  /\ \A t \in DOMAIN x.ind : x.ind[t][1] \in Nat \ {0} /\ x.ind[t][2] \in Nat
OffersSound == \A s \in Symbols : OfferSound(ipo[s])

Positions ==
  [status : {"none", "open", "covered"}, qty : Nat, entry : Int, coll : Nat, opened : Nat,
   deadline : Int]
PositionSound(p) == p \in Positions /\ (p.status = "none" => p.qty = 0 /\ p.coll = 0)
PositionsSound ==
  /\ shorts = [t \in Traders |-> [s \in Symbols |-> shorts[t][s]]]
  /\ \A t \in Traders, s \in Symbols : PositionSound(shorts[t][s])

CoversSound == stage \in {"orders", "stp", "match"} => \A q \in todo : q[3] \in Nat \ {0}

AuctionSound ==
  /\ auction.left \in Nat
  /\ ~AuctionOver =>
       /\ stage = "fill"
       /\ auction.price \in Nat /\ InBand(auction.sym, auction.price)
       /\ auction.bids \subseteq BidsAt(auction.sym, auction.price)
       /\ auction.asks \subseteq AsksAt(auction.sym, auction.price)

SecSound ==
  /\ ord \in [Symbols -> Nat]
  /\ \A s \in Symbols : sec[s].out \in Nat /\ sec[s].ref \in Nat /\ sec[s].last \in Nat

\* Nothing is in escrow, pledged or reserved but for an order, an indication or a position.
Backed ==
  /\ esc \in [Traders -> Nat] /\ margin \in [Traders -> [Symbols -> Nat]]
  /\ \A t \in Traders : esc[t] = Claims(orders, "escrow", t, 0) + Interest(ipo, t)
  /\ \A t \in Traders, s \in Symbols :
       margin[t][s] = Claims(orders, "pledge", t, s) + shorts[t][s].coll

CashSound == cash \in [Owners -> Nat]

Holdings == [qty : Int, reserved : Nat, locked : Nat]
HoldingsSound ==
  /\ holding \in [Traders -> [Symbols -> Holdings]]
  /\ \A t \in Traders, s \in Symbols :
       holding[t][s].reserved = Claims(orders, "shares", t, s)

\* The shares of a symbol are where the register says.
SharesHeld == \A s \in Symbols : SumOf([t \in Traders |-> holding[t][s].qty]) = sec[s].out

CountersSound ==
  /\ tick \in 0..LastTick /\ inputs \in 0..MaxInputs
  /\ stage \in {"cancels", "orders", "stp", "match", "auction", "fill", "mark", "between",
                "raised"}

\* The accounts and what they are kept for.
Books ==
  /\ BookSound(orders) /\ ReservesExact /\ OffersSound /\ PositionsSound /\ SecSound
  /\ Backed /\ CashSound /\ HoldingsSound /\ SharesHeld

AInv == Books /\ CoversSound /\ AuctionSound /\ CountersSound

-----------------------------------------------------------------------------
(* What the orders of a book hold *)

\* What an order holds is never negative,
LEMMA ClaimIsNat ==
  ASSUME NEW o, OrderSound(o), NEW k \in ClaimKinds, NEW t, NEW s
  PROVE  Claim(o, k, t, s) \in Nat
<1>1. o.cents \in Nat /\ o.shares \in Nat
  BY DEF OrderSound
<1>2. CASE k = "escrow"
  BY <1>1, <1>2 DEF Claim
<1>3. CASE k = "pledge"
  BY <1>1, <1>3 DEF Claim
<1>4. CASE k = "shares"
  BY <1>1, <1>4 DEF Claim
<1> QED
  BY <1>2, <1>3, <1>4 DEF ClaimKinds

\* ... nor is what all of them hold.
LEMMA ClaimsAreNat ==
  ASSUME NEW book, BookSound(book), NEW k \in ClaimKinds, NEW t, NEW s
  PROVE  Claims(book, k, t, s) \in Nat
<1> DEFINE f == [i \in DOMAIN book |-> Claim(book[i], k, t, s)]
<1>1. IsFiniteSet(DOMAIN f) /\ \A i \in DOMAIN f : f[i] \in Nat
  BY ClaimIsNat DEF BookSound
<1>2. Claims(book, k, t, s) = SumOf(f)
  BY DEF Claims
<1> HIDE DEF f
<1> QED
  BY <1>1, <1>2, SumIsNat

\* What is left in the book claims what the cancelled orders did not; some of them held something.
LEMMA ClaimsReturned ==
  ASSUME NEW book, BookSound(book), NEW k \in ClaimKinds, NEW t, NEW s,
         NEW left, \A i \in DOMAIN left : i \in DOMAIN book /\ left[i] = book[i],
         NEW some,
         \A i \in DOMAIN some : /\ i \in DOMAIN book /\ i \notin DOMAIN left
                                /\ some[i] = Claim(book[i], k, t, s),
         \A i \in DOMAIN book : i \notin DOMAIN left /\ i \notin DOMAIN some
                               => Claim(book[i], k, t, s) = 0
  PROVE  /\ Claims(left, k, t, s) = Claims(book, k, t, s) - SumOf(some)
         /\ SumOf(some) \in Nat
<1> DEFINE f == [i \in DOMAIN book |-> Claim(book[i], k, t, s)]
           g == [i \in DOMAIN left |-> Claim(left[i], k, t, s)]
           S == DOMAIN book \ DOMAIN left
           out == Over(f, S)
<1>1. DOMAIN f = DOMAIN book /\ IsSummable(f) /\ \A i \in DOMAIN f : f[i] \in Nat
  BY ClaimIsNat DEF BookSound, IsSummable
<1>2. DOMAIN g = DOMAIN f \ S /\ \A i \in DOMAIN g : g[i] = f[i]
  OBVIOUS
<1>3. DOMAIN out = S /\ \A i \in S : out[i] = f[i] /\ out[i] = Claim(book[i], k, t, s)
  BY DEF Over
<1>4. Claims(book, k, t, s) = SumOf(f) /\ Claims(left, k, t, s) = SumOf(g)
  BY DEF Claims
<1>5. S \in SUBSET DOMAIN f
  BY <1>1
<1>11. DOMAIN some \in SUBSET S /\ \A i \in S \ DOMAIN some : Claim(book[i], k, t, s) = 0
  OBVIOUS
<1> HIDE DEF f, g, S
<1>6. /\ SumOf(f) = SumOf(out) + SumOf(Over(f, DOMAIN f \ S))
      /\ SumOf(out) \in Int /\ SumOf(Over(f, DOMAIN f \ S)) \in Int
  BY <1>1, <1>5, SumParts
<1>7. IsFiniteSet(S) /\ IsFiniteSet(DOMAIN f \ S)
  BY <1>1, <1>5, FS_Subset DEF IsSummable
<1>8. SumOf(g) = SumOf(Over(f, DOMAIN f \ S))
  <2>1. DOMAIN Over(f, DOMAIN f \ S) = DOMAIN f \ S /\ \A i \in DOMAIN f \ S : Over(f, DOMAIN f \ S)[i] = f[i]
    BY DEF Over
  <2> QED
    BY <1>2, <1>7, <2>1, SameSum
<1> HIDE DEF out
<1>9. IsSummable(out) /\ SumOf(out) \in Nat
  BY <1>1, <1>3, <1>5, <1>7, SumIsNat
<1>10. SumOf(some) = SumOf(out)
  <2>1. DOMAIN some \in SUBSET DOMAIN out /\ \A i \in DOMAIN out \ DOMAIN some : out[i] = 0
    BY <1>3, <1>11
  <2>2. SumOf(out) = SumOf(Over(out, DOMAIN some))
    BY <1>9, <2>1, SumFiltered
  <2>3. IsFiniteSet(DOMAIN some)
    BY <1>7, <1>11, FS_Subset
  <2>4. /\ DOMAIN Over(out, DOMAIN some) = DOMAIN some
        /\ \A i \in DOMAIN some : some[i] = Over(out, DOMAIN some)[i]
    BY <1>3, <1>11 DEF Over
  <2>5. SumOf(some) = SumOf(Over(out, DOMAIN some))
    BY <2>3, <2>4, SameSum
  <2> QED
    BY <2>2, <2>5
<1> QED
  BY <1>4, <1>6, <1>8, <1>9, <1>10

\* What is held when an order comes in.
LEMMA ClaimsEntered ==
  ASSUME NEW book, BookSound(book), NEW k \in ClaimKinds, NEW t, NEW s,
         NEW new, NEW n \in DOMAIN new, n \notin DOMAIN book, OrderSound(new[n]),
         \A i \in DOMAIN book : i \in DOMAIN new /\ new[i] = book[i],
         \A i \in DOMAIN new : i = n \/ i \in DOMAIN book
  PROVE  Claims(new, k, t, s) = Claims(book, k, t, s) + Claim(new[n], k, t, s)
<1> DEFINE f == [i \in DOMAIN book |-> Claim(book[i], k, t, s)]
           g == [i \in DOMAIN new |-> Claim(new[i], k, t, s)]
<1>1. DOMAIN f = DOMAIN book /\ IsSummable(f)
  BY ClaimIsNat DEF BookSound, IsSummable
<1>2. Claim(new[n], k, t, s) \in Nat
  BY ClaimIsNat
<1>3. n \notin DOMAIN f /\ DOMAIN g = DOMAIN f \cup {n}
      /\ g[n] = Claim(new[n], k, t, s) /\ \A i \in DOMAIN f : g[i] = f[i]
  OBVIOUS
<1>4. Claims(book, k, t, s) = SumOf(f) /\ Claims(new, k, t, s) = SumOf(g)
  BY DEF Claims
<1> HIDE DEF f, g
<1>5. g[n] \in Int
  BY <1>2, <1>3
<1>6. SumOf(g) = SumOf(f) + g[n]
  BY <1>1, <1>3, <1>5, SumAdded
<1> QED
  BY <1>3, <1>4, <1>6

\* Two orders change; those that are used up claim nothing and leave the book.
LEMMA ClaimsFilled ==
  ASSUME NEW book, BookSound(book), NEW k \in ClaimKinds, NEW t, NEW s,
         NEW b \in DOMAIN book, NEW a \in DOMAIN book, a # b,
         NEW mid, DOMAIN mid = DOMAIN book,
         \A i \in DOMAIN book : i # a /\ i # b => mid[i] = book[i],
         Claim(mid[a], k, t, s) \in Nat, Claim(mid[b], k, t, s) \in Nat,
         NEW new, DOMAIN new \subseteq DOMAIN book, \A i \in DOMAIN new : new[i] = mid[i],
         \A i \in DOMAIN book \ DOMAIN new : Claim(mid[i], k, t, s) = 0
  PROVE  Claims(new, k, t, s) =
           Claims(book, k, t, s) - Claim(book[b], k, t, s) + Claim(mid[b], k, t, s)
                                 - Claim(book[a], k, t, s) + Claim(mid[a], k, t, s)
<1> DEFINE f == [i \in DOMAIN book |-> Claim(book[i], k, t, s)]
           h == [i \in DOMAIN book |-> IF i = b THEN Claim(mid[b], k, t, s) ELSE Claim(book[i], k, t, s)]
           e == [i \in DOMAIN book |-> Claim(mid[i], k, t, s)]
           g == [i \in DOMAIN new |-> Claim(new[i], k, t, s)]
<1>1. DOMAIN f = DOMAIN book /\ IsSummable(f) /\ \A i \in DOMAIN book : f[i] \in Nat
  BY ClaimIsNat DEF BookSound, IsSummable
<1>2. /\ DOMAIN h = DOMAIN f /\ h[b] = Claim(mid[b], k, t, s) /\ h[b] \in Int
      /\ \A i \in DOMAIN f \ {b} : h[i] = f[i]
  OBVIOUS
<1>3. /\ DOMAIN e = DOMAIN h /\ e[a] = Claim(mid[a], k, t, s) /\ e[a] \in Int /\ h[a] = f[a]
      /\ \A i \in DOMAIN h \ {a} : e[i] = h[i]
  OBVIOUS
<1>4. /\ DOMAIN g \in SUBSET DOMAIN e /\ \A i \in DOMAIN g : g[i] = e[i]
      /\ \A i \in DOMAIN e \ DOMAIN g : e[i] = 0
  OBVIOUS
<1>5. Claims(book, k, t, s) = SumOf(f) /\ Claims(new, k, t, s) = SumOf(g)
  BY DEF Claims
<1>6. f[b] = Claim(book[b], k, t, s) /\ f[a] = Claim(book[a], k, t, s)
  OBVIOUS
<1>20. a \in DOMAIN f /\ b \in DOMAIN f
  OBVIOUS
<1> HIDE DEF f, g, h, e
<1>7. IsSummable(h)
  BY <1>1, <1>2 DEF IsSummable
<1>8. IsSummable(e)
  BY <1>3, <1>7 DEF IsSummable
<1>9. SumOf(h) = SumOf(f) - f[b] + h[b]
  BY <1>1, <1>2, <1>20, SumChanged
<1>10. SumOf(e) = SumOf(h) - h[a] + e[a]
  BY <1>2, <1>3, <1>7, <1>20, SumChanged
<1>11. SumOf(e) = SumOf(Over(e, DOMAIN g))
  BY <1>4, <1>8, SumFiltered
<1>12. SumOf(g) = SumOf(Over(e, DOMAIN g))
  <2>1. IsFiniteSet(DOMAIN g)
    BY <1>4, <1>8, FS_Subset DEF IsSummable
  <2>2. DOMAIN Over(e, DOMAIN g) = DOMAIN g /\ \A i \in DOMAIN g : Over(e, DOMAIN g)[i] = e[i]
    BY DEF Over
  <2> QED
    BY <1>4, <2>1, <2>2, SameSum
<1>13. SumOf(f) \in Int /\ f[a] \in Int /\ f[b] \in Int
  BY <1>1, <1>20, SumIsInt
<1> QED
  BY <1>2, <1>3, <1>5, <1>6, <1>9, <1>10, <1>11, <1>12, <1>13

\* A sum over the orders that hold something is a sum over all orders.
LEMMA ClaimsOfSome ==
  ASSUME NEW book, BookSound(book), NEW k \in ClaimKinds, NEW t, NEW s,
         NEW some, DOMAIN some \in SUBSET DOMAIN book,
         \A i \in DOMAIN some : some[i] = Claim(book[i], k, t, s),
         \A i \in DOMAIN book \ DOMAIN some : Claim(book[i], k, t, s) = 0
  PROVE  SumOf(some) = Claims(book, k, t, s)
<1> DEFINE f == [i \in DOMAIN book |-> Claim(book[i], k, t, s)]
<1>1. DOMAIN f = DOMAIN book /\ IsSummable(f)
  BY ClaimIsNat DEF BookSound, IsSummable
<1>2. /\ DOMAIN some \in SUBSET DOMAIN f /\ \A i \in DOMAIN some : some[i] = f[i]
      /\ \A i \in DOMAIN f \ DOMAIN some : f[i] = 0
  OBVIOUS
<1>3. Claims(book, k, t, s) = SumOf(f)
  BY DEF Claims
<1> HIDE DEF f
<1>4. SumOf(f) = SumOf(Over(f, DOMAIN some))
  BY <1>1, <1>2, SumFiltered
<1>5. IsFiniteSet(DOMAIN some)
  BY <1>1, <1>2, FS_Subset DEF IsSummable
<1>6. DOMAIN Over(f, DOMAIN some) = DOMAIN some /\ \A i \in DOMAIN some : Over(f, DOMAIN some)[i] = f[i]
  BY DEF Over
<1>7. SumOf(some) = SumOf(Over(f, DOMAIN some))
  BY <1>2, <1>5, <1>6, SameSum
<1> QED
  BY <1>3, <1>4, <1>7

-----------------------------------------------------------------------------
(* Commissions and reservations *)

\* bp_ceil is the least number of cents that is not below the part.
LEMMA CeilIs ==
  ASSUME NEW n \in Nat, NEW r \in Nat
  PROVE  /\ bp_ceil(n, r) \in Nat
         /\ 10000 * bp_ceil(n, r) >= n * r
         /\ 10000 * bp_ceil(n, r) < n * r + 10000
<1>1. PICK m \in Nat : m = n * r
  OBVIOUS
<1>2. bp_ceil(n, r) = -((-m) \div 10000)
  BY <1>1 DEF bp_ceil
<1> QED
  BY <1>1, <1>2

\* _bp_ceil of natural numbers,
LEMMA CeilIsNat == \A n, r \in Nat : bp_ceil(n, r) \in Nat
BY CeilIs

\* ... is the least that covers the rate,
LEMMA CeilBounds ==
  ASSUME NEW n \in Nat, NEW r \in Nat, NEW c \in Int, n * r <= 10000 * c
  PROVE  bp_ceil(n, r) <= c
<1>1. PICK m \in Nat : m = n * r
  OBVIOUS
<1> QED
  BY <1>1, CeilIs

\* A product grows with its factor.
LEMMA TimesMore ==
  ASSUME NEW k \in Nat, NEW x \in Int, NEW y \in Int, x <= y
  PROVE  k * x <= k * y
OBVIOUS

\* No part of at most the whole is more than the whole.
LEMMA CeilOfPart ==
  ASSUME NEW n \in Nat, NEW r \in Nat, r <= 10000
  PROVE  bp_ceil(n, r) <= n
<1>1. n * r <= n * 10000
  BY TimesMore
<1>2. n * 10000 = 10000 * n
  OBVIOUS
<1> QED
  BY <1>1, <1>2, CeilBounds

\* The part of a price for several shares is no more than the parts of a higher price for each.
LEMMA CeilOfShares ==
  ASSUME NEW q \in Nat, NEW x \in Nat, NEW p \in Nat, x <= p, NEW r \in Nat
  PROVE  bp_ceil(x * q, r) <= q * bp_ceil(p, r)
<1>0. bp_ceil(p, r) \in Nat /\ 10000 * bp_ceil(p, r) >= p * r
  BY CeilIs
<1>1. PICK c \in Nat : c = bp_ceil(p, r) /\ 10000 * c >= p * r
  BY <1>0
<1>2. x * r <= p * r
  <2>1. r * x <= r * p
    BY TimesMore
  <2> QED
    BY <2>1
<1>3. x * r <= 10000 * c /\ x * r \in Int
  <2>1. PICK y \in Int : y = x * r
    OBVIOUS
  <2>2. PICK z \in Int : z = p * r
    OBVIOUS
  <2> QED
    BY <1>1, <1>2, <2>1, <2>2
<1>4. q * (x * r) <= q * (10000 * c)
  <2>1. PICK y \in Int : y = x * r
    BY <1>3
  <2>2. PICK z \in Int : z = 10000 * c
    OBVIOUS
  <2> QED
    BY <1>3, <2>1, <2>2, TimesMore
<1>5. (x * q) * r = q * (x * r) /\ q * (10000 * c) = 10000 * (q * c)
  OBVIOUS
<1>6. (x * q) * r <= 10000 * (q * c) /\ x * q \in Nat /\ q * c \in Int
  BY <1>4, <1>5
<1> QED
  BY <1>1, <1>6, CeilBounds

TickSize == Settings.tick_size_cents
RateBp == Settings.commission_bp
FloorCents == Settings.commission_floor_cents

\* What the settings of the commission are (settings.py:577-581).
LEMMA CommissionSettings ==
  /\ RateBp \in Nat /\ RateBp <= 10000
  /\ FloorCents \in Nat /\ TickSize \in Nat \ {0} /\ FloorCents <= TickSize
<1>1. RateBp \in 0..10000
  BY SettingsAssumption DEF RateBp
<1>2. FloorCents \in Nat
  BY SettingsAssumption DEF FloorCents
<1>3. TickSize \in Nat \ {0}
  BY SettingsAssumption DEF TickSize
<1>4. FloorCents <= TickSize
  BY SettingsAssumption DEF TickSize, FloorCents
<1> QED
  BY <1>1, <1>2, <1>3, <1>4

\* A commission is never negative.
LEMMA CommissionIsNat ==
  ASSUME NEW n \in Nat
  PROVE  Commission(n) \in Nat
<1>1. PICK f \in Nat : f = FloorCents
  BY CommissionSettings
<1>2. PICK r \in Nat : r = RateBp
  BY CommissionSettings
<1>3. PICK c \in Nat : c = bp_ceil(n, r)
  BY CeilIs
<1> QED
  BY <1>1, <1>2, <1>3 DEF Commission, RateBp, FloorCents

\* The commission on a fill of several shares is no more than on each of them at a higher price.
LEMMA CommissionOfShares ==
  ASSUME NEW q \in Nat \ {0}, NEW x \in Nat, NEW p \in Nat, x <= p
  PROVE  Commission(x * q) <= q * Commission(p)
<1>1. PICK r \in Nat : r = RateBp
  BY CommissionSettings
<1>2. PICK f \in Nat : f = FloorCents
  BY CommissionSettings
<1>3. PICK c \in Nat : c = bp_ceil(p, r)
  BY CeilIs
<1>4. PICK d \in Nat : d = bp_ceil(x * q, r)
  <2>1. x * q \in Nat
    OBVIOUS
  <2> QED
    BY <2>1, CeilIs
<1>5. d <= q * c
  BY <1>3, <1>4, CeilOfShares
<1>6. CASE r = 0
  <2>1. Commission(x * q) = 0 /\ Commission(p) = 0
    BY <1>1, <1>6 DEF Commission, RateBp, FloorCents
  <2> QED
    BY <2>1
<1>7. CASE r # 0
  <2>1. Commission(x * q) = IF d > f THEN d ELSE f
    BY <1>1, <1>2, <1>4, <1>7 DEF Commission, RateBp, FloorCents
  <2>2. Commission(p) = IF c > f THEN c ELSE f
    BY <1>1, <1>2, <1>3, <1>7 DEF Commission, RateBp, FloorCents
  <2>3. PICK e \in Nat : e = Commission(p) /\ c <= e /\ f <= e
    BY <2>2
  <2>4. q * c <= q * e /\ q * f <= q * e
    BY <2>3, TimesMore
  <2>5. f <= q * f
    <3>1. f * 1 <= f * q
      BY TimesMore
    <3> QED
      BY <3>1
  <2>6. q * c \in Int /\ q * f \in Int /\ q * e \in Int
    OBVIOUS
  <2> QED
    BY <1>5, <2>1, <2>3, <2>4, <2>5, <2>6
<1> QED
  BY <1>6, <1>7

\* A fill is never worth less than its commission.
LEMMA CommissionOfFill ==
  ASSUME NEW q \in Nat \ {0}, NEW x \in Nat, x >= TickSize
  PROVE  Commission(x * q) <= x * q
<1>1. PICK r \in Nat : r = RateBp /\ r <= 10000
  BY CommissionSettings
<1>2. PICK f \in Nat : f = FloorCents /\ f <= x
  BY CommissionSettings
<1>3. PICK n \in Nat : n = x * q
  OBVIOUS
<1>4. bp_ceil(n, r) <= n /\ bp_ceil(n, r) \in Nat
  <2>1. bp_ceil(n, r) \in Nat
    BY CeilIsNat
  <2> QED
    BY <1>1, <2>1, CeilOfPart
<1>5. x <= n
  <2>1. x * 1 <= x * q
    BY TimesMore
  <2> QED
    BY <1>3, <2>1
<1> QED
  BY <1>1, <1>2, <1>3, <1>4, <1>5 DEF Commission, RateBp, FloorCents

\* _reserve_required is linear in the quantity.
LEMMA ReserveIs ==
  ASSUME NEW q \in Nat, NEW p \in Nat
  PROVE  ReserveRequired(q, p) = q * (p + Commission(p)) /\ ReserveRequired(q, p) \in Nat
<1>1. PICK c \in Nat : c = Commission(p)
  BY CommissionIsNat
<1> QED
  BY <1>1 DEF ReserveRequired

\* What a buy order has reserved for the shares of a fill is enough for it.
LEMMA ReserveCovers ==
  ASSUME NEW q \in Nat \ {0}, NEW rem \in Nat, q <= rem, NEW x \in Nat, NEW p \in Nat, x <= p
  PROVE  x * q + Commission(x * q) + ReserveRequired(rem - q, p) <= rem * (p + Commission(p))
<1>1. PICK c \in Nat : c = Commission(p)
  BY CommissionIsNat
<1>2. PICK d \in Nat : d = Commission(x * q) /\ d <= q * c
  <2>1. x * q \in Nat
    OBVIOUS
  <2> QED
    BY <1>1, <2>1, CommissionIsNat, CommissionOfShares
<1>3. ReserveRequired(rem - q, p) = (rem - q) * (p + c)
  BY <1>1, ReserveIs
<1>4. x * q <= q * p
  <2>1. q * x <= q * p
    BY TimesMore
  <2> QED
    BY <2>1
<1>5. q * (p + c) = q * p + q * c /\ rem * (p + c) = (rem - q) * (p + c) + q * (p + c)
  OBVIOUS
<1>6. {x * q, q * p, q * c, (rem - q) * (p + c), q * (p + c)} \subseteq Int
  OBVIOUS
<1> QED
  BY <1>1, <1>2, <1>3, <1>4, <1>5, <1>6

\* A part m/n of an amount.
LEMMA PartOf ==
  ASSUME NEW x \in Nat, NEW n \in Nat \ {0}, NEW m \in 0..n
  PROVE  /\ (x * m) \div n \in 0..x
         /\ (x * n) \div n = x /\ (x * 0) \div n = 0
<1>1. x * m \in Nat /\ x * m <= x * n
  BY TimesMore
<1>2. PICK y \in Nat : y = x * m
  BY <1>1
<1>3. PICK d \in Nat : d = y \div n
  OBVIOUS
<1>4. n * d <= y
  BY <1>3
<1>5. d <= x
  <2> SUFFICES ASSUME d >= x + 1 PROVE FALSE
    OBVIOUS
  <2>1. n * d >= n * (x + 1)
    BY TimesMore
  <2>2. n * (x + 1) = x * n + n
    OBVIOUS
  <2>3. n * d \in Int /\ x * n \in Int /\ n * (x + 1) \in Int
    OBVIOUS
  <2> QED
    BY <1>1, <1>2, <1>4, <2>1, <2>2, <2>3
<1>6. (x * n) \div n = x
  OBVIOUS
<1>7. (x * 0) \div n = 0
  OBVIOUS
<1> QED
  BY <1>2, <1>3, <1>5, <1>6, <1>7

-----------------------------------------------------------------------------
(* The orders of a fill *)

\* The band of a symbol lies above zero.
LEMMA BandIs ==
  ASSUME NEW s, sec[s].ref \in Nat
  PROVE  /\ Band(s)[1] \in Nat /\ Band(s)[2] \in Nat
         /\ TickSize <= Band(s)[1] /\ TickSize <= Band(s)[2]
<1>1. PICK w \in Nat : w = Settings.band_bp
  BY SettingsAssumption
<1>2. PICK k \in Nat : k = TickSize
  BY CommissionSettings
<1>3. PICK x \in Int : x = (sec[s].ref * (10000 + (-w))) \div 10000
  OBVIOUS
<1>4. PICK y \in Int : y = (sec[s].ref * (10000 + w)) \div 10000
  OBVIOUS
<1>5. Band(s) = << IF x > k THEN x ELSE k, IF y > k THEN y ELSE k >>
  BY <1>1, <1>2, <1>3, <1>4 DEF Band, TickSize
<1> QED
  BY <1>2, <1>5

\* The price a reservation is made at.
LEMMA ReservePriceIsNat ==
  ASSUME NEW s, sec[s].ref \in Nat, NEW lim \in Nat
  PROVE  ReservePrice(s, lim) \in Nat
BY BandIs DEF ReservePrice

\* The two orders of a fill may trade, at a price the buyer has reserved.
CanFill(b, a, price, qty) ==
  /\ b \in DOMAIN orders /\ a \in DOMAIN orders
  /\ orders[b].side = "buy" /\ orders[a].side = "sell" /\ orders[a].sym = orders[b].sym
  /\ orders[b].by # orders[a].by
  /\ price \in Nat /\ TickSize <= price
  /\ price <= ReservePrice(orders[b].sym, orders[b].lim)
  /\ qty \in Nat \ {0} /\ qty <= orders[b].rem /\ qty <= orders[a].rem

\* A buy order after a fill.
LEMMA FilledBuyIs ==
  ASSUME NEW o, OrderSound(o), o.side = "buy", sec[o.sym].ref \in Nat,
         NEW qty \in Nat, qty <= o.rem
  PROVE  LET n == FilledBuy(o, qty)
         IN  /\ DOMAIN n = OrderFields
             /\ n.by = o.by /\ n.sym = o.sym /\ n.side = o.side /\ n.lim = o.lim
             /\ n.kind = o.kind /\ n.shares = o.shares /\ n.tick = o.tick /\ n.ord = o.ord
             /\ n.rem = o.rem - qty /\ n.rem \in Nat
             /\ n.cents = ReserveRequired(o.rem - qty, ReservePrice(o.sym, o.lim))
             /\ n.cents \in Nat /\ (n.rem = 0 => n.cents = 0)
<1>1. DOMAIN o = OrderFields /\ o.rem \in Nat /\ o.lim \in Nat
  BY DEF OrderSound
<1>2. PICK p \in Nat : p = ReservePrice(o.sym, o.lim)
  BY <1>1, ReservePriceIsNat
<1>3. PICK c \in Nat : c = ReserveRequired(o.rem - qty, p)
  <2>1. o.rem - qty \in Nat
    BY <1>1
  <2> QED
    BY <2>1, ReserveIs
<1>4. FilledBuy(o, qty) = [o EXCEPT !.rem = o.rem - qty, !.cents = c]
  BY <1>1, <1>2, <1>3 DEF FilledBuy
<1>5. o.rem - qty = 0 => c = 0
  BY <1>3 DEF ReserveRequired
<1>6. o.rem - qty \in Nat
  BY <1>1
<1> QED
  BY <1>1, <1>2, <1>3, <1>4, <1>5, <1>6 DEF OrderFields

\* A fill takes a part of the collateral of a short order, the last fill the rest.
LEMMA CollateralIs ==
  ASSUME NEW o, OrderSound(o), NEW qty \in Nat, qty <= o.rem
  PROVE  /\ Collateral(o, qty) \in 0..o.cents
         /\ o.kind = "short" /\ qty = o.rem => Collateral(o, qty) = o.cents
         /\ o.kind # "short" => Collateral(o, qty) = 0
<1>1. PICK r \in Nat \ {0} : r = o.rem
  BY DEF OrderSound
<1>2. PICK c \in Nat : c = o.cents
  BY DEF OrderSound
<1>3. CASE o.kind = "short"
  <2>1. Collateral(o, qty) = (c * qty) \div r
    BY <1>1, <1>2, <1>3 DEF Collateral
  <2>2. qty \in 0..r
    BY <1>1
  <2>3. (c * qty) \div r \in 0..c /\ (c * r) \div r = c
    BY <1>1, <2>2, PartOf
  <2> QED
    BY <1>1, <1>2, <1>3, <2>1, <2>3
<1>4. CASE o.kind # "short"
  BY <1>2, <1>4 DEF Collateral
<1> QED
  BY <1>3, <1>4

\* A sell order after a fill.
LEMMA FilledSellIs ==
  ASSUME NEW o, OrderSound(o), o.side = "sell", NEW qty \in Nat, qty <= o.rem
  PROVE  LET n == FilledSell(o, qty)
         IN  /\ DOMAIN n = OrderFields
             /\ n.by = o.by /\ n.sym = o.sym /\ n.side = o.side /\ n.lim = o.lim
             /\ n.kind = o.kind /\ n.tick = o.tick /\ n.ord = o.ord
             /\ n.rem = o.rem - qty /\ n.rem \in Nat
             /\ n.cents = o.cents - Collateral(o, qty) /\ n.cents \in Nat
             /\ n.shares = (IF o.kind = "short" THEN 0 ELSE o.rem - qty)
             /\ n.rem = 0 => n.cents = 0 /\ n.shares = 0
<1>1. /\ DOMAIN o = OrderFields /\ o.rem \in Nat /\ o.cents \in Nat
      /\ o.kind = "short" => o.shares = 0
      /\ o.kind # "short" => o.shares = o.rem /\ o.cents = 0
  BY DEF OrderSound
<1>2. PICK c \in Nat : c = Collateral(o, qty) /\ c <= o.cents
                       /\ (o.kind = "short" /\ qty = o.rem => c = o.cents)
                       /\ (o.kind # "short" => c = 0)
  <2>1. Collateral(o, qty) \in 0..o.cents
    BY CollateralIs
  <2>2. \A c \in 0..o.cents : c \in Nat /\ c <= o.cents
    BY <1>1
  <2> QED
    BY <2>1, <2>2, CollateralIs
<1>3. PICK z : z = IF o.kind = "short" THEN o.shares ELSE o.shares - qty
  OBVIOUS
<1>4. FilledSell(o, qty) = [o EXCEPT !.rem = o.rem - qty, !.cents = o.cents - c, !.shares = z]
  BY <1>1, <1>2, <1>3 DEF FilledSell
<1>5. o.rem - qty \in Nat /\ o.cents - c \in Nat
  BY <1>1, <1>2
<1>6. z = (IF o.kind = "short" THEN 0 ELSE o.rem - qty)
  BY <1>1, <1>3
<1>7. o.rem - qty = 0 => o.cents - c = 0 /\ z = 0
  BY <1>1, <1>2, <1>6
<1>8. PICK n : n = FilledSell(o, qty)
  OBVIOUS
<1>9. /\ DOMAIN n = OrderFields
      /\ n.by = o.by /\ n.sym = o.sym /\ n.side = o.side /\ n.lim = o.lim
      /\ n.kind = o.kind /\ n.tick = o.tick /\ n.ord = o.ord
      /\ n.rem = o.rem - qty /\ n.cents = o.cents - c /\ n.shares = z
  BY <1>1, <1>4, <1>8 DEF OrderFields
<1>10. /\ n.rem \in Nat /\ n.cents \in Nat
       /\ n.rem = 0 => n.cents = 0 /\ n.shares = 0
  BY <1>5, <1>7, <1>9
<1> QED
  BY <1>2, <1>6, <1>8, <1>9, <1>10

\* The book after a fill.
FilledBook(b, a, qty) ==
  [i \in {j \in DOMAIN orders : Filled(b, a, qty, j).rem > 0} |-> Filled(b, a, qty, i)]

\* An order of the book after a fill.
LEMMA FilledIs ==
  ASSUME BookSound(orders), SecSound, NEW b, NEW a, NEW price, NEW qty, CanFill(b, a, price, qty),
         NEW i \in DOMAIN orders
  PROVE  LET o == orders[i]   n == Filled(b, a, qty, i)
         IN  /\ DOMAIN n = OrderFields
             /\ n.by = o.by /\ n.sym = o.sym /\ n.side = o.side /\ n.lim = o.lim
             /\ n.kind = o.kind /\ n.tick = o.tick /\ n.ord = o.ord
             /\ n.rem = (IF i \in {a, b} THEN o.rem - qty ELSE o.rem) /\ n.rem \in Nat
             /\ n.cents = (IF i = b THEN ReserveRequired(o.rem - qty, ReservePrice(o.sym, o.lim))
                           ELSE IF i = a THEN o.cents - Collateral(o, qty) ELSE o.cents)
             /\ n.cents \in Nat
             /\ n.shares = (IF i = a /\ o.kind # "short" THEN o.rem - qty ELSE o.shares)
             /\ n.rem = 0 => n.cents = 0 /\ n.shares = 0
<1>1. OrderSound(orders[i]) /\ orders[i].sym \in Symbols
  BY DEF BookSound, OrderSound
<1>2. a # b /\ qty \in Nat
  BY DEF CanFill
<1>3. CASE i = b
  <2>1. /\ Filled(b, a, qty, i) = FilledBuy(orders[i], qty) /\ orders[i].side = "buy"
        /\ qty <= orders[i].rem /\ sec[orders[i].sym].ref \in Nat
    BY <1>1, <1>3 DEF Filled, CanFill, SecSound
  <2>2. orders[i].shares = 0
    BY <1>1, <2>1 DEF OrderSound
  <2>3. PICK n : n = FilledBuy(orders[i], qty)
    OBVIOUS
  <2>4. /\ DOMAIN n = OrderFields
        /\ n.by = orders[i].by /\ n.sym = orders[i].sym /\ n.side = orders[i].side
        /\ n.lim = orders[i].lim
        /\ n.kind = orders[i].kind /\ n.shares = orders[i].shares
        /\ n.tick = orders[i].tick /\ n.ord = orders[i].ord
        /\ n.rem = orders[i].rem - qty /\ n.rem \in Nat
        /\ n.cents = ReserveRequired(orders[i].rem - qty, ReservePrice(orders[i].sym, orders[i].lim))
        /\ n.cents \in Nat /\ (n.rem = 0 => n.cents = 0)
    BY <1>1, <1>2, <2>1, <2>3, FilledBuyIs
  <2> QED
    BY <1>2, <1>3, <2>1, <2>2, <2>3, <2>4
<1>4. CASE i = a
  <2>1. /\ Filled(b, a, qty, i) = FilledSell(orders[i], qty) /\ orders[i].side = "sell"
        /\ qty <= orders[i].rem
    BY <1>2, <1>4 DEF Filled, CanFill
  <2>2. orders[i].kind = "short" => orders[i].shares = 0
    BY <1>1, <2>1 DEF OrderSound
  <2>3. PICK n : n = FilledSell(orders[i], qty)
    OBVIOUS
  <2>4. /\ DOMAIN n = OrderFields
        /\ n.by = orders[i].by /\ n.sym = orders[i].sym /\ n.side = orders[i].side
        /\ n.lim = orders[i].lim /\ n.kind = orders[i].kind
        /\ n.tick = orders[i].tick /\ n.ord = orders[i].ord
        /\ n.rem = orders[i].rem - qty /\ n.rem \in Nat
        /\ n.cents = orders[i].cents - Collateral(orders[i], qty) /\ n.cents \in Nat
        /\ n.shares = (IF orders[i].kind = "short" THEN 0 ELSE orders[i].rem - qty)
        /\ n.rem = 0 => n.cents = 0 /\ n.shares = 0
    BY <1>1, <1>2, <2>1, <2>3, FilledSellIs
  <2> QED
    BY <1>2, <1>4, <2>1, <2>2, <2>3, <2>4
<1>5. CASE i # a /\ i # b
  <2>1. Filled(b, a, qty, i) = orders[i]
    BY <1>5 DEF Filled
  <2> QED
    BY <1>1, <1>5, <2>1 DEF OrderSound
<1> QED
  BY <1>3, <1>4, <1>5

\* The book after a fill.
LEMMA FilledSound ==
  ASSUME BookSound(orders), SecSound, NEW b, NEW a, NEW price, NEW qty, CanFill(b, a, price, qty)
  PROVE  BookSound(FilledBook(b, a, qty))
<1> DEFINE new == FilledBook(b, a, qty)
<1>1. /\ DOMAIN new = {j \in DOMAIN orders : Filled(b, a, qty, j).rem > 0}
      /\ \A i \in DOMAIN new : new[i] = Filled(b, a, qty, i)
  BY DEF FilledBook
<1> HIDE DEF new
<1>2. IsFiniteSet(DOMAIN new) /\ DOMAIN new \subseteq Nat
  BY <1>1, FS_Subset DEF BookSound
<1>3. ASSUME NEW i \in DOMAIN new
      PROVE  OrderSound(new[i])
  <2>1. i \in DOMAIN orders /\ new[i] = Filled(b, a, qty, i) /\ Filled(b, a, qty, i).rem > 0
    BY <1>1
  <2>2. OrderSound(orders[i])
    BY <2>1 DEF BookSound
  <2>3. PICK o : o = orders[i]
    OBVIOUS
  <2>4. PICK n : n = new[i]
    OBVIOUS
  <2>5. /\ DOMAIN n = OrderFields
        /\ n.by = o.by /\ n.sym = o.sym /\ n.side = o.side /\ n.lim = o.lim
        /\ n.kind = o.kind /\ n.tick = o.tick /\ n.ord = o.ord
        /\ n.rem = (IF i \in {a, b} THEN o.rem - qty ELSE o.rem) /\ n.rem \in Nat
        /\ n.cents \in Nat
        /\ i = a => n.cents = o.cents - Collateral(o, qty)
        /\ i # a /\ i # b => n.cents = o.cents
        /\ n.shares = (IF i = a /\ o.kind # "short" THEN o.rem - qty ELSE o.shares)
        /\ n.rem > 0
    <3>1. a # b
      BY DEF CanFill
    <3> QED
      BY <2>1, <2>3, <2>4, <3>1, FilledIs
  <2>6. n.rem \in Nat \ {0}
    BY <2>5
  <2>7. i \in {a, b} => qty \in Nat /\ qty <= o.rem
    BY <2>3 DEF CanFill
  <2>8. i = b => o.side = "buy"
    BY <2>3 DEF CanFill
  <2>9. i = a => o.side = "sell"
    BY <2>3 DEF CanFill
  <2>10. o.side = "buy" => o.kind \in {"plain", "forced"} /\ n.shares = 0
    BY <2>2, <2>3, <2>5, <2>9 DEF OrderSound
  <2>11. o.side = "sell" => \/ o.kind = "short" /\ n.shares = 0
                            \/ o.kind = "plain" /\ n.cents = 0 /\ n.shares = n.rem
    <3>1. o.side = "sell" => \/ o.kind = "short" /\ o.shares = 0
                             \/ o.kind = "plain" /\ o.cents = 0 /\ o.shares = o.rem
      BY <2>2, <2>3 DEF OrderSound
    <3>2. i = a /\ o.kind # "short" => Collateral(o, qty) = 0
      BY <2>2, <2>3, <2>7, CollateralIs
    <3> QED
      BY <2>5, <2>7, <2>8, <3>1, <3>2
  <2>12. o.by \in Traders /\ o.sym \in Symbols /\ o.side \in {"buy", "sell"} /\ o.lim \in 0..Highest
         /\ o.tick \in Nat /\ o.ord \in Nat
    BY <2>2, <2>3 DEF OrderSound
  <2>13. OrderSound(n)
    BY <2>5, <2>6, <2>10, <2>11, <2>12 DEF OrderSound
  <2> QED
    BY <2>4, <2>13
<1>4. BookSound(new)
  BY <1>2, <1>3 DEF BookSound
<1> QED
  BY <1>4 DEF new

\* What the orders hold after a fill.
LEMMA FilledClaims ==
  ASSUME BookSound(orders), SecSound, NEW b, NEW a, NEW price, NEW qty, CanFill(b, a, price, qty),
         NEW k \in ClaimKinds, NEW t, NEW s
  PROVE  Claims(FilledBook(b, a, qty), k, t, s) =
           Claims(orders, k, t, s)
             - Claim(orders[b], k, t, s) + Claim(Filled(b, a, qty, b), k, t, s)
             - Claim(orders[a], k, t, s) + Claim(Filled(b, a, qty, a), k, t, s)
<1> DEFINE new == FilledBook(b, a, qty)
           mid == [i \in DOMAIN orders |-> Filled(b, a, qty, i)]
<1>1. /\ DOMAIN new = {j \in DOMAIN orders : Filled(b, a, qty, j).rem > 0}
      /\ \A i \in DOMAIN new : new[i] = mid[i]
  BY DEF FilledBook
<1>2. a \in DOMAIN orders /\ b \in DOMAIN orders /\ a # b
  BY DEF CanFill
<1>3. \A i \in DOMAIN orders : i # a /\ i # b => mid[i] = orders[i]
  BY DEF Filled
<1>4. \A i \in DOMAIN orders : mid[i] = Filled(b, a, qty, i)
  OBVIOUS
<1>5. ASSUME NEW i \in DOMAIN orders
      PROVE  /\ Claim(mid[i], k, t, s) \in Nat
             /\ i \notin DOMAIN new => Claim(mid[i], k, t, s) = 0
  <2>1. PICK n : n = mid[i] /\ n = Filled(b, a, qty, i)
    BY <1>4
  <2>2. n.cents \in Nat /\ n.rem \in Nat /\ (n.rem = 0 => n.cents = 0 /\ n.shares = 0)
    BY <2>1, FilledIs
  <2>3. n.shares \in Nat
    <3>1. n.shares = (IF i = a /\ orders[i].kind # "short" THEN orders[i].rem - qty ELSE orders[i].shares)
      BY <2>1, FilledIs
    <3>2. orders[i].shares \in Nat /\ orders[i].rem \in Nat
      BY DEF BookSound, OrderSound
    <3>3. i = a => orders[i].rem - qty \in Nat
      BY <3>2 DEF CanFill
    <3> QED
      BY <3>1, <3>2, <3>3
  <2>4. i \notin DOMAIN new => n.rem = 0
    BY <1>1, <2>1, <2>2
  <2>5. Claim(n, k, t, s) \in {0, n.cents, n.shares}
    BY DEF Claim, ClaimKinds
  <2>6. Claim(n, k, t, s) \in Nat
    BY <2>2, <2>3, <2>5
  <2>7. i \notin DOMAIN new => Claim(n, k, t, s) = 0
    BY <2>2, <2>4, <2>5
  <2> QED
    BY <2>1, <2>6, <2>7
<1>6. DOMAIN mid = DOMAIN orders /\ DOMAIN new \subseteq DOMAIN orders
  BY <1>1
<1> HIDE DEF mid, new
<1>7. Claims(new, k, t, s) =
           Claims(orders, k, t, s) - Claim(orders[b], k, t, s) + Claim(mid[b], k, t, s)
                                 - Claim(orders[a], k, t, s) + Claim(mid[a], k, t, s)
  BY <1>1, <1>2, <1>3, <1>5, <1>6, ClaimsFilled
<1> QED
  BY <1>2, <1>4, <1>7 DEF new

-----------------------------------------------------------------------------
(* Short positions *)

\* The average entry price of a position.
LEMMA AverageIsInt ==
  ASSUME NEW e \in Int, NEW p \in Nat, NEW x \in Nat, NEW q \in Nat \ {0}
  PROVE  (e * p + x * q) \div (p + q) \in Int
<1>1. PICK m \in Int : m = e * p + x * q
  OBVIOUS
<1>2. PICK n \in Nat \ {0} : n = p + q
  OBVIOUS
<1>3. m \div n \in Int
  OBVIOUS
<1> QED
  BY <1>1, <1>2, <1>3

\* _record_short adds collateral,
LEMMA ShortedIs ==
  ASSUME NEW p, PositionSound(p), tick \in Nat, NEW qty \in Nat \ {0}, NEW price \in Nat,
         NEW coll \in Nat
  PROVE  /\ PositionSound(Shorted(p, qty, price, coll))
         /\ Shorted(p, qty, price, coll).coll = p.coll + coll
<1>1. CASE p.status = "none"
  BY <1>1 DEF PositionSound, Positions, Shorted
<1>2. CASE p.status # "none"
  <2>1. /\ p.entry \in Int /\ p.qty \in Nat /\ p.coll \in Nat /\ p.opened \in Nat
        /\ p.deadline \in Int /\ p.status \in {"open", "covered"}
        /\ p \in Positions
    BY <1>2 DEF PositionSound, Positions
  <2>2. PICK e \in Int : e = (p.entry * p.qty + price * qty) \div (p.qty + qty)
    BY <2>1, AverageIsInt
  <2>3. Shorted(p, qty, price, coll) = [p EXCEPT !.entry = e, !.qty = p.qty + qty, !.coll = p.coll + coll]
    BY <1>2, <2>1, <2>2 DEF Shorted, Positions
  <2>4. p.qty + qty \in Nat /\ p.coll + coll \in Nat
    BY <2>1
  <2> QED
    BY <1>2, <2>1, <2>2, <2>3, <2>4 DEF PositionSound, Positions
<1> QED
  BY <1>1, <1>2

\* _record_cover releases no more than there is.
LEMMA CoverIs ==
  ASSUME NEW p, PositionSound(p), NEW n \in Nat
  PROVE  /\ PositionSound(Cover(p, n))
         /\ Released(p, n) \in Nat /\ Released(p, n) <= p.coll
         /\ Cover(p, n).coll = p.coll - Released(p, n)
<1>1. /\ p.qty \in Nat /\ p.coll \in Nat /\ p.entry \in Int /\ p.opened \in Nat
      /\ p.deadline \in Int /\ p.status \in {"none", "open", "covered"} /\ p \in Positions
  BY DEF PositionSound, Positions
<1>2. PICK c \in Nat : c = Covered(p, n) /\ c <= p.qty /\ (n = 0 => c = 0)
  BY <1>1 DEF Covered, Least
<1>3. PICK r \in Nat : /\ r = Released(p, n) /\ r <= p.coll
                       /\ p.qty = 0 => r = 0
                       /\ n = 0 => r = 0
  <2>1. CASE p.qty = 0
    BY <1>1, <2>1 DEF Released
  <2>2. CASE p.qty # 0
    <3>1. Released(p, n) = (p.coll * c) \div p.qty
      BY <1>2, <2>2 DEF Released
    <3>2. PICK x \in Nat : x = p.coll
      BY <1>1
    <3>3. PICK m \in Nat \ {0} : m = p.qty
      BY <1>1, <2>2
    <3>4. c \in 0..m
      BY <1>2, <3>3
    <3>5. (x * c) \div m \in 0..x /\ (x * 0) \div m = 0
      BY <3>4, PartOf
    <3> QED
      BY <1>2, <2>2, <3>1, <3>2, <3>3, <3>5
  <2> QED
    BY <2>1, <2>2
<1>4. CASE p.status = "none" \/ n = 0
  <2>1. Cover(p, n) = p
    BY <1>4 DEF Cover
  <2>2. r = 0
    BY <1>3, <1>4 DEF PositionSound
  <2> QED
    BY <1>1, <1>3, <2>1, <2>2
<1>5. CASE ~(p.status = "none" \/ n = 0)
  <2>0. PICK z : z = IF p.qty = c THEN "covered" ELSE p.status
    OBVIOUS
  <2>1. Cover(p, n) = [p EXCEPT !.qty = p.qty - c, !.coll = p.coll - r, !.status = z]
    BY <1>1, <1>2, <1>3, <1>5, <2>0 DEF Cover, Positions
  <2>2. p.qty - c \in Nat /\ p.coll - r \in Nat /\ z \in {"open", "covered"}
    BY <1>1, <1>2, <1>3, <1>5, <2>0
  <2>3. PositionSound([p EXCEPT !.qty = p.qty - c, !.coll = p.coll - r, !.status = z])
    BY <1>1, <2>2 DEF PositionSound, Positions
  <2>4. [p EXCEPT !.qty = p.qty - c, !.coll = p.coll - r, !.status = z].coll = p.coll - r
    BY <1>1 DEF Positions
  <2> QED
    BY <1>3, <2>1, <2>3, <2>4
<1> QED
  BY <1>4, <1>5

-----------------------------------------------------------------------------
(* What a fill costs *)

\* What one has more, another has less.
LEMMA SumMoved ==
  ASSUME NEW f, IsSummable(f), NEW x \in DOMAIN f, NEW y \in DOMAIN f, x # y, NEW q \in Int,
         NEW e, DOMAIN e = DOMAIN f, e[x] = f[x] + q, e[y] = f[y] - q,
         \A z \in DOMAIN f : z # x /\ z # y => e[z] = f[z]
  PROVE  SumOf(e) = SumOf(f)
<1> DEFINE h == [z \in DOMAIN f |-> IF z = x THEN f[x] + q ELSE f[z]]
<1>1. f[x] \in Int /\ f[y] \in Int
  BY DEF IsSummable
<1>2. DOMAIN h = DOMAIN f /\ h[x] = f[x] + q /\ h[x] \in Int /\ \A z \in DOMAIN f \ {x} : h[z] = f[z]
  BY <1>1
<1>3. IsSummable(h)
  BY <1>1 DEF IsSummable
<1>4. h[y] = f[y] /\ e[y] \in Int /\ \A z \in DOMAIN h \ {y} : e[z] = h[z]
  BY <1>1
<1> HIDE DEF h
<1>5. SumOf(h) = SumOf(f) - f[x] + h[x]
  BY <1>2, SumChanged
<1>6. SumOf(e) = SumOf(h) - h[y] + e[y]
  BY <1>2, <1>3, <1>4, SumChanged
<1>7. SumOf(f) \in Int
  BY SumIsInt
<1> QED
  BY <1>1, <1>2, <1>4, <1>5, <1>6, <1>7

\* What a fill costs the buyer and what is given back.
LEMMA FillCosts ==
  ASSUME BookSound(orders), SecSound, ReservesExact, NEW b, NEW a, NEW price, NEW qty,
         CanFill(b, a, price, qty)
  PROVE  /\ price * qty \in Nat /\ Commission(price * qty) \in Nat
         /\ Commission(price * qty) <= price * qty
         /\ orders[b].cents \in Nat /\ FilledBuy(orders[b], qty).cents \in Nat
         /\ Filled(b, a, qty, b) = FilledBuy(orders[b], qty)
         /\ orders[b].cents - price * qty - Commission(price * qty)
              - FilledBuy(orders[b], qty).cents \in Nat
<1>1. /\ OrderSound(orders[b]) /\ orders[b].side = "buy" /\ qty \in Nat \ {0}
      /\ qty <= orders[b].rem /\ price \in Nat /\ TickSize <= price
      /\ price <= ReservePrice(orders[b].sym, orders[b].lim)
      /\ b \in DOMAIN orders /\ a # b
  BY DEF CanFill, BookSound
<1>2. /\ orders[b].sym \in Symbols /\ orders[b].lim \in Nat /\ orders[b].cents \in Nat
      /\ sec[orders[b].sym].ref \in Nat /\ orders[b].rem \in Nat
  BY <1>1 DEF OrderSound, SecSound
<1>3. PICK p \in Nat : p = ReservePrice(orders[b].sym, orders[b].lim)
  BY <1>2, ReservePriceIsNat
<1>4. PICK g \in Nat : g = price * qty
  BY <1>1
<1>5. PICK f \in Nat : f = Commission(price * qty)
  BY <1>4, CommissionIsNat
<1>6. f <= g
  BY <1>1, <1>4, <1>5, CommissionOfFill
<1>7. PICK n \in Nat : n = FilledBuy(orders[b], qty).cents /\ n = ReserveRequired(orders[b].rem - qty, p)
  BY <1>1, <1>2, <1>3, FilledBuyIs
<1>8. PICK c \in Nat : c = orders[b].cents /\ c = orders[b].rem * (p + Commission(p))
  BY <1>1, <1>2, <1>3 DEF ReservesExact
<1>9. price * qty + Commission(price * qty) + ReserveRequired(orders[b].rem - qty, p)
        <= orders[b].rem * (p + Commission(p))
  BY <1>1, <1>2, <1>3, ReserveCovers
<1>10. g + f + n <= c
  BY <1>4, <1>5, <1>7, <1>8, <1>9
<1>11. c - g - f - n \in Nat
  BY <1>10
<1>12. Filled(b, a, qty, b) = FilledBuy(orders[b], qty)
  BY DEF Filled
<1> QED
  BY <1>4, <1>5, <1>6, <1>7, <1>8, <1>11, <1>12

\* The cents in escrow, the collateral and the shares that orders hold after a fill.
LEMMA FillEscrow ==
  ASSUME BookSound(orders), SecSound, ReservesExact, NEW b, NEW a, NEW price, NEW qty,
         CanFill(b, a, price, qty), NEW t, NEW s
  PROVE  Claims(FilledBook(b, a, qty), "escrow", t, s) =
           IF t = orders[b].by
           THEN Claims(orders, "escrow", t, s) - orders[b].cents + FilledBuy(orders[b], qty).cents
           ELSE Claims(orders, "escrow", t, s)
<1>1. b \in DOMAIN orders /\ a \in DOMAIN orders /\ qty \in Nat /\ qty <= orders[a].rem
      /\ orders[b].side = "buy" /\ orders[a].side = "sell" /\ a # b
  BY DEF CanFill
<1>2. OrderSound(orders[a]) /\ OrderSound(orders[b])
  BY <1>1 DEF BookSound
<1>3. orders[b].kind # "short" /\ orders[b].cents \in Nat
  BY <1>1, <1>2 DEF OrderSound
<1>4. PICK m : m = Filled(b, a, qty, b)
  OBVIOUS
<1>5. m.kind = orders[b].kind /\ m.by = orders[b].by /\ m.cents = FilledBuy(orders[b], qty).cents
      /\ m.cents \in Nat
  BY <1>1, <1>4, FilledIs, FillCosts
<1>6. PICK n : n = Filled(b, a, qty, a)
  OBVIOUS
<1>7. n.kind = orders[a].kind /\ n.by = orders[a].by /\ n.cents = orders[a].cents - Collateral(orders[a], qty)
  BY <1>1, <1>6, FilledIs
<1>8. orders[a].kind # "short" => n.cents = orders[a].cents /\ orders[a].cents = 0
  <2>1. orders[a].kind # "short" => orders[a].cents = 0 /\ Collateral(orders[a], qty) = 0
    BY <1>1, <1>2, CollateralIs DEF OrderSound
  <2> QED
    BY <1>7, <2>1
<1>9. /\ Claim(n, "escrow", t, s) = 0 /\ Claim(orders[a], "escrow", t, s) = 0
      /\ Claim(orders[b], "escrow", t, s) = (IF t = orders[b].by THEN orders[b].cents ELSE 0)
      /\ Claim(m, "escrow", t, s) = (IF t = orders[b].by THEN m.cents ELSE 0)
  BY <1>3, <1>5, <1>7, <1>8 DEF Claim
<1>10. Claims(orders, "escrow", t, s) \in Nat
  BY ClaimsAreNat DEF ClaimKinds
<1>11. Claims(FilledBook(b, a, qty), "escrow", t, s) =
           Claims(orders, "escrow", t, s)
             - Claim(orders[b], "escrow", t, s) + Claim(m, "escrow", t, s)
             - Claim(orders[a], "escrow", t, s) + Claim(n, "escrow", t, s)
  BY <1>4, <1>6, FilledClaims DEF ClaimKinds
<1> QED
  BY <1>3, <1>5, <1>9, <1>10, <1>11

\* What a fill does to the collateral of orders,
LEMMA FillPledge ==
  ASSUME BookSound(orders), SecSound, ReservesExact, NEW b, NEW a, NEW price, NEW qty,
         CanFill(b, a, price, qty), NEW t, NEW s
  PROVE  Claims(FilledBook(b, a, qty), "pledge", t, s) =
           IF t = orders[a].by /\ s = orders[a].sym
           THEN Claims(orders, "pledge", t, s) - Collateral(orders[a], qty)
           ELSE Claims(orders, "pledge", t, s)
<1>1. b \in DOMAIN orders /\ a \in DOMAIN orders /\ qty \in Nat /\ qty <= orders[a].rem
      /\ orders[b].side = "buy" /\ orders[a].side = "sell" /\ a # b
  BY DEF CanFill
<1>2. OrderSound(orders[a]) /\ OrderSound(orders[b])
  BY <1>1 DEF BookSound
<1>3. orders[b].kind # "short" /\ orders[a].cents \in Nat
  BY <1>1, <1>2 DEF OrderSound
<1>4. PICK m : m = Filled(b, a, qty, b)
  OBVIOUS
<1>5. m.kind = orders[b].kind
  BY <1>1, <1>4, FilledIs
<1>6. PICK n : n = Filled(b, a, qty, a)
  OBVIOUS
<1>7. n.kind = orders[a].kind /\ n.by = orders[a].by /\ n.sym = orders[a].sym
      /\ n.cents = orders[a].cents - Collateral(orders[a], qty)
  BY <1>1, <1>6, FilledIs
<1>8. PICK c \in Int : c = Collateral(orders[a], qty) /\ (orders[a].kind # "short" => c = 0)
  <2>1. Collateral(orders[a], qty) \in 0..orders[a].cents
    BY <1>1, <1>2, CollateralIs
  <2>2. \A x \in 0..orders[a].cents : x \in Int
    BY <1>3
  <2> QED
    BY <1>1, <1>2, <2>1, <2>2, CollateralIs
<1>9. /\ Claim(m, "pledge", t, s) = 0 /\ Claim(orders[b], "pledge", t, s) = 0
      /\ Claim(orders[a], "pledge", t, s) =
           (IF t = orders[a].by /\ s = orders[a].sym /\ orders[a].kind = "short" THEN orders[a].cents ELSE 0)
      /\ Claim(n, "pledge", t, s) =
           (IF t = orders[a].by /\ s = orders[a].sym /\ orders[a].kind = "short"
            THEN orders[a].cents - c ELSE 0)
  BY <1>3, <1>5, <1>7, <1>8 DEF Claim
<1>10. Claims(orders, "pledge", t, s) \in Nat
  BY ClaimsAreNat DEF ClaimKinds
<1>11. Claims(FilledBook(b, a, qty), "pledge", t, s) =
           Claims(orders, "pledge", t, s)
             - Claim(orders[b], "pledge", t, s) + Claim(m, "pledge", t, s)
             - Claim(orders[a], "pledge", t, s) + Claim(n, "pledge", t, s)
  BY <1>4, <1>6, FilledClaims DEF ClaimKinds
<1> QED
  BY <1>3, <1>8, <1>9, <1>10, <1>11

\* ... and to the shares they reserve.
LEMMA FillShares ==
  ASSUME BookSound(orders), SecSound, ReservesExact, NEW b, NEW a, NEW price, NEW qty,
         CanFill(b, a, price, qty), NEW t, NEW s
  PROVE  Claims(FilledBook(b, a, qty), "shares", t, s) =
           IF t = orders[a].by /\ s = orders[a].sym /\ orders[a].kind # "short"
           THEN Claims(orders, "shares", t, s) - qty
           ELSE Claims(orders, "shares", t, s)
<1>1. b \in DOMAIN orders /\ a \in DOMAIN orders /\ qty \in Nat
      /\ orders[b].side = "buy" /\ orders[a].side = "sell" /\ a # b
  BY DEF CanFill
<1>2. OrderSound(orders[a]) /\ OrderSound(orders[b])
  BY <1>1 DEF BookSound
<1>3. /\ orders[b].shares = 0 /\ orders[a].rem \in Nat
      /\ orders[a].kind = "short" => orders[a].shares = 0
      /\ orders[a].kind # "short" => orders[a].shares = orders[a].rem
  BY <1>1, <1>2 DEF OrderSound
<1>4. PICK m : m = Filled(b, a, qty, b)
  OBVIOUS
<1>5. m.shares = 0
  BY <1>1, <1>3, <1>4, FilledIs
<1>6. PICK n : n = Filled(b, a, qty, a)
  OBVIOUS
<1>7. n.kind = orders[a].kind /\ n.by = orders[a].by /\ n.sym = orders[a].sym
      /\ n.shares = (IF orders[a].kind # "short" THEN orders[a].rem - qty ELSE orders[a].shares)
  BY <1>1, <1>6, FilledIs
<1>9. /\ Claim(m, "shares", t, s) = 0 /\ Claim(orders[b], "shares", t, s) = 0
      /\ Claim(orders[a], "shares", t, s) =
           (IF t = orders[a].by /\ s = orders[a].sym /\ orders[a].kind # "short" THEN orders[a].rem ELSE 0)
      /\ Claim(n, "shares", t, s) =
           (IF t = orders[a].by /\ s = orders[a].sym /\ orders[a].kind # "short"
            THEN orders[a].rem - qty ELSE 0)
  BY <1>3, <1>5, <1>7 DEF Claim
<1>10. Claims(orders, "shares", t, s) \in Nat
  BY ClaimsAreNat DEF ClaimKinds
<1>11. Claims(FilledBook(b, a, qty), "shares", t, s) =
           Claims(orders, "shares", t, s)
             - Claim(orders[b], "shares", t, s) + Claim(m, "shares", t, s)
             - Claim(orders[a], "shares", t, s) + Claim(n, "shares", t, s)
  BY <1>4, <1>6, FilledClaims DEF ClaimKinds
<1> QED
  BY <1>1, <1>3, <1>9, <1>10, <1>11

-----------------------------------------------------------------------------
(* Settlement *)

\* The reservation price moves only with the reference.
LEMMA ReservePriceSame ==
  ASSUME NEW s, NEW lim, sec'[s].ref = sec[s].ref
  PROVE  ReservePrice(s, lim)' = ReservePrice(s, lim)
BY DEF ReservePrice, Band

\* The parts of a settlement.
LEMMA SettleBook ==
  ASSUME BookSound(orders), SecSound, ReservesExact, SecuritiesHold,
         NEW b, NEW a, NEW price, NEW qty, CanFill(b, a, price, qty), Settle(b, a, price, qty),
         ord' = ord
  PROVE  BookSound(orders') /\ ReservesExact' /\ SecSound' /\ orders' = FilledBook(b, a, qty)
<1>1. orders' = FilledBook(b, a, qty)
  BY DEF Settle, FilledBook
<1>2. sec' = [sec EXCEPT ![orders[b].sym].last = price]
  BY DEF Settle
<1>3. BookSound(orders')
  BY <1>1, FilledSound
<1>4. /\ \A s \in Symbols : sec'[s].ref = sec[s].ref
      /\ SecSound'
  BY <1>2 DEF SecSound, SecuritiesHold, CanFill
<1>5. ReservesExact'
  <2> SUFFICES ASSUME NEW i \in DOMAIN orders', orders'[i].side = "buy"
               PROVE  \E p : /\ p = ReservePrice(orders[i].sym, orders[i].lim)'
                             /\ orders'[i].cents = orders'[i].rem * (p + Commission(p))
    BY DEF ReservesExact, Commission, bp_ceil
  <2>1. PICK z, l : z = orders[i].sym /\ l = orders[i].lim
    OBVIOUS
  <2>2. i \in DOMAIN orders /\ orders'[i] = Filled(b, a, qty, i)
    BY <1>1 DEF FilledBook
  <2>3. PICK n : n = Filled(b, a, qty, i)
    OBVIOUS
  <2>4. /\ n.sym = z /\ n.lim = l /\ n.side = orders[i].side
        /\ n.rem = (IF i \in {a, b} THEN orders[i].rem - qty ELSE orders[i].rem)
        /\ n.cents = (IF i = b THEN ReserveRequired(orders[i].rem - qty, ReservePrice(z, l))
                      ELSE IF i = a THEN orders[i].cents - Collateral(orders[i], qty)
                      ELSE orders[i].cents)
    BY <2>1, <2>2, <2>3, FilledIs
  <2>5. z \in Symbols /\ sec[z].ref \in Nat /\ l \in Nat /\ orders[i].rem \in Nat
    BY <2>1, <2>2 DEF BookSound, OrderSound, SecSound
  <2>6. PICK p \in Nat : p = ReservePrice(z, l)
    BY <2>5, ReservePriceIsNat
  <2>7. ReservePrice(z, l)' = p
    BY <1>4, <2>5, <2>6, ReservePriceSame
  <2>8. ReservePrice(orders[i].sym, orders[i].lim)' = ReservePrice(z, l)'
    <3>1. orders'[i].sym = z /\ orders'[i].lim = l
      BY <2>2, <2>3, <2>4
    <3> QED
      BY <3>1 DEF ReservePrice, Band
  <2>9. i # a
    BY <2>2, <2>3, <2>4 DEF CanFill
  <2>10. n.cents = n.rem * (p + Commission(p))
    <3>1. CASE i = b
      <4>1. orders[i].rem - qty \in Nat
        BY <2>5, <3>1 DEF CanFill
      <4>2. n.rem = orders[i].rem - qty /\ n.cents = ReserveRequired(orders[i].rem - qty, p)
        BY <2>4, <2>6, <3>1
      <4>3. PICK r \in Nat : r = orders[i].rem - qty
        BY <4>1
      <4>4. ReserveRequired(r, p) = r * (p + Commission(p))
        BY ReserveIs
      <4> QED
        BY <4>2, <4>3, <4>4
    <3>2. CASE i # b
      <4>1. orders[i].side = "buy"
        BY <2>2, <2>3, <2>4
      <4>2. orders[i].cents = orders[i].rem * (ReservePrice(z, l) + Commission(ReservePrice(z, l)))
        BY <2>1, <2>2, <4>1 DEF ReservesExact
      <4> QED
        BY <2>4, <2>6, <2>9, <3>2, <4>2
    <3> QED
      BY <3>1, <3>2
  <2> QED
    BY <2>2, <2>3, <2>7, <2>8, <2>10
<1> QED
  BY <1>1, <1>3, <1>4, <1>5

\* The positions after a settlement.
LEMMA SettlePositions ==
  ASSUME Books, tick \in Nat,
         NEW b, NEW a, NEW price, NEW qty, CanFill(b, a, price, qty), Settle(b, a, price, qty)
  PROVE  LET p == shorts[orders[b].by][orders[b].sym]
             n == Least(qty, Max0(-holding[orders[b].by][orders[b].sym].qty))
         IN  /\ PositionsSound' /\ n \in Nat
             /\ \A t \in Traders, s \in Symbols : shorts'[t][s].coll =
                  IF t = orders[b].by /\ s = orders[b].sym THEN shorts[t][s].coll - Released(p, n)
                  ELSE IF t = orders[a].by /\ s = orders[b].sym
                       THEN shorts[t][s].coll + Collateral(orders[a], qty)
                  ELSE shorts[t][s].coll
<1> DEFINE u == orders[b].by
           v == orders[a].by
           z == orders[b].sym
           n == Least(qty, Max0(-holding[u][z].qty))
           coll == Collateral(orders[a], qty)
           p == Cover(shorts[u][z], n)
           q == IF orders[a].kind = "short" THEN Shorted(shorts[v][z], qty, price, coll) ELSE shorts[v][z]
<1>1. u \in Traders /\ v \in Traders /\ z \in Symbols /\ u # v /\ qty \in Nat \ {0} /\ price \in Nat
  BY DEF Books, BookSound, OrderSound, CanFill
<1>2. shorts' = [shorts EXCEPT ![v][z] = IF orders[a].kind = "short" THEN Shorted(@, qty, price, coll) ELSE @,
                               ![u][z] = Cover(@, n)]
  BY DEF Settle
<1>3. n \in Nat
  <2>1. holding[u][z].qty \in Int
    BY <1>1 DEF Books, HoldingsSound, Holdings
  <2> HIDE DEF u, z
  <2> QED
    BY <1>1, <2>1 DEF Least, Max0
<1>4. coll \in Nat /\ (orders[a].kind # "short" => coll = 0)
  <2>1. OrderSound(orders[a]) /\ qty <= orders[a].rem /\ orders[a].cents \in Nat
    BY DEF Books, BookSound, OrderSound, CanFill
  <2>2. coll \in 0..orders[a].cents /\ (orders[a].kind # "short" => coll = 0)
    BY <1>1, <2>1, CollateralIs
  <2> HIDE DEF coll
  <2> QED
    BY <2>1, <2>2
<1>5. \A t \in Traders, s \in Symbols : PositionSound(shorts[t][s])
  BY DEF Books, PositionsSound
<1>6. shorts = [t \in Traders |-> [s \in Symbols |-> shorts[t][s]]]
  BY DEF Books, PositionsSound
<1>7. PositionSound(p) /\ p.coll = shorts[u][z].coll - Released(shorts[u][z], n)
  <2> HIDE DEF u, z, n
  <2> QED
    BY <1>1, <1>3, <1>5, CoverIs
<1>8. PositionSound(q) /\ q.coll = shorts[v][z].coll + coll
  <2> HIDE DEF v, z, coll
  <2>0. PositionSound(shorts[v][z]) /\ shorts[v][z].coll \in Nat
    BY <1>1, <1>5 DEF PositionSound, Positions
  <2>1. CASE orders[a].kind = "short"
    BY <1>1, <1>4, <2>0, <2>1, ShortedIs
  <2>2. CASE orders[a].kind # "short"
    BY <1>4, <2>0, <2>2
  <2> QED
    BY <2>1, <2>2
<1>9. \A t \in Traders, s \in Symbols :
        shorts'[t][s] = IF t = u /\ s = z THEN p ELSE IF t = v /\ s = z THEN q ELSE shorts[t][s]
  <2> HIDE DEF u, v, z, n, coll
  <2> QED
    BY <1>1, <1>2, <1>6
<1>10. shorts' = [t \in Traders |-> [s \in Symbols |-> shorts'[t][s]]]
  <2> HIDE DEF u, v, z, n, coll
  <2> QED
    BY <1>1, <1>2, <1>6
<1> HIDE DEF p, q
<1>11. PositionsSound'
  <2> SUFFICES ASSUME NEW t \in Traders, NEW s \in Symbols
               PROVE  PositionSound(shorts'[t][s])
    BY <1>10 DEF PositionsSound, PositionSound, Positions
  <2> HIDE DEF u, v, z
  <2> QED
    BY <1>5, <1>7, <1>8, <1>9
<1>12. ASSUME NEW t \in Traders, NEW s \in Symbols
       PROVE  shorts'[t][s].coll =
                  IF t = u /\ s = z THEN shorts[t][s].coll - Released(shorts[u][z], n)
                  ELSE IF t = v /\ s = z THEN shorts[t][s].coll + coll
                  ELSE shorts[t][s].coll
  <2> HIDE DEF u, v, z, n, coll
  <2> QED
    BY <1>7, <1>8, <1>9
<1> QED
  BY <1>3, <1>11, <1>12

\* What an investor has put aside for an offering is never negative,
LEMMA StakeIsNat ==
  ASSUME NEW offer, OfferSound(offer), NEW t
  PROVE  Stake(offer, t) \in Nat
<1>1. CASE offer.status = "announced" /\ t \in DOMAIN offer.ind
  <2>1. offer.ind[t][1] \in Nat /\ offer.ind[t][2] \in Nat
    BY <1>1 DEF OfferSound
  <2> QED
    BY <1>1, <2>1 DEF Stake
<1>2. CASE ~(offer.status = "announced" /\ t \in DOMAIN offer.ind)
  BY <1>2 DEF Stake
<1> QED
  BY <1>1, <1>2

\* ... nor for all.
LEMMA InterestIsNat ==
  ASSUME OffersSound, NEW t
  PROVE  Interest(ipo, t) \in Nat
<1> DEFINE f == [s \in Symbols |-> Stake(ipo[s], t)]
<1>1. \A s \in Symbols : f[s] \in Nat
  BY StakeIsNat DEF OffersSound
<1>2. DOMAIN f = Symbols /\ IsFiniteSet(DOMAIN f) /\ \A s \in DOMAIN f : f[s] \in Nat
  BY <1>1, ExchangeAssumption
<1>3. Interest(ipo, t) = SumOf(f)
  BY DEF Interest
<1> HIDE DEF f
<1> QED
  BY <1>2, <1>3, SumIsNat

\* _settle takes from escrow and margin what the two orders and the position give up.
LEMMA SettleBacked ==
  ASSUME Books, SecuritiesHold, tick \in Nat,
         NEW b, NEW a, NEW price, NEW qty, CanFill(b, a, price, qty), Settle(b, a, price, qty),
         ipo' = ipo, ord' = ord
  PROVE  Backed' /\ CashSound'
<1> DEFINE u == orders[b].by
           v == orders[a].by
           z == orders[b].sym
           gross == price * qty
           fee == Commission(gross)
           rest == FilledBuy(orders[b], qty).cents
           release == Max0(orders[b].cents - gross - fee - rest)
           n == Least(qty, Max0(-holding[u][z].qty))
           back == Released(shorts[u][z], n)
           coll == Collateral(orders[a], qty)
<1>1. /\ esc' = [esc EXCEPT ![u] = @ - gross - fee - release]
      /\ margin' = [margin EXCEPT ![u][z] = @ - back]
      /\ cash' = [o \in Owners |-> cash[o] + (IF o = v THEN gross - fee ELSE 0)
                                           + (IF o = u THEN release + back ELSE 0)
                                           + (IF o = Broker THEN 2 * fee ELSE 0)]
  BY DEF Settle
<1>2. u \in Traders /\ v \in Traders /\ z \in Symbols /\ u # v /\ qty \in Nat /\ orders[a].sym = z
  BY DEF Books, BookSound, OrderSound, CanFill
<1>3. /\ BookSound(orders) /\ SecSound /\ ReservesExact /\ Backed /\ CashSound
      /\ \A t \in Traders, s \in Symbols : PositionSound(shorts[t][s])
  BY DEF Books, PositionsSound
<1>4. /\ gross \in Nat /\ fee \in Nat /\ fee <= gross /\ orders[b].cents \in Nat /\ rest \in Nat
      /\ orders[b].cents - gross - fee - rest \in Nat
  BY <1>3, FillCosts
<1>5. release = orders[b].cents - gross - fee - rest /\ release \in Nat
  <2> HIDE DEF gross, fee, rest
  <2> QED
    BY <1>4 DEF Max0
<1>6. /\ n \in Nat
      /\ \A t \in Traders, s \in Symbols : shorts'[t][s].coll =
                  IF t = u /\ s = z THEN shorts[t][s].coll - back
                  ELSE IF t = v /\ s = z THEN shorts[t][s].coll + coll
                  ELSE shorts[t][s].coll
  BY SettlePositions
<1>7. back \in Nat /\ shorts[u][z].coll \in Nat /\ back <= shorts[u][z].coll
  <2>1. PositionSound(shorts[u][z])
    BY <1>2, <1>3
  <2>2. PICK p : p = shorts[u][z]
    OBVIOUS
  <2>3. PICK m \in Nat : m = n
    BY <1>6
  <2>4. Released(p, m) \in Nat /\ Released(p, m) <= p.coll
    BY <2>1, <2>2, CoverIs
  <2>5. p.coll \in Nat
    BY <2>1, <2>2 DEF PositionSound, Positions
  <2> QED
    BY <2>2, <2>3, <2>4, <2>5
<1>8. orders' = FilledBook(b, a, qty) /\ BookSound(orders')
  BY <1>3, SettleBook
<1>9. \A t, s : Claims(orders', "escrow", t, s) =
                  IF t = u THEN Claims(orders, "escrow", t, s) - orders[b].cents + rest
                  ELSE Claims(orders, "escrow", t, s)
  BY <1>3, <1>8, FillEscrow
<1>10. \A t, s : Claims(orders', "pledge", t, s) =
                  IF t = v /\ s = z THEN Claims(orders, "pledge", t, s) - coll
                  ELSE Claims(orders, "pledge", t, s)
  BY <1>2, <1>3, <1>8, FillPledge
<1>11. \A t, s : /\ Claims(orders, "escrow", t, s) \in Nat /\ Claims(orders', "escrow", t, s) \in Nat
                 /\ Claims(orders, "pledge", t, s) \in Nat /\ Claims(orders', "pledge", t, s) \in Nat
  BY <1>3, <1>8, ClaimsAreNat DEF ClaimKinds
<1>12. \A t : Interest(ipo, t) \in Nat /\ Interest(ipo', t) = Interest(ipo, t)
  BY InterestIsNat DEF Books
<1>13. /\ esc \in [Traders -> Nat] /\ margin \in [Traders -> [Symbols -> Nat]]
       /\ \A t \in Traders : esc[t] = Claims(orders, "escrow", t, 0) + Interest(ipo, t)
       /\ \A t \in Traders, s \in Symbols :
            margin[t][s] = Claims(orders, "pledge", t, s) + shorts[t][s].coll
  BY <1>3 DEF Backed
<1>14. v \in Traders /\ coll \in Int /\ \A t \in Traders, s \in Symbols : shorts[t][s].coll \in Nat
  <2>1. OrderSound(orders[a]) /\ qty <= orders[a].rem /\ orders[a].cents \in Nat
    BY DEF Books, BookSound, OrderSound, CanFill
  <2>2. coll \in 0..orders[a].cents
    BY <1>2, <2>1, CollateralIs
  <2>3. coll \in Int
    <3> HIDE DEF coll
    <3> QED
      BY <2>1, <2>2
  <2> QED
    BY <1>2, <1>3, <2>3 DEF PositionSound, Positions
<1> HIDE DEF u, v, z, gross, fee, rest, release, n, back, coll
<1>15. ASSUME NEW t \in Traders
       PROVE  esc'[t] = Claims(orders', "escrow", t, 0) + Interest(ipo', t) /\ esc'[t] \in Nat
  <2>1. esc'[t] = IF t = u THEN esc[t] - gross - fee - release ELSE esc[t]
    BY <1>1, <1>13
  <2>2. esc[t] = Claims(orders, "escrow", t, 0) + Interest(ipo, t)
    BY <1>13
  <2>3. Claims(orders', "escrow", t, 0) =
                  IF t = u THEN Claims(orders, "escrow", t, 0) - orders[b].cents + rest
                  ELSE Claims(orders, "escrow", t, 0)
    BY <1>9
  <2>4. PICK c \in Nat, d \in Nat, e \in Nat : /\ c = Claims(orders, "escrow", t, 0)
                                            /\ d = Claims(orders', "escrow", t, 0)
                                            /\ e = Interest(ipo, t) /\ Interest(ipo', t) = e
    BY <1>11, <1>12
  <2> QED
    BY <1>4, <1>5, <2>1, <2>2, <2>3, <2>4
<1>16. ASSUME NEW t \in Traders, NEW s \in Symbols
       PROVE  /\ margin'[t][s] = Claims(orders', "pledge", t, s) + shorts'[t][s].coll
              /\ margin'[t][s] \in Nat
  <2>1. margin'[t][s] = IF t = u /\ s = z THEN margin[t][s] - back ELSE margin[t][s]
    BY <1>1, <1>2, <1>13
  <2>2. PICK c \in Nat, d \in Nat, e \in Nat : /\ c = Claims(orders, "pledge", t, s)
                                            /\ d = Claims(orders', "pledge", t, s)
                                            /\ e = shorts[t][s].coll
    BY <1>11, <1>14
  <2>3. margin[t][s] = c + e
    BY <1>13, <2>2
  <2>4. d = IF t = v /\ s = z THEN c - coll ELSE c
    BY <1>10, <2>2
  <2>5. shorts'[t][s].coll = IF t = u /\ s = z THEN e - back
                             ELSE IF t = v /\ s = z THEN e + coll ELSE e
    BY <1>6, <2>2
  <2>6. t = u /\ s = z => back <= e
    BY <1>7, <2>2
  <2> QED
    BY <1>2, <1>7, <1>14, <2>1, <2>2, <2>3, <2>4, <2>5, <2>6
<1>17. esc' \in [Traders -> Nat] /\ margin' \in [Traders -> [Symbols -> Nat]]
  <2>1. esc' = [t \in Traders |-> esc'[t]]
    BY <1>1, <1>13
  <2>2. margin' = [t \in Traders |-> [s \in Symbols |-> margin'[t][s]]]
    BY <1>1, <1>13
  <2> QED
    BY <1>15, <1>16, <2>1, <2>2
<1>18. Backed'
  BY <1>15, <1>16, <1>17 DEF Backed
<1>19. CashSound'
  <2>1. \A o \in Owners : cash[o] \in Nat
    BY <1>3 DEF CashSound
  <2>2. ASSUME NEW o \in Owners
        PROVE  cash[o] + (IF o = v THEN gross - fee ELSE 0) + (IF o = u THEN release + back ELSE 0)
                 + (IF o = Broker THEN 2 * fee ELSE 0) \in Nat
    BY <1>4, <1>5, <1>7, <2>1
  <2> QED
    BY <1>1, <2>2 DEF CashSound
<1> QED
  BY <1>18, <1>19

\* _settle moves shares from the seller to the buyer.
LEMMA SettleHoldings ==
  ASSUME Books, SecuritiesHold,
         NEW b, NEW a, NEW price, NEW qty, CanFill(b, a, price, qty), Settle(b, a, price, qty),
         ord' = ord
  PROVE  HoldingsSound' /\ SharesHeld'
<1> DEFINE u == orders[b].by
           v == orders[a].by
           z == orders[b].sym
           short == orders[a].kind = "short"
           p == Bought(holding[u][z], qty)
           q == Sold(holding[v][z], qty, short)
<1>1. /\ holding' = [holding EXCEPT
           ![u][z] = Bought(@, qty), ![v][z] = Sold(@, qty, short)]
      /\ sec' = [sec EXCEPT ![z].last = price]
  BY DEF Settle
<1>2. u \in Traders /\ v \in Traders /\ z \in Symbols /\ u # v /\ qty \in Nat /\ orders[a].sym = z
  BY DEF Books, BookSound, OrderSound, CanFill
<1>3. /\ BookSound(orders) /\ SecSound /\ ReservesExact
      /\ holding \in [Traders -> [Symbols -> Holdings]]
      /\ \A t \in Traders, s \in Symbols : holding[t][s].reserved = Claims(orders, "shares", t, s)
      /\ SharesHeld
  BY DEF Books, HoldingsSound
<1>4. orders' = FilledBook(b, a, qty) /\ BookSound(orders')
  BY <1>3, SettleBook
<1>5. \A t, s : Claims(orders', "shares", t, s) =
                  IF t = v /\ s = z /\ ~short THEN Claims(orders, "shares", t, s) - qty
                  ELSE Claims(orders, "shares", t, s)
  BY <1>2, <1>3, <1>4, FillShares
<1>6. \A t, s : Claims(orders, "shares", t, s) \in Nat /\ Claims(orders', "shares", t, s) \in Nat
  BY <1>3, <1>4, ClaimsAreNat DEF ClaimKinds
<1> HIDE DEF u, v, z, short
<1>7. ASSUME NEW t \in Traders, NEW s \in Symbols
      PROVE  /\ DOMAIN holding'[t][s] = {"qty", "reserved", "locked"}
             /\ holding'[t][s].qty = IF t = u /\ s = z THEN holding[t][s].qty + qty
                                     ELSE IF t = v /\ s = z THEN holding[t][s].qty - qty
                                     ELSE holding[t][s].qty
             /\ holding'[t][s].reserved = IF t = v /\ s = z /\ ~short
                                          THEN holding[t][s].reserved - qty ELSE holding[t][s].reserved
             /\ holding'[t][s].locked = holding[t][s].locked
             /\ holding'[t][s] = [qty |-> holding'[t][s].qty, reserved |-> holding'[t][s].reserved,
                                  locked |-> holding'[t][s].locked]
  <2>1. holding'[t][s] = IF t = u /\ s = z THEN p ELSE IF t = v /\ s = z THEN q ELSE holding[t][s]
    BY <1>1, <1>2, <1>3
  <2>2. PICK h : h = holding[t][s]
    OBVIOUS
  <2>3. h \in Holdings
    BY <1>3, <2>2
  <2>4. CASE t = u /\ s = z
    <3>1. holding'[t][s] = [h EXCEPT !.qty = h.qty + qty]
      BY <2>1, <2>2, <2>3, <2>4 DEF Holdings, Bought
    <3> QED
      BY <1>2, <2>2, <2>3, <2>4, <3>1 DEF Holdings
  <2>5. CASE t = v /\ s = z
    <3>1. PICK r : r = IF short THEN h.reserved ELSE h.reserved - qty
      OBVIOUS
    <3>2. holding'[t][s] = [h EXCEPT !.qty = h.qty - qty, !.reserved = r]
      BY <1>2, <2>1, <2>2, <2>3, <2>5, <3>1 DEF Holdings, Sold
    <3> QED
      BY <1>2, <2>2, <2>3, <2>5, <3>1, <3>2 DEF Holdings
  <2>6. CASE s # z \/ (t # u /\ t # v)
    BY <2>1, <2>2, <2>3, <2>6 DEF Holdings
  <2> QED
    BY <2>4, <2>5, <2>6
<1>8. holding' = [t \in Traders |-> [s \in Symbols |-> holding'[t][s]]]
  <2>1. holding' = [holding EXCEPT ![u][z] = p, ![v][z] = q]
    BY <1>1, <1>2, <1>3
  <2> HIDE DEF p, q
  <2> QED
    BY <1>2, <1>3, <2>1
<1> HIDE DEF p, q
<1>9. ASSUME NEW t \in Traders, NEW s \in Symbols
      PROVE  /\ holding'[t][s].reserved = Claims(orders', "shares", t, s)
             /\ holding'[t][s] \in Holdings
  <2>0. holding'[t][s].reserved = IF t = v /\ s = z /\ ~short
                                 THEN holding[t][s].reserved - qty ELSE holding[t][s].reserved
    BY <1>7
  <2>1. holding'[t][s].reserved = Claims(orders', "shares", t, s)
    BY <1>3, <1>5, <2>0
  <2>2. holding[t][s].qty \in Int /\ holding[t][s].locked \in Nat
    BY <1>3 DEF Holdings
  <2>3. holding'[t][s].qty \in Int /\ holding'[t][s].locked \in Nat /\ holding'[t][s].reserved \in Nat
    <3>1. /\ holding'[t][s].qty \in {holding[t][s].qty, holding[t][s].qty + qty, holding[t][s].qty - qty}
          /\ holding'[t][s].locked = holding[t][s].locked
      BY <1>7
    <3> QED
      BY <1>2, <1>6, <2>1, <2>2, <3>1
  <2>4. PICK x \in Int, y \in Nat, w \in Nat : holding'[t][s] = [qty |-> x, reserved |-> y, locked |-> w]
    BY <1>7, <2>3
  <2> QED
    BY <2>1, <2>4 DEF Holdings
<1>10. HoldingsSound'
  <2>1. holding' \in [Traders -> [Symbols -> Holdings]]
    BY <1>8, <1>9
  <2> QED
    BY <1>9, <2>1 DEF HoldingsSound
<1>11. ASSUME NEW s \in Symbols
       PROVE  SumOf([t \in Traders |-> holding'[t][s].qty]) = sec'[s].out
  <2> DEFINE f == [t \in Traders |-> holding[t][s].qty]
             e == [t \in Traders |-> holding'[t][s].qty]
  <2>1. SumOf(f) = sec[s].out /\ sec'[s].out = sec[s].out
    BY <1>1, <1>2, <1>3 DEF SharesHeld, SecuritiesHold
  <2>2. DOMAIN f = Traders /\ DOMAIN e = Traders /\ IsSummable(f)
    BY <1>3, ExchangeAssumption DEF IsSummable, Holdings
  <2>3. CASE s = z
    <3>1. e[u] = f[u] + qty /\ e[v] = f[v] - qty /\ \A t \in Traders : t # u /\ t # v => e[t] = f[t]
      BY <1>2, <1>7, <2>3
    <3> HIDE DEF e, f
    <3>2. SumOf(e) = SumOf(f)
      BY <1>2, <2>2, <3>1, SumMoved
    <3> QED
      BY <2>1, <3>2 DEF e
  <2>4. CASE s # z
    <3>1. \A t \in Traders : e[t] = f[t]
      BY <1>7, <2>4
    <3> HIDE DEF e, f
    <3>2. SumOf(e) = SumOf(f)
      BY <2>2, <3>1, SameSum DEF IsSummable
    <3> QED
      BY <2>1, <3>2 DEF e
  <2> QED
    BY <2>3, <2>4
<1>12. SharesHeld'
  BY <1>11 DEF SharesHeld
<1> QED
  BY <1>10, <1>12

-----------------------------------------------------------------------------
(* Choices *)

\* _settle (engine.py:726-924) keeps the accounts.
LEMMA SettleHolds ==
  ASSUME Books, SecuritiesHold, tick \in Nat,
         NEW b, NEW a, NEW price, NEW qty, CanFill(b, a, price, qty), Settle(b, a, price, qty),
         ipo' = ipo, ord' = ord
  PROVE  Books'
<1>1. Backed' /\ CashSound'
  BY SettleBacked
<1>2. HoldingsSound' /\ SharesHeld'
  BY SettleHoldings
<1>3. BookSound(orders') /\ ReservesExact' /\ SecSound'
  BY SettleBook DEF Books
<1>4. PositionsSound'
  BY SettlePositions
<1>5. OffersSound'
  BY DEF Books, OffersSound, OfferSound
<1>6. BookSound(orders)'
  BY <1>3 DEF BookSound, OrderSound
<1> QED
  BY <1>1, <1>2, <1>3, <1>4, <1>5, <1>6 DEF Books

\* The first of a finite ordered set.
LEMMA HasFirst ==
  ASSUME NEW S, IsFiniteSet(S), S # {}, NEW lt, Ranked(lt, S)
  PROVE  \E x \in S : \A y \in S \ {x} : <<x, y>> \in lt
<1> DEFINE F == {x \in S : Cardinality({y \in S : <<y, x>> \in lt}) < 1}
<1>1. Cardinality(S) \in Nat /\ Cardinality(S) # 0
  BY FS_EmptySet, FS_CardinalityType
<1>2. 1 \in 0..Cardinality(S)
  BY <1>1
<1>3. Cardinality(F) = 1
  BY <1>2, FirstInRank
<1>4. F # {}
  <2>1. Cardinality({}) = 0
    BY FS_EmptySet
  <2> HIDE DEF F
  <2> QED
    BY <1>3, <2>1
<1>5. PICK x \in S : Cardinality({y \in S : <<y, x>> \in lt}) < 1
  BY <1>4
<1>6. {y \in S : <<y, x>> \in lt} = {}
  <2>1. IsFiniteSet({y \in S : <<y, x>> \in lt})
    BY FS_Subset
  <2>2. Cardinality({y \in S : <<y, x>> \in lt}) \in Nat
    BY <2>1, FS_CardinalityType
  <2>3. Cardinality({y \in S : <<y, x>> \in lt}) = 0
    BY <1>5, <2>2
  <2> QED
    BY <2>1, <2>3, FS_EmptySet
<1> QED
  BY <1>6 DEF Ranked

\* The largest of finitely many numbers.
LEMMA MaxIs ==
  ASSUME NEW S, IsFiniteSet(S), S # {}, S \subseteq Int
  PROVE  Max(S) \in S /\ \A y \in S : y <= Max(S)
<1> DEFINE lt == {p \in S \X S : p[1] > p[2]}
<1>1. \A x, y \in S : <<x, y>> \in lt <=> x > y
  OBVIOUS
<1>2. Ranked(lt, S)
  <2> HIDE DEF lt
  <2>1. \A x \in S : ~(x > x)
    OBVIOUS
  <2>2. \A x, y, z \in S : x > y /\ y > z => x > z
    OBVIOUS
  <2>3. \A x, y \in S : x # y => x > y \/ y > x
    OBVIOUS
  <2> QED
    BY <1>1, <2>1, <2>2, <2>3 DEF Ranked
<1>3. PICK x \in S : \A y \in S \ {x} : <<x, y>> \in lt
  <2> HIDE DEF lt
  <2> QED
    BY <1>2, HasFirst
<1>4. \A y \in S : x >= y
  <2> SUFFICES ASSUME NEW y \in S, y # x
               PROVE  x >= y
    OBVIOUS
  <2>1. <<x, y>> \in lt
    BY <1>3
  <2>2. x > y
    BY <1>1, <2>1
  <2> HIDE DEF lt
  <2> QED
    BY <2>2
<1>5. Max(S) \in S /\ \A y \in S : Max(S) >= y
  BY <1>4 DEF Max
<1> QED
  BY <1>5

\* A new order has an id of its own.
LEMMA NewIdIs ==
  ASSUME BookSound(orders)
  PROVE  NewId \in Nat /\ NewId \notin DOMAIN orders
<1> DEFINE S == DOMAIN orders \cup {0}
<1>1. IsFiniteSet(S) /\ S # {} /\ S \subseteq Int /\ S \subseteq Nat
  BY FS_AddElement DEF BookSound
<1>2. Max(S) \in S /\ \A y \in S : y <= Max(S)
  <2> HIDE DEF S
  <2> QED
    BY <1>1, MaxIs
<1>3. PICK m \in Nat : m = Max(S) /\ \A y \in S : y <= m
  BY <1>1, <1>2
<1>4. NewId = 1 + m
  BY <1>3 DEF NewId
<1>5. ASSUME NewId \in DOMAIN orders PROVE FALSE
  <2>1. 1 + m <= m
    BY <1>3, <1>4, <1>5
  <2> QED
    BY <2>1
<1> QED
  BY <1>4, <1>5

-----------------------------------------------------------------------------
(* Steps that leave the accounts alone *)

\* Orders that stay as they are, under the same reference, hold what they must.
LEMMA ReservesKept ==
  ASSUME ReservesExact,
         \A i \in DOMAIN orders' : /\ i \in DOMAIN orders /\ orders'[i] = orders[i]
                                   /\ sec'[orders[i].sym].ref = sec[orders[i].sym].ref
  PROVE  ReservesExact'
<1> SUFFICES ASSUME NEW i \in DOMAIN orders', orders'[i].side = "buy"
             PROVE  \E p : /\ p = ReservePrice(orders[i].sym, orders[i].lim)'
                           /\ orders'[i].cents = orders'[i].rem * (p + Commission(p))
  BY DEF ReservesExact, Commission, bp_ceil
<1>1. PICK z, l, o : z = orders[i].sym /\ l = orders[i].lim /\ o = orders[i]
  OBVIOUS
<1>2. i \in DOMAIN orders /\ orders'[i] = o /\ o.sym = z /\ o.lim = l /\ sec'[z].ref = sec[z].ref
  BY <1>1
<1>3. PICK p : p = ReservePrice(z, l)
  OBVIOUS
<1>4. ReservePrice(z, l)' = p
  BY <1>2, <1>3, ReservePriceSame
<1>5. ReservePrice(orders[i].sym, orders[i].lim)' = ReservePrice(z, l)'
  BY <1>2 DEF ReservePrice, Band
<1>6. o.cents = o.rem * (p + Commission(p))
  BY <1>1, <1>2, <1>3 DEF ReservesExact
<1> QED
  BY <1>2, <1>4, <1>5, <1>6

\* Nothing but the prices of a symbol and its status may change.
SecSame ==
  /\ ord' \in [Symbols -> Nat]
  /\ \A s \in Symbols : /\ sec'[s].out = sec[s].out
                        /\ sec'[s].ref \in Nat /\ sec'[s].last \in Nat

\* A step that leaves orders, positions and offerings alone.
LEMMA SameBooks ==
  ASSUME Books, SecSame, cash' \in [Owners -> Nat],
         UNCHANGED <<orders, esc, margin, holding, shorts, ipo>>,
         \A i \in DOMAIN orders : sec'[orders[i].sym].ref = sec[orders[i].sym].ref
  PROVE  Books'
<1>1. ReservesExact'
  BY ReservesKept DEF Books
<1>2. SecSound'
  BY DEF Books, SecSame, SecSound
<1>3. Backed' /\ CashSound' /\ HoldingsSound' /\ PositionsSound' /\ OffersSound'
  BY DEF Books, Backed, CashSound, HoldingsSound, PositionsSound, PositionSound, OffersSound, OfferSound
<1>4. SharesHeld'
  <2>1. \A s \in Symbols : /\ SumOf([t \in Traders |-> holding[t][s].qty]) = sec[s].out
                           /\ sec'[s].out = sec[s].out
    BY DEF Books, SharesHeld, SecSame
  <2>2. \A s \in Symbols : SumOf([t \in Traders |-> holding'[t][s].qty]) = sec'[s].out
    BY <2>1
  <2> QED
    BY <2>2 DEF SharesHeld
<1>5. BookSound(orders)'
  BY DEF Books, BookSound, OrderSound
<1> QED
  BY <1>1, <1>2, <1>3, <1>4, <1>5 DEF Books

-----------------------------------------------------------------------------
(* A cancel *)

\* What the orders of a set hold.
LEMMA CentsIsNat ==
  ASSUME BookSound(orders), NEW S \in SUBSET DOMAIN orders
  PROVE  Cents(S) \in Nat
<1> DEFINE f == [i \in S |-> orders[i].cents]
<1>1. IsFiniteSet(DOMAIN f) /\ \A i \in DOMAIN f : f[i] \in Nat
  BY FS_Subset DEF BookSound, OrderSound
<1>2. Cents(S) = SumOf(f)
  BY DEF Cents
<1> HIDE DEF f
<1> QED
  BY <1>1, <1>2, SumIsNat

\* What a cancel returns is what the orders hold: in escrow,
LEMMA EscrowReturned ==
  ASSUME BookSound(orders), NEW S \in SUBSET DOMAIN orders, NEW t, NEW s,
         NEW left, DOMAIN left = DOMAIN orders \ S, \A i \in DOMAIN left : left[i] = orders[i]
  PROVE  /\ Claims(left, "escrow", t, s) = Claims(orders, "escrow", t, s) - Cents(Escrowed(S, t))
         /\ Cents(Escrowed(S, t)) \in Nat
<1> DEFINE some == [i \in Escrowed(S, t) |-> orders[i].cents]
           k == "escrow"
<1>1. DOMAIN left \subseteq DOMAIN orders
  OBVIOUS
<1>2. \A i \in DOMAIN some : /\ i \in DOMAIN orders /\ i \notin DOMAIN left
                             /\ some[i] = Claim(orders[i], k, t, s)
  BY DEF Escrowed, Claim
<1>3. \A i \in DOMAIN orders : i \notin DOMAIN left /\ i \notin DOMAIN some => Claim(orders[i], k, t, s) = 0
  BY DEF Escrowed, Claim
<1>4. Cents(Escrowed(S, t)) = SumOf(some)
  BY DEF Cents
<1>5. k \in ClaimKinds
  BY DEF ClaimKinds
<1> HIDE DEF some, k
<1>6. Claims(left, k, t, s) = Claims(orders, k, t, s) - SumOf(some) /\ SumOf(some) \in Nat
  BY <1>1, <1>2, <1>3, <1>5, ClaimsReturned
<1> QED
  BY <1>4, <1>6 DEF k

\* ... as collateral,
LEMMA PledgeReturned ==
  ASSUME BookSound(orders), NEW S \in SUBSET DOMAIN orders, NEW t, NEW s,
         NEW left, DOMAIN left = DOMAIN orders \ S, \A i \in DOMAIN left : left[i] = orders[i]
  PROVE  /\ Claims(left, "pledge", t, s) = Claims(orders, "pledge", t, s) - Cents(Pledged(S, t, s))
         /\ Cents(Pledged(S, t, s)) \in Nat
<1> DEFINE some == [i \in Pledged(S, t, s) |-> orders[i].cents]
           k == "pledge"
<1>1. DOMAIN left \subseteq DOMAIN orders
  OBVIOUS
<1>2. \A i \in DOMAIN some : /\ i \in DOMAIN orders /\ i \notin DOMAIN left
                             /\ some[i] = Claim(orders[i], k, t, s)
  BY DEF Pledged, Claim
<1>3. \A i \in DOMAIN orders : i \notin DOMAIN left /\ i \notin DOMAIN some => Claim(orders[i], k, t, s) = 0
  BY DEF Pledged, Claim
<1>4. Cents(Pledged(S, t, s)) = SumOf(some)
  BY DEF Cents
<1>5. k \in ClaimKinds
  BY DEF ClaimKinds
<1> HIDE DEF some, k
<1>6. Claims(left, k, t, s) = Claims(orders, k, t, s) - SumOf(some) /\ SumOf(some) \in Nat
  BY <1>1, <1>2, <1>3, <1>5, ClaimsReturned
<1> QED
  BY <1>4, <1>6 DEF k

\* ... and in shares.
LEMMA SharesReturned ==
  ASSUME BookSound(orders), NEW S \in SUBSET DOMAIN orders, NEW t, NEW s,
         NEW left, DOMAIN left = DOMAIN orders \ S, \A i \in DOMAIN left : left[i] = orders[i]
  PROVE  /\ Claims(left, "shares", t, s) = Claims(orders, "shares", t, s) - SharesIn(Offered(S, t, s))
         /\ SharesIn(Offered(S, t, s)) \in Nat
<1> DEFINE some == [i \in Offered(S, t, s) |-> orders[i].shares]
           k == "shares"
<1>1. DOMAIN left \subseteq DOMAIN orders
  OBVIOUS
<1>2. \A i \in DOMAIN some : /\ i \in DOMAIN orders /\ i \notin DOMAIN left
                             /\ some[i] = Claim(orders[i], k, t, s)
  BY DEF Offered, Claim
<1>3. \A i \in DOMAIN orders : i \notin DOMAIN left /\ i \notin DOMAIN some => Claim(orders[i], k, t, s) = 0
  BY DEF Offered, Claim
<1>4. SharesIn(Offered(S, t, s)) = SumOf(some)
  BY DEF SharesIn
<1>5. k \in ClaimKinds
  BY DEF ClaimKinds
<1> HIDE DEF some, k
<1>6. Claims(left, k, t, s) = Claims(orders, k, t, s) - SumOf(some) /\ SumOf(some) \in Nat
  BY <1>1, <1>2, <1>3, <1>5, ClaimsReturned
<1> QED
  BY <1>4, <1>6 DEF k

\* What a set of orders that are cancelled gave back.
LEMMA CancelReturns ==
  ASSUME Books, NEW S \in SUBSET DOMAIN orders, S # {}, CancelAll(S)
  PROVE  /\ DOMAIN orders' = DOMAIN orders \ S /\ \A i \in DOMAIN orders' : orders'[i] = orders[i]
         /\ cash' \in [Owners -> Nat]
         /\ esc' = [t \in Traders |-> esc'[t]]
         /\ margin' = [t \in Traders |-> [s \in Symbols |-> margin'[t][s]]]
         /\ \A t \in Traders :
              esc'[t] = esc[t] - Claims(orders, "escrow", t, 0) + Claims(orders', "escrow", t, 0)
         /\ \A t \in Traders, s \in Symbols :
              margin'[t][s] = margin[t][s] - Claims(orders, "pledge", t, s) + Claims(orders', "pledge", t, s)
<1>0. BookSound(orders) /\ Backed /\ CashSound
  BY DEF Books
<1>1. orders' = [i \in DOMAIN orders \ S |-> orders[i]]
  BY DEF CancelAll, Without
<1>2. DOMAIN orders' = DOMAIN orders \ S /\ \A i \in DOMAIN orders' : orders'[i] = orders[i]
  BY <1>1
<1>3. cash' \in [Owners -> Nat]
  <2>1. cash' = [o \in Owners |-> cash[o] + Cents({i \in S : orders[i].by = o})]
    BY DEF CancelAll
  <2>2. ASSUME NEW o \in Owners PROVE cash[o] + Cents({i \in S : orders[i].by = o}) \in Nat
    <3> DEFINE T == {i \in S : orders[i].by = o}
    <3>1. T \in SUBSET DOMAIN orders
      OBVIOUS
    <3> HIDE DEF T
    <3>2. Cents(T) \in Nat
      BY <1>0, <3>1, CentsIsNat
    <3>3. cash[o] \in Nat
      BY <1>0 DEF CashSound
    <3>4. cash[o] + Cents(T) \in Nat
      BY <3>2, <3>3
    <3> QED
      BY <3>4 DEF T
  <2> QED
    BY <2>1, <2>2
<1>4. esc' = [t \in Traders |-> esc[t] - Cents(Escrowed(S, t))]
  BY DEF CancelAll
<1>5. margin' = [t \in Traders |-> [s \in Symbols |-> margin[t][s] - Cents(Pledged(S, t, s))]]
  BY DEF CancelAll
<1>6. ASSUME NEW t \in Traders
      PROVE  esc'[t] = esc[t] - Claims(orders, "escrow", t, 0) + Claims(orders', "escrow", t, 0)
  <2>1. PICK left : left = orders'
    OBVIOUS
  <2>2. /\ Claims(left, "escrow", t, 0) = Claims(orders, "escrow", t, 0) - Cents(Escrowed(S, t))
        /\ Cents(Escrowed(S, t)) \in Nat
    BY <1>0, <1>2, <2>1, EscrowReturned
  <2>3. Claims(orders, "escrow", t, 0) \in Nat
    BY <1>0, ClaimsAreNat DEF ClaimKinds
  <2>4. esc'[t] = esc[t] - Cents(Escrowed(S, t)) /\ esc[t] \in Nat
    BY <1>0, <1>4 DEF Backed
  <2> QED
    BY <2>1, <2>2, <2>3, <2>4
<1>7. ASSUME NEW t \in Traders, NEW s \in Symbols
      PROVE  margin'[t][s] = margin[t][s] - Claims(orders, "pledge", t, s) + Claims(orders', "pledge", t, s)
  <2>1. PICK left : left = orders'
    OBVIOUS
  <2>2. /\ Claims(left, "pledge", t, s) = Claims(orders, "pledge", t, s) - Cents(Pledged(S, t, s))
        /\ Cents(Pledged(S, t, s)) \in Nat
    BY <1>0, <1>2, <2>1, PledgeReturned
  <2>3. Claims(orders, "pledge", t, s) \in Nat
    BY <1>0, ClaimsAreNat DEF ClaimKinds
  <2>4. margin'[t][s] = margin[t][s] - Cents(Pledged(S, t, s)) /\ margin[t][s] \in Nat
    BY <1>0, <1>5 DEF Backed
  <2> QED
    BY <2>1, <2>2, <2>3, <2>4
<1>8. esc' = [t \in Traders |-> esc'[t]]
  BY <1>4
<1>9. margin' = [t \in Traders |-> [s \in Symbols |-> margin'[t][s]]]
  BY <1>5
<1> QED
  BY <1>2, <1>3, <1>6, <1>7, <1>8, <1>9

\* The shares of cancelled sell orders are free again.
LEMMA CancelFrees ==
  ASSUME Books, NEW S \in SUBSET DOMAIN orders, S # {}, CancelAll(S),
         BookSound(orders'), \A s \in Symbols : sec'[s].out = sec[s].out
  PROVE  HoldingsSound' /\ SharesHeld'
<1>0. BookSound(orders) /\ HoldingsSound /\ SharesHeld
  BY DEF Books
<1>1. orders' = [i \in DOMAIN orders \ S |-> orders[i]]
  BY DEF CancelAll, Without
<1>2. DOMAIN orders' = DOMAIN orders \ S /\ \A i \in DOMAIN orders' : orders'[i] = orders[i]
  BY <1>1
<1> DEFINE back(t, s) == SharesIn(Offered(S, t, s))
<1>3. holding' = [t \in Traders |-> [s \in Symbols |->
                    Freed(holding[t][s], back(t, s))]]
  BY DEF CancelAll
<1>4. ASSUME NEW t \in Traders, NEW s \in Symbols
      PROVE  Claims(orders', "shares", t, s) = Claims(orders, "shares", t, s) - back(t, s)
             /\ back(t, s) \in Nat
  <2>1. PICK left : left = orders'
    OBVIOUS
  <2>2. DOMAIN left = DOMAIN orders \ S /\ \A i \in DOMAIN left : left[i] = orders[i]
    BY <1>2, <2>1
  <2>3. /\ Claims(left, "shares", t, s) = Claims(orders, "shares", t, s) - back(t, s)
        /\ back(t, s) \in Nat
    BY <1>0, <2>2, SharesReturned
  <2> HIDE DEF back
  <2> QED
    BY <2>1, <2>3
<1> HIDE DEF back
<1>5. ASSUME NEW t \in Traders, NEW s \in Symbols
      PROVE  /\ holding'[t][s] \in Holdings /\ holding'[t][s].qty = holding[t][s].qty
             /\ holding'[t][s].reserved = Claims(orders', "shares", t, s)
  <2>1. PICK h : h = holding[t][s]
    OBVIOUS
  <2>2. h \in Holdings /\ h.reserved = Claims(orders, "shares", t, s)
    BY <1>0, <2>1 DEF HoldingsSound
  <2>3. PICK c : c = Claims(orders', "shares", t, s)
    OBVIOUS
  <2>4. c \in Nat
    BY <2>3, ClaimsAreNat DEF ClaimKinds
  <2>5. PICK d : d = back(t, s)
    OBVIOUS
  <2>6. d \in Nat /\ h.reserved - d = c
    BY <1>4, <2>2, <2>3, <2>5
  <2>7. holding'[t][s] = Freed(h, d)
    BY <1>3, <2>1, <2>5
  <2>8. Freed(h, d) \in Holdings /\ Freed(h, d).qty = h.qty /\ Freed(h, d).reserved = h.reserved - d
    BY <2>2, <2>4, <2>6 DEF Holdings, Freed
  <2> QED
    BY <2>1, <2>3, <2>6, <2>7, <2>8
<1>6. holding' \in [Traders -> [Symbols -> Holdings]]
  <2>1. holding' = [t \in Traders |-> [s \in Symbols |-> holding'[t][s]]]
    BY <1>3
  <2> QED
    BY <1>5, <2>1
<1>7. HoldingsSound'
  BY <1>5, <1>6 DEF HoldingsSound
<1>8. SharesHeld'
  <2> SUFFICES ASSUME NEW s \in Symbols
               PROVE  SumOf([t \in Traders |-> holding'[t][s].qty]) = sec'[s].out
    BY DEF SharesHeld
  <2>1. [t \in Traders |-> holding'[t][s].qty] = [t \in Traders |-> holding[t][s].qty]
    BY <1>5
  <2>2. SumOf([t \in Traders |-> holding[t][s].qty]) = sec[s].out
    BY <1>0 DEF SharesHeld
  <2> QED
    BY <2>1, <2>2
<1> QED
  BY <1>7, <1>8

\* _cancel of any set of orders keeps the accounts.
LEMMA CancelHolds ==
  ASSUME Books, NEW S \in SUBSET DOMAIN orders, CancelAll(S), SecSame,
         UNCHANGED <<shorts, ipo>>, \A s \in Symbols : sec'[s].ref = sec[s].ref
  PROVE  Books'
<1>0. /\ BookSound(orders) /\ Backed /\ ReservesExact /\ OffersSound /\ PositionsSound
      /\ \A i \in DOMAIN orders : orders[i].sym \in Symbols
  BY DEF Books, BookSound, OrderSound
<1>1. CASE S = {}
  <2>1. UNCHANGED <<orders, esc, margin, holding, cash>>
    BY <1>1 DEF CancelAll, bookVars
  <2> QED
    BY <1>0, <2>1, SameBooks DEF Books, CashSound
<1>2. CASE S # {}
  <2>1. /\ DOMAIN orders' = DOMAIN orders \ S /\ \A i \in DOMAIN orders' : orders'[i] = orders[i]
        /\ cash' \in [Owners -> Nat]
        /\ esc' = [t \in Traders |-> esc'[t]]
        /\ margin' = [t \in Traders |-> [s \in Symbols |-> margin'[t][s]]]
        /\ \A t \in Traders :
             esc'[t] = esc[t] - Claims(orders, "escrow", t, 0) + Claims(orders', "escrow", t, 0)
        /\ \A t \in Traders, s \in Symbols :
             margin'[t][s] = margin[t][s] - Claims(orders, "pledge", t, s) + Claims(orders', "pledge", t, s)
    BY <1>2, CancelReturns
  <2>2. BookSound(orders')
    <3>1. IsFiniteSet(DOMAIN orders')
      BY <1>0, <2>1, FS_Subset DEF BookSound
    <3> QED
      BY <1>0, <2>1, <3>1 DEF BookSound
  <2>3. ReservesExact'
    BY <1>0, <2>1, ReservesKept
  <2>4. HoldingsSound' /\ SharesHeld'
    BY <1>2, <2>2, CancelFrees DEF SecSame
  <2>5. PositionsSound' /\ OffersSound' /\ SecSound' /\ CashSound'
    BY <1>0, <2>1 DEF Books, PositionsSound, PositionSound, OffersSound, OfferSound, SecSame,
                      SecSound, CashSound
  <2>6. ASSUME NEW t \in Traders
        PROVE  esc'[t] \in Nat /\ esc'[t] = Claims(orders', "escrow", t, 0) + Interest(ipo', t)
    <3>1. Claims(orders, "escrow", t, 0) \in Nat /\ Claims(orders', "escrow", t, 0) \in Nat
      BY <1>0, <2>2, ClaimsAreNat DEF ClaimKinds
    <3>2. Interest(ipo, t) \in Nat /\ Interest(ipo', t) = Interest(ipo, t)
      BY <1>0, InterestIsNat
    <3> QED
      BY <1>0, <2>1, <3>1, <3>2 DEF Backed
  <2>7. ASSUME NEW t \in Traders, NEW s \in Symbols
        PROVE  /\ margin'[t][s] \in Nat
               /\ margin'[t][s] = Claims(orders', "pledge", t, s) + shorts'[t][s].coll
    <3>1. Claims(orders, "pledge", t, s) \in Nat /\ Claims(orders', "pledge", t, s) \in Nat
      BY <1>0, <2>2, ClaimsAreNat DEF ClaimKinds
    <3>2. shorts[t][s].coll \in Nat
      BY <1>0 DEF PositionsSound, PositionSound, Positions
    <3> QED
      BY <1>0, <2>1, <3>1, <3>2 DEF Backed
  <2>8. Backed'
    <3>1. esc' \in [Traders -> Nat]
      BY <2>1, <2>6
    <3>2. margin' \in [Traders -> [Symbols -> Nat]]
      BY <2>1, <2>7
    <3> QED
      BY <2>6, <2>7, <3>1, <3>2 DEF Backed
  <2>9. BookSound(orders)'
    BY <2>2 DEF BookSound, OrderSound
  <2> QED
    BY <2>3, <2>4, <2>5, <2>8, <2>9 DEF Books
<1> QED
  BY <1>1, <1>2

-----------------------------------------------------------------------------
(* Admission *)

\* What an order holds is set aside for it when it enters the book.
SetAside(o) ==
  /\ cash' \in [Owners -> Nat]
  /\ esc' = [t \in Traders |-> esc[t] + Claim(o, "escrow", t, 0)]
  /\ margin' = [t \in Traders |-> [s \in Symbols |-> margin[t][s] + Claim(o, "pledge", t, s)]]
  /\ holding' = [t \in Traders |-> [s \in Symbols |-> Freed(holding[t][s], -Claim(o, "shares", t, s))]]

\* The book with one more order.
LEMMA EnteredBook ==
  ASSUME BookSound(orders), ord \in [Symbols -> Nat], NEW o, OrderSound(o), Enter(o)
  PROVE  /\ BookSound(orders') /\ ord' \in [Symbols -> Nat]
         /\ DOMAIN orders' = DOMAIN orders \cup {NewId} /\ orders'[NewId] = o
         /\ \A i \in DOMAIN orders : orders'[i] = orders[i]
         /\ \A k \in ClaimKinds : \A t, s :
              Claims(orders', k, t, s) = Claims(orders, k, t, s) + Claim(o, k, t, s)
<1>1. PICK n \in Nat : n = NewId /\ n \notin DOMAIN orders
  BY NewIdIs
<1>2. orders' = [i \in DOMAIN orders \cup {n} |-> IF i = n THEN o ELSE orders[i]]
  BY <1>1 DEF Enter
<1>3. DOMAIN orders' = DOMAIN orders \cup {n} /\ orders'[n] = o
      /\ \A i \in DOMAIN orders : orders'[i] = orders[i]
  BY <1>1, <1>2
<1>4. BookSound(orders')
  <2>1. IsFiniteSet(DOMAIN orders')
    BY <1>1, <1>3, FS_AddElement DEF BookSound
  <2> QED
    BY <1>1, <1>3, <2>1 DEF BookSound
<1>5. ord' \in [Symbols -> Nat]
  <2>1. ord' = [ord EXCEPT ![o.sym] = @ + 1]
    BY DEF Enter
  <2>2. o.sym \in Symbols
    BY DEF OrderSound
  <2> QED
    BY <2>1, <2>2
<1>6. ASSUME NEW k \in ClaimKinds, NEW t, NEW s
      PROVE  Claims(orders', k, t, s) = Claims(orders, k, t, s) + Claim(o, k, t, s)
  <2>1. PICK new : new = orders'
    OBVIOUS
  <2>2. /\ n \in DOMAIN new /\ n \notin DOMAIN orders /\ new[n] = o /\ OrderSound(new[n])
        /\ \A i \in DOMAIN orders : i \in DOMAIN new /\ new[i] = orders[i]
        /\ \A i \in DOMAIN new : i = n \/ i \in DOMAIN orders
    BY <1>1, <1>3, <2>1
  <2>3. Claims(new, k, t, s) = Claims(orders, k, t, s) + Claim(new[n], k, t, s)
    BY <2>2, ClaimsEntered
  <2> QED
    BY <2>1, <2>2, <2>3
<1> QED
  BY <1>1, <1>3, <1>4, <1>5, <1>6

\* An order enters for which was set aside what it holds.
LEMMA EnterHolds ==
  ASSUME Books, NEW o, OrderSound(o), Enter(o), SetAside(o),
         o.side = "buy" => LET p == ReservePrice(o.sym, o.lim)
                           IN  o.cents = o.rem * (p + Commission(p))
  PROVE  Books'
<1>0. /\ BookSound(orders) /\ Backed /\ ReservesExact /\ OffersSound /\ PositionsSound /\ SecSound
      /\ HoldingsSound /\ SharesHeld
  BY DEF Books
<1>1. UNCHANGED <<shorts, sec, ipo>>
  BY DEF Enter
<1>2. /\ BookSound(orders') /\ ord' \in [Symbols -> Nat]
      /\ DOMAIN orders' = DOMAIN orders \cup {NewId} /\ orders'[NewId] = o
      /\ \A i \in DOMAIN orders : orders'[i] = orders[i]
      /\ \A k \in ClaimKinds : \A t, s :
           Claims(orders', k, t, s) = Claims(orders, k, t, s) + Claim(o, k, t, s)
  BY <1>0, EnteredBook DEF SecSound
<1>3. \A k \in ClaimKinds : \A t, s : Claims(orders, k, t, s) \in Nat /\ Claim(o, k, t, s) \in Nat
  BY <1>0, ClaimsAreNat, ClaimIsNat
<1>4. ReservesExact'
  <2> SUFFICES ASSUME NEW i \in DOMAIN orders', orders'[i].side = "buy"
               PROVE  \E p : /\ p = ReservePrice(orders[i].sym, orders[i].lim)'
                             /\ orders'[i].cents = orders'[i].rem * (p + Commission(p))
    BY DEF ReservesExact, Commission, bp_ceil
  <2>1. PICK x, z, l : x = orders'[i] /\ z = x.sym /\ l = x.lim
    OBVIOUS
  <2>2. PICK p : p = ReservePrice(z, l)
    OBVIOUS
  <2>3. ReservePrice(z, l)' = p
    BY <1>1, <2>2, ReservePriceSame
  <2>4. ReservePrice(orders[i].sym, orders[i].lim)' = ReservePrice(z, l)'
    BY <2>1 DEF ReservePrice, Band
  <2>5. x.cents = x.rem * (p + Commission(p))
    <3>1. CASE i \in DOMAIN orders
      BY <1>0, <1>2, <2>1, <2>2, <3>1 DEF ReservesExact
    <3>2. CASE i \notin DOMAIN orders
      BY <1>2, <2>1, <2>2, <3>2
    <3> QED
      BY <3>1, <3>2
  <2> QED
    BY <2>1, <2>3, <2>4, <2>5
<1>5. ASSUME NEW t \in Traders
      PROVE  esc'[t] \in Nat /\ esc'[t] = Claims(orders', "escrow", t, 0) + Interest(ipo', t)
  <2>1. Interest(ipo, t) \in Nat /\ Interest(ipo', t) = Interest(ipo, t)
    BY <1>0, <1>1, InterestIsNat
  <2>2. /\ Claims(orders', "escrow", t, 0) = Claims(orders, "escrow", t, 0) + Claim(o, "escrow", t, 0)
        /\ Claims(orders, "escrow", t, 0) \in Nat /\ Claim(o, "escrow", t, 0) \in Nat
    BY <1>2, <1>3 DEF ClaimKinds
  <2>3. esc'[t] = esc[t] + Claim(o, "escrow", t, 0)
    BY DEF SetAside
  <2>4. esc[t] = Claims(orders, "escrow", t, 0) + Interest(ipo, t)
    BY <1>0 DEF Backed
  <2> QED
    BY <2>1, <2>2, <2>3, <2>4
<1>6. ASSUME NEW t \in Traders, NEW s \in Symbols
      PROVE  /\ margin'[t][s] \in Nat
             /\ margin'[t][s] = Claims(orders', "pledge", t, s) + shorts'[t][s].coll
  <2>1. shorts[t][s].coll \in Nat
    BY <1>0 DEF PositionsSound, PositionSound, Positions
  <2>2. /\ Claims(orders', "pledge", t, s) = Claims(orders, "pledge", t, s) + Claim(o, "pledge", t, s)
        /\ Claims(orders, "pledge", t, s) \in Nat /\ Claim(o, "pledge", t, s) \in Nat
    BY <1>2, <1>3 DEF ClaimKinds
  <2>3. margin'[t][s] = margin[t][s] + Claim(o, "pledge", t, s)
    BY DEF SetAside
  <2>4. margin[t][s] = Claims(orders, "pledge", t, s) + shorts[t][s].coll
    BY <1>0 DEF Backed
  <2> QED
    BY <1>1, <2>1, <2>2, <2>3, <2>4
<1>7. ASSUME NEW t \in Traders, NEW s \in Symbols
      PROVE  /\ holding'[t][s] \in Holdings /\ holding'[t][s].qty = holding[t][s].qty
             /\ holding'[t][s].reserved = Claims(orders', "shares", t, s)
  <2>1. PICK h, d : h = holding[t][s] /\ d = Claim(o, "shares", t, s)
    OBVIOUS
  <2>2. h \in Holdings /\ h.reserved = Claims(orders, "shares", t, s)
    BY <1>0, <2>1 DEF HoldingsSound
  <2>3. /\ Claims(orders', "shares", t, s) = Claims(orders, "shares", t, s) + d
        /\ Claims(orders, "shares", t, s) \in Nat /\ d \in Nat
    BY <1>2, <1>3, <2>1 DEF ClaimKinds
  <2>4. holding'[t][s] = Freed(h, -d)
    BY <2>1 DEF SetAside
  <2>5. h.reserved \in Nat /\ h.reserved - (-d) = h.reserved + d /\ h.reserved + d \in Nat
    BY <2>2, <2>3
  <2>6. Freed(h, -d) \in Holdings /\ Freed(h, -d).qty = h.qty /\ Freed(h, -d).reserved = h.reserved + d
    BY <2>2, <2>5 DEF Holdings, Freed
  <2> QED
    BY <2>1, <2>2, <2>3, <2>4, <2>6
<1>8. Backed'
  <2>1. esc' \in [Traders -> Nat]
    BY <1>5 DEF SetAside
  <2>2. margin' \in [Traders -> [Symbols -> Nat]]
    BY <1>6 DEF SetAside
  <2> QED
    BY <1>5, <1>6, <2>1, <2>2 DEF Backed
<1>9. HoldingsSound'
  <2>1. holding' \in [Traders -> [Symbols -> Holdings]]
    BY <1>7 DEF SetAside
  <2> QED
    BY <1>7, <2>1 DEF HoldingsSound
<1>10. SharesHeld'
  <2> SUFFICES ASSUME NEW s \in Symbols
               PROVE  SumOf([t \in Traders |-> holding'[t][s].qty]) = sec'[s].out
    BY DEF SharesHeld
  <2>1. [t \in Traders |-> holding'[t][s].qty] = [t \in Traders |-> holding[t][s].qty]
    BY <1>7
  <2>2. SumOf([t \in Traders |-> holding[t][s].qty]) = sec[s].out
    BY <1>0 DEF SharesHeld
  <2> QED
    BY <1>1, <2>1, <2>2
<1>11. PositionsSound' /\ OffersSound' /\ SecSound' /\ CashSound'
  BY <1>0, <1>1, <1>2
  DEF PositionsSound, PositionSound, OffersSound, OfferSound, SecSound, CashSound, SetAside
<1>12. BookSound(orders)'
  BY <1>2 DEF BookSound, OrderSound
<1> QED
  BY <1>4, <1>8, <1>9, <1>10, <1>11, <1>12 DEF Books

\* What a new order holds, by what it is.
LEMMA OrderClaims ==
  ASSUME NEW t, NEW s, NEW side, NEW lim, NEW qty, NEW kind, NEW cents, NEW shares, NEW o,
         o = Order(t, s, side, lim, qty, kind, cents, shares)
  PROVE  /\ o.side = side /\ o.sym = s /\ o.lim = lim /\ o.rem = qty /\ o.cents = cents
         /\ \A u, z :
              /\ Claim(o, "escrow", u, z) = (IF u = t /\ kind # "short" THEN cents ELSE 0)
              /\ Claim(o, "pledge", u, z) = (IF u = t /\ z = s /\ kind = "short" THEN cents ELSE 0)
              /\ Claim(o, "shares", u, z) = (IF u = t /\ z = s THEN shares ELSE 0)
<1>1. o = [by |-> t, sym |-> s, side |-> side, lim |-> lim, rem |-> qty, kind |-> kind,
           cents |-> cents, shares |-> shares, tick |-> tick, ord |-> ord[s]]
  BY DEF Order
<1>2. o.by = t /\ o.kind = kind /\ o.shares = shares
      /\ o.side = side /\ o.sym = s /\ o.lim = lim /\ o.rem = qty /\ o.cents = cents
  BY <1>1
<1>3. ASSUME NEW u, NEW z
      PROVE  Claim(o, "escrow", u, z) = (IF u = t /\ kind # "short" THEN cents ELSE 0)
  BY <1>2 DEF Claim
<1>4. ASSUME NEW u, NEW z
      PROVE  Claim(o, "pledge", u, z) = (IF u = t /\ z = s /\ kind = "short" THEN cents ELSE 0)
  BY <1>2 DEF Claim
<1>5. ASSUME NEW u, NEW z
      PROVE  Claim(o, "shares", u, z) = (IF u = t /\ z = s THEN shares ELSE 0)
  BY <1>2 DEF Claim
<1> QED
  BY <1>2, <1>3, <1>4, <1>5

\* A new order is sound.
LEMMA OrderIsSound ==
  ASSUME tick \in Nat, ord \in [Symbols -> Nat],
         NEW t \in Traders, NEW s \in Symbols, NEW side \in {"buy", "sell"}, NEW lim \in 0..Highest,
         NEW qty \in Nat \ {0}, NEW kind, NEW cents \in Nat, NEW shares,
         side = "buy" => kind \in {"plain", "forced"} /\ shares = 0,
         side = "sell" => \/ kind = "short" /\ shares = 0
                          \/ kind = "plain" /\ cents = 0 /\ shares = qty
  PROVE  OrderSound(Order(t, s, side, lim, qty, kind, cents, shares))
<1>1. PICK o : o = Order(t, s, side, lim, qty, kind, cents, shares)
  OBVIOUS
<1>2. o = [by |-> t, sym |-> s, side |-> side, lim |-> lim, rem |-> qty, kind |-> kind,
           cents |-> cents, shares |-> shares, tick |-> tick, ord |-> ord[s]]
  BY <1>1 DEF Order
<1>3. DOMAIN o = OrderFields
  BY <1>2 DEF OrderFields
<1>4. /\ o.by = t /\ o.sym = s /\ o.side = side /\ o.lim = lim /\ o.rem = qty /\ o.kind = kind
      /\ o.cents = cents /\ o.shares = shares /\ o.tick = tick /\ o.ord = ord[s]
  BY <1>2
<1>5. ord[s] \in Nat
  OBVIOUS
<1>6. OrderSound(o)
  BY <1>3, <1>4, <1>5 DEF OrderSound
<1> QED
  BY <1>1, <1>6

\* A holding that nothing is taken from.
LEMMA FreedNone ==
  ASSUME NEW h \in Holdings, NEW n, n = 0
  PROVE  Freed(h, -n) = h
<1>1. h.reserved - (-n) = h.reserved
  BY DEF Holdings
<1> QED
  BY <1>1 DEF Holdings, Freed

\* Limits are natural numbers.
LEMMA HighestIsNat == Highest \in Nat
BY SMT DEF Highest

\* ... all of them.
LEMMA LimitIsNat == \A lim \in 0..Highest : lim \in Nat
BY HighestIsNat

\* An order that reserves no shares leaves the holdings.
LEMMA HoldingsSame ==
  ASSUME HoldingsSound, holding' = holding, NEW o, \A t, s : Claim(o, "shares", t, s) = 0
  PROVE  holding' = [t \in Traders |-> [s \in Symbols |->
                       Freed(holding[t][s], -Claim(o, "shares", t, s))]]
<1>1. \A t \in Traders, s \in Symbols : Freed(holding[t][s], -Claim(o, "shares", t, s)) = holding[t][s]
  <2> TAKE t \in Traders, s \in Symbols
  <2>1. holding[t][s] \in Holdings
    BY DEF HoldingsSound
  <2> QED
    BY <2>1, FreedNone
<1>2. holding \in [Traders -> [Symbols -> Holdings]]
  BY DEF HoldingsSound
<1> HIDE DEF Holdings
<1> QED
  BY <1>1, <1>2

\* A buy order or a forced cover (engine.py:443-470).
LEMMA EnterBuyHolds ==
  ASSUME Books, tick \in Nat, NEW t \in Traders, NEW s \in Symbols, NEW lim \in 0..Highest,
         NEW qty \in Nat \ {0}, NEW kind \in {"plain", "forced"}, EnterBuy(t, s, lim, qty, kind)
  PROVE  Books'
<1>0. /\ Backed /\ SecSound /\ CashSound /\ HoldingsSound
  BY DEF Books
<1>1. lim \in Nat /\ sec[s].ref \in Nat /\ ord \in [Symbols -> Nat]
  BY <1>0, LimitIsNat DEF SecSound
<1>2. PICK p \in Nat : p = ReservePrice(s, lim)
  BY <1>1, ReservePriceIsNat
<1>3. PICK cents \in Nat : cents = ReserveRequired(qty, p) /\ cents = qty * (p + Commission(p))
  BY ReserveIs
<1>4. PICK o : o = Order(t, s, "buy", lim, qty, kind, cents, 0)
  OBVIOUS
<1>5. /\ cash[t] >= cents
      /\ cash' = [cash EXCEPT ![t] = @ - cents]
      /\ esc' = [esc EXCEPT ![t] = @ + cents]
      /\ Enter(o) /\ margin' = margin /\ holding' = holding
  BY <1>2, <1>3, <1>4 DEF EnterBuy
<1>6. OrderSound(o)
  BY <1>1, <1>4, OrderIsSound
<1>7. /\ o.side = "buy" /\ o.sym = s /\ o.lim = lim /\ o.rem = qty /\ o.cents = cents
      /\ \A u, z :
           /\ Claim(o, "escrow", u, z) = (IF u = t /\ kind # "short" THEN cents ELSE 0)
           /\ Claim(o, "pledge", u, z) = (IF u = t /\ z = s /\ kind = "short" THEN cents ELSE 0)
           /\ Claim(o, "shares", u, z) = 0
  BY <1>4, OrderClaims
<1>8. \A u, z : /\ Claim(o, "escrow", u, z) = (IF u = t THEN cents ELSE 0)
                /\ Claim(o, "pledge", u, z) = 0 /\ Claim(o, "shares", u, z) = 0
  BY <1>7
<1>9. SetAside(o)
  <2>1. cash' \in [Owners -> Nat]
    <3>1. t \in Owners
      BY DEF Owners
    <3> QED
      BY <1>0, <1>5, <3>1 DEF CashSound
  <2>2. esc' = [u \in Traders |-> esc[u] + Claim(o, "escrow", u, 0)]
    <3>1. \A u \in Traders : esc[u] + Claim(o, "escrow", u, 0) = IF u = t THEN esc[u] + cents ELSE esc[u]
      BY <1>0, <1>8 DEF Backed
    <3> QED
      BY <1>0, <1>5, <3>1 DEF Backed
  <2>3. margin' = [u \in Traders |-> [z \in Symbols |-> margin[u][z] + Claim(o, "pledge", u, z)]]
    <3>1. \A u \in Traders, z \in Symbols : margin[u][z] + Claim(o, "pledge", u, z) = margin[u][z]
      BY <1>0, <1>8 DEF Backed
    <3> QED
      BY <1>0, <1>5, <3>1 DEF Backed
  <2>4. holding' = [u \in Traders |-> [z \in Symbols |-> Freed(holding[u][z], -Claim(o, "shares", u, z))]]
    BY <1>0, <1>5, <1>8, HoldingsSame
  <2> QED
    BY <2>1, <2>2, <2>3, <2>4 DEF SetAside
<1>10. o.cents = o.rem * (ReservePrice(o.sym, o.lim) + Commission(ReservePrice(o.sym, o.lim)))
  BY <1>2, <1>3, <1>7
<1> QED
  BY <1>5, <1>6, <1>9, <1>10, EnterHolds

\* A sell order reserves shares.
LEMMA SubmitSellHolds ==
  ASSUME Books, tick \in Nat, NEW t \in Traders, NEW s \in Symbols, NEW lim \in 0..Highest,
         NEW qty \in Nat \ {0}, SubmitSell(t, s, lim, qty)
  PROVE  Books'
<1>0. /\ Backed /\ SecSound /\ CashSound /\ HoldingsSound
  BY DEF Books
<1>4. PICK o : o = Order(t, s, "sell", lim, qty, "plain", 0, qty)
  OBVIOUS
<1>5. /\ holding' = [holding EXCEPT ![t][s].reserved = @ + qty]
      /\ Enter(o) /\ cash' = cash /\ esc' = esc /\ margin' = margin
  BY <1>4 DEF SubmitSell
<1>6. OrderSound(o)
  BY <1>0, <1>4, OrderIsSound DEF SecSound
<1>7. /\ o.side = "sell" /\ o.sym = s /\ o.lim = lim /\ o.rem = qty /\ o.cents = 0
      /\ \A u, z :
           /\ Claim(o, "escrow", u, z) = 0
           /\ Claim(o, "pledge", u, z) = 0
           /\ Claim(o, "shares", u, z) = (IF u = t /\ z = s THEN qty ELSE 0)
  BY <1>4, OrderClaims
<1>8. \A u, z : /\ Claim(o, "escrow", u, z) = 0 /\ Claim(o, "pledge", u, z) = 0
                /\ Claim(o, "shares", u, z) = (IF u = t /\ z = s THEN qty ELSE 0)
  BY <1>7
<1>9. SetAside(o)
  <2>1. cash' \in [Owners -> Nat]
    BY <1>0, <1>5 DEF CashSound
  <2>2. esc' = [u \in Traders |-> esc[u] + Claim(o, "escrow", u, 0)]
    <3>1. \A u \in Traders : esc[u] + Claim(o, "escrow", u, 0) = esc[u]
      BY <1>0, <1>8 DEF Backed
    <3> QED
      BY <1>0, <1>5, <3>1 DEF Backed
  <2>3. margin' = [u \in Traders |-> [z \in Symbols |-> margin[u][z] + Claim(o, "pledge", u, z)]]
    <3>1. \A u \in Traders, z \in Symbols : margin[u][z] + Claim(o, "pledge", u, z) = margin[u][z]
      BY <1>0, <1>8 DEF Backed
    <3> QED
      BY <1>0, <1>5, <3>1 DEF Backed
  <2>4. holding' = [u \in Traders |-> [z \in Symbols |-> Freed(holding[u][z], -Claim(o, "shares", u, z))]]
    <3>1. holding \in [Traders -> [Symbols -> Holdings]]
      BY <1>0 DEF HoldingsSound
    <3>2. ASSUME NEW u \in Traders, NEW z \in Symbols
          PROVE  holding'[u][z] = Freed(holding[u][z], -Claim(o, "shares", u, z))
      <4>1. PICK h : h = holding[u][z] /\ h \in Holdings
        BY <3>1
      <4>2. CASE u = t /\ z = s
        <5>1. holding'[u][z] = [h EXCEPT !.reserved = @ + qty]
          BY <1>5, <3>1, <4>1, <4>2
        <5>2. h.reserved + qty = h.reserved - (-qty)
          BY <4>1 DEF Holdings
        <5>3. Freed(h, -qty) = [h EXCEPT !.reserved = @ + qty]
          BY <4>1, <5>2 DEF Freed, Holdings
        <5> QED
          BY <1>8, <4>1, <4>2, <5>1, <5>3
      <4>3. CASE ~(u = t /\ z = s)
        <5>1. holding'[u][z] = h
          BY <1>5, <3>1, <4>1, <4>3
        <5>2. Claim(o, "shares", u, z) = 0
          BY <1>8, <4>3
        <5> QED
          BY <4>1, <5>1, <5>2, FreedNone
      <4> QED
        BY <4>2, <4>3
    <3>3. holding' = [u \in Traders |-> [z \in Symbols |-> holding'[u][z]]]
      BY <1>5, <3>1
    <3> QED
      BY <3>2, <3>3
  <2> QED
    BY <2>1, <2>2, <2>3, <2>4 DEF SetAside
<1> QED
  BY <1>5, <1>6, <1>7, <1>9, EnterHolds

\* A short order brings its collateral.
LEMMA SubmitShortHolds ==
  ASSUME Books, tick \in Nat, NEW t \in Traders, NEW s \in Symbols, NEW lim \in 0..Highest,
         NEW qty \in Nat \ {0}, SubmitShort(t, s, lim, qty)
  PROVE  Books'
<1>0. /\ Backed /\ SecSound /\ CashSound /\ HoldingsSound
  BY DEF Books
<1>1. lim \in Nat /\ sec[s].ref \in Nat /\ ord \in [Symbols -> Nat]
  BY <1>0, LimitIsNat DEF SecSound
<1>2. PICK p \in Nat : p = ReservePrice(s, lim)
  BY <1>1, ReservePriceIsNat
<1>3. PICK coll \in Nat : coll = bp_ceil(qty * p, Settings.initial_margin_bp)
  <2>1. qty * p \in Nat /\ Settings.initial_margin_bp \in Nat
    BY SettingsAssumption
  <2> QED
    BY <2>1, CeilIsNat
<1>4. PICK o : o = Order(t, s, "sell", lim, qty, "short", coll, 0)
  OBVIOUS
<1>5. /\ cash[t] >= coll
      /\ cash' = [cash EXCEPT ![t] = @ - coll]
      /\ margin' = [margin EXCEPT ![t][s] = @ + coll]
      /\ Enter(o) /\ esc' = esc /\ holding' = holding
  BY <1>2, <1>3, <1>4 DEF SubmitShort
<1>6. OrderSound(o)
  BY <1>1, <1>4, OrderIsSound
<1>7. /\ o.side = "sell" /\ o.sym = s /\ o.lim = lim /\ o.rem = qty /\ o.cents = coll
      /\ \A u, z :
           /\ Claim(o, "escrow", u, z) = 0
           /\ Claim(o, "pledge", u, z) = (IF u = t /\ z = s THEN coll ELSE 0)
           /\ Claim(o, "shares", u, z) = 0
  BY <1>4, OrderClaims
<1>8. \A u, z : /\ Claim(o, "escrow", u, z) = 0 /\ Claim(o, "shares", u, z) = 0
                /\ Claim(o, "pledge", u, z) = (IF u = t /\ z = s THEN coll ELSE 0)
  BY <1>7
<1>9. SetAside(o)
  <2>1. cash' \in [Owners -> Nat]
    <3>1. t \in Owners
      BY DEF Owners
    <3> QED
      BY <1>0, <1>5, <3>1 DEF CashSound
  <2>2. esc' = [u \in Traders |-> esc[u] + Claim(o, "escrow", u, 0)]
    <3>1. \A u \in Traders : esc[u] + Claim(o, "escrow", u, 0) = esc[u]
      BY <1>0, <1>8 DEF Backed
    <3> QED
      BY <1>0, <1>5, <3>1 DEF Backed
  <2>3. margin' = [u \in Traders |-> [z \in Symbols |-> margin[u][z] + Claim(o, "pledge", u, z)]]
    <3>1. margin \in [Traders -> [Symbols -> Nat]]
      BY <1>0 DEF Backed
    <3>2. ASSUME NEW u \in Traders, NEW z \in Symbols
          PROVE  margin'[u][z] = margin[u][z] + Claim(o, "pledge", u, z)
      <4>1. CASE u = t /\ z = s
        BY <1>5, <1>8, <3>1, <4>1
      <4>2. CASE ~(u = t /\ z = s)
        <5>1. margin'[u][z] = margin[u][z] /\ margin[u][z] \in Nat
          BY <1>5, <3>1, <4>2
        <5>2. Claim(o, "pledge", u, z) = 0
          BY <1>8, <4>2
        <5> QED
          BY <5>1, <5>2
      <4> QED
        BY <4>1, <4>2
    <3>3. margin' = [u \in Traders |-> [z \in Symbols |-> margin'[u][z]]]
      BY <1>5, <3>1
    <3> QED
      BY <3>2, <3>3
  <2>4. holding' = [u \in Traders |-> [z \in Symbols |-> Freed(holding[u][z], -Claim(o, "shares", u, z))]]
    BY <1>0, <1>5, <1>8, HoldingsSame
  <2> QED
    BY <2>1, <2>2, <2>3, <2>4 DEF SetAside
<1> QED
  BY <1>5, <1>6, <1>7, <1>9, EnterHolds

-----------------------------------------------------------------------------
(* Continuous trading *)

\* By three numbers, one after the other.
Lower(a, b, c, x, y) ==
  \/ a[x] < a[y]
  \/ a[x] = a[y] /\ b[x] < b[y]
  \/ a[x] = a[y] /\ b[x] = b[y] /\ c[x] < c[y]

\* A finite set has a first member by three keys.
LEMMA HasLowest ==
  ASSUME NEW S, IsFiniteSet(S), S # {}, NEW a, NEW b, NEW c,
         \A x \in S : a[x] \in Int /\ b[x] \in Int /\ c[x] \in Int,
         \A x, y \in S : a[x] = a[y] /\ b[x] = b[y] /\ c[x] = c[y] => x = y
  PROVE  \E x \in S : \A y \in S \ {x} : Lower(a, b, c, x, y)
<1> DEFINE lt == {p \in S \X S : Lower(a, b, c, p[1], p[2])}
<1>1. \A x, y \in S : <<x, y>> \in lt <=> Lower(a, b, c, x, y)
  OBVIOUS
<1> HIDE DEF lt
<1>2. \A x \in S : ~Lower(a, b, c, x, x)
  BY DEF Lower
<1>3. \A x, y, z \in S : Lower(a, b, c, x, y) /\ Lower(a, b, c, y, z) => Lower(a, b, c, x, z)
  BY DEF Lower
<1>4. \A x, y \in S : x # y => Lower(a, b, c, x, y) \/ Lower(a, b, c, y, x)
  BY DEF Lower
<1>5. Ranked(lt, S)
  BY <1>1, <1>2, <1>3, <1>4 DEF Ranked
<1>6. PICK x \in S : \A y \in S \ {x} : <<x, y>> \in lt
  BY <1>5, HasFirst
<1> QED
  BY <1>1, <1>6

\* There is a first order by priority,
LEMMA ForemostIs ==
  ASSUME BookSound(orders), NEW S \in SUBSET DOMAIN orders, S # {}
  PROVE  Foremost(S) \in S
<1> DEFINE a == [i \in S |-> IF orders[i].side = "sell" THEN orders[i].lim
                             ELSE -(IF orders[i].lim = 0 THEN Highest ELSE orders[i].lim)]
           b == [i \in S |-> orders[i].ord]
           c == [i \in S |-> i]
<1>0. Highest \in Nat
  BY SMT DEF Highest
<1>1. \A i \in S : orders[i].lim \in Nat /\ orders[i].ord \in Nat /\ i \in Nat
  BY LimitIsNat DEF BookSound, OrderSound
<1>2. \A i \in S : a[i] \in Int /\ b[i] \in Int /\ c[i] \in Int
  BY <1>0, <1>1
<1>3. \A i, j \in S : c[i] = c[j] => i = j
  OBVIOUS
<1>4. \A i, j \in S : Lower(a, b, c, i, j) => Before(i, j)
  BY DEF Lower, Before
<1>5. IsFiniteSet(S)
  BY FS_Subset DEF BookSound
<1> HIDE DEF a, b, c
<1>6. PICK i \in S : \A j \in S \ {i} : Lower(a, b, c, i, j)
  BY <1>2, <1>3, <1>5, HasLowest
<1>7. \A j \in S \ {i} : Before(i, j)
  BY <1>4, <1>6
<1> QED
  BY <1>7 DEF Foremost

\* ... and a first pair of orders of one trader.
LEMMA FirstSelfCrossIs ==
  ASSUME BookSound(orders), SelfCrosses # {}
  PROVE  FirstSelfCross \in SelfCrosses
<1> DEFINE a == [p \in SelfCrosses |-> orders[p[1]].by]
           b == [p \in SelfCrosses |-> p[1]]
           c == [p \in SelfCrosses |-> p[2]]
<1>1. ASSUME NEW p \in SelfCrosses
      PROVE  \E x \in DOMAIN orders, y \in DOMAIN orders : p = <<x, y>>
  <2>1. p \in OnSide(auction.sym, "buy") \X OnSide(auction.sym, "sell")
    BY DEF SelfCrosses
  <2>2. PICK x \in OnSide(auction.sym, "buy"), y \in OnSide(auction.sym, "sell") : p = <<x, y>>
    BY <2>1
  <2>3. x \in DOMAIN orders /\ y \in DOMAIN orders
    BY DEF OnSide, Live
  <2> QED
    BY <2>2, <2>3
<1>2. \A i \in DOMAIN orders : orders[i].by \in Int /\ i \in Int
  <2>1. Traders \subseteq Nat \ {0}
    BY ExchangeAssumption
  <2>2. \A t \in Traders : t \in Int
    BY <2>1
  <2>3. \A i \in DOMAIN orders : orders[i].by \in Traders /\ i \in Nat
    BY DEF BookSound, OrderSound
  <2> QED
    BY <2>2, <2>3
<1>3. ASSUME NEW p \in SelfCrosses
      PROVE  a[p] \in Int /\ b[p] \in Int /\ c[p] \in Int
  <2>1. p[1] \in DOMAIN orders /\ p[2] \in DOMAIN orders
    BY <1>1
  <2>2. a[p] = orders[p[1]].by /\ b[p] = p[1] /\ c[p] = p[2]
    OBVIOUS
  <2> HIDE DEF a, b, c
  <2> QED
    BY <1>2, <2>1, <2>2
<1>4. ASSUME NEW p \in SelfCrosses, NEW q \in SelfCrosses, b[p] = b[q], c[p] = c[q]
      PROVE  p = q
  <2>1. p = <<p[1], p[2]>> /\ q = <<q[1], q[2]>>
    BY <1>1
  <2>2. p[1] = q[1] /\ p[2] = q[2]
    BY <1>4
  <2> QED
    BY <2>1, <2>2
<1>5. IsFiniteSet(SelfCrosses)
  <2>0. PICK D : D = DOMAIN orders
    OBVIOUS
  <2>1. IsFiniteSet(D \X D)
    BY <2>0, FS_Product DEF BookSound
  <2>2. \A p \in SelfCrosses : p \in D \X D
    BY <1>1, <2>0
  <2>3. SelfCrosses \in SUBSET (D \X D)
    BY <2>2
  <2> QED
    BY <2>1, <2>3, FS_Subset
<1>6. \A p, q \in SelfCrosses : Lower(a, b, c, p, q) =>
        \/ orders[p[1]].by < orders[q[1]].by
        \/ orders[p[1]].by = orders[q[1]].by /\ p[1] < q[1]
        \/ orders[p[1]].by = orders[q[1]].by /\ p[1] = q[1] /\ p[2] < q[2]
  BY DEF Lower
<1> HIDE DEF a, b, c
<1>7. PICK p \in SelfCrosses : \A q \in SelfCrosses \ {p} : Lower(a, b, c, p, q)
  BY <1>3, <1>4, <1>5, HasLowest
<1>8. \A q \in SelfCrosses \ {p} :
        \/ orders[p[1]].by < orders[q[1]].by
        \/ orders[p[1]].by = orders[q[1]].by /\ p[1] < q[1]
        \/ orders[p[1]].by = orders[q[1]].by /\ p[1] = q[1] /\ p[2] < q[2]
  BY <1>6, <1>7
<1> QED
  BY <1>8 DEF FirstSelfCross

\* A price in the band is worth a tick at least.
LEMMA BandedPrice ==
  ASSUME NEW s, sec[s].ref \in Nat, NEW p \in Nat, InBand(s, p)
  PROVE  TickSize <= p /\ p <= Band(s)[2]
<1>1. Band(s)[1] \in Nat /\ TickSize <= Band(s)[1] /\ TickSize \in Nat
  BY BandIs, CommissionSettings
<1> QED
  BY <1>1 DEF InBand

\* Two orders that cross at the limit of the resting one, or of the incoming one against a
\* market order.
LEMMA MatchCanFill ==
  ASSUME Books, IInv, NEW r \in Opposite, NEW qty, qty = Least(orders[r].rem, orders[incoming].rem)
  PROVE  IF orders[incoming].side = "buy"
         THEN CanFill(incoming, r, FillPrice(r), qty)
         ELSE CanFill(r, incoming, FillPrice(r), qty)
<1>1. /\ incoming \in DOMAIN orders /\ r \in DOMAIN orders
      /\ orders[r].sym = orders[incoming].sym /\ orders[r].side # orders[incoming].side
      /\ crosses(orders[incoming], orders[r]) /\ orders[r].by # orders[incoming].by
      /\ FillPrice(r) # 0
  BY DEF Opposite, Live
<1>2. PICK i, o, s, p : i = orders[incoming] /\ o = orders[r] /\ s = i.sym /\ p = FillPrice(r)
  OBVIOUS
<1>3. /\ OrderSound(i) /\ OrderSound(o) /\ s \in Symbols /\ o.sym = s /\ sec[s].ref \in Nat
  BY <1>1, <1>2 DEF Books, BookSound, OrderSound, SecSound
<1>4. /\ i.lim \in Nat /\ o.lim \in Nat /\ i.rem \in Nat \ {0} /\ o.rem \in Nat \ {0}
      /\ i.side \in {"buy", "sell"} /\ o.side \in {"buy", "sell"}
  BY <1>3, LimitIsNat DEF OrderSound
<1>5. /\ i.lim # 0 => InBand(s, i.lim)
      /\ o.lim # 0 => InBand(s, o.lim)
  BY <1>1, <1>2 DEF IInv, OrdersHold, OrderHolds
<1>6. p = (IF o.lim # 0 THEN o.lim ELSE i.lim) /\ p # 0
  BY <1>1, <1>2 DEF FillPrice
<1>7. p \in Nat /\ InBand(s, p)
  BY <1>4, <1>5, <1>6
<1>8. TickSize <= p /\ p <= Band(s)[2]
  BY <1>3, <1>7, BandedPrice
<1>9. qty \in Nat \ {0} /\ qty <= i.rem /\ qty <= o.rem
  BY <1>2, <1>4 DEF Least
<1>10. crosses(i, o)
  BY <1>1, <1>2
<1>11. CASE i.side = "buy"
  <2>1. p <= ReservePrice(s, i.lim)
    BY <1>4, <1>6, <1>7, <1>8, <1>10, <1>11 DEF crosses, ReservePrice
  <2> QED
    BY <1>1, <1>2, <1>3, <1>4, <1>7, <1>8, <1>9, <1>11, <2>1 DEF CanFill
<1>12. CASE i.side = "sell"
  <2>1. p <= ReservePrice(s, o.lim)
    BY <1>4, <1>6, <1>7, <1>8, <1>10, <1>12 DEF crosses, ReservePrice
  <2> QED
    BY <1>1, <1>2, <1>3, <1>4, <1>7, <1>8, <1>9, <1>12, <2>1 DEF CanFill
<1> QED
  BY <1>4, <1>11, <1>12

\* A fill of continuous trading keeps the accounts.
LEMMA MatchFillHolds ==
  ASSUME Books, IInv, tick \in Nat, MatchFill
  PROVE  Books'
<1>1. Opposite # {} /\ Opposite \in SUBSET DOMAIN orders /\ BookSound(orders)
  BY DEF MatchFill, Opposite, Live, Books
<1>2. PICK r : r = Foremost(Opposite)
  OBVIOUS
<1>3. r \in Opposite
  BY <1>1, <1>2, ForemostIs
<1>4. PICK qty, price :
        /\ qty = Least(orders[r].rem, orders[incoming].rem) /\ price = FillPrice(r)
        /\ IF orders[incoming].side = "buy"
           THEN Settle(incoming, r, price, qty)
           ELSE Settle(r, incoming, price, qty)
  BY <1>2 DEF MatchFill
<1>5. ipo' = ipo /\ ord' = ord
  BY DEF MatchFill, clockVars
<1>6. SecuritiesHold
  BY DEF IInv
<1>7. IF orders[incoming].side = "buy"
      THEN CanFill(incoming, r, price, qty)
      ELSE CanFill(r, incoming, price, qty)
  BY <1>3, <1>4, MatchCanFill
<1> QED
  BY <1>4, <1>5, <1>6, <1>7, SettleHolds

-----------------------------------------------------------------------------
(* Auctions *)

\* An auction that is over stays so.
LEMMA OverKept ==
  ASSUME AuctionSound, AuctionOver, auction' = auction
  PROVE  AuctionSound'
BY DEF AuctionSound, AuctionOver

\* Outside an auction.
LEMMA NotFilling ==
  ASSUME AuctionSound, stage # "fill", auction' = auction
  PROVE  AuctionSound'
<1>1. AuctionOver
  BY DEF AuctionSound
<1> QED
  BY <1>1, OverKept

\* The front of an auction that goes on.
LEMMA TopsAre ==
  ASSUME BookSound(orders), AuctionSound, ~AuctionOver
  PROVE  TopBid \in auction.bids /\ TopAsk \in auction.asks
<1>1. auction.bids # {} /\ auction.asks # {}
  BY DEF AuctionOver
<1>2. auction.bids \in SUBSET DOMAIN orders /\ auction.asks \in SUBSET DOMAIN orders
  BY DEF AuctionSound, BidsAt, AsksAt, OnSide, Live
<1>3. Foremost(auction.bids) \in auction.bids
  BY <1>1, <1>2, ForemostIs
<1>4. Foremost(auction.asks) \in auction.asks
  BY <1>1, <1>2, ForemostIs
<1> QED
  BY <1>3, <1>4 DEF TopBid, TopAsk

\* The first orders of an auction can be filled at its price.
LEMMA AuctionCanFill ==
  ASSUME Books, IInv, AuctionSound, ~AuctionOver, NEW b, NEW a, b = TopBid, a = TopAsk,
         orders[b].by # orders[a].by,
         NEW qty, qty = Least(auction.left, Least(orders[b].rem, orders[a].rem))
  PROVE  CanFill(b, a, auction.price, qty) /\ qty <= auction.left
<1>1. BookSound(orders) /\ SecSound
  BY DEF Books
<1>2. PICK s, p : s = auction.sym /\ p = auction.price
  OBVIOUS
<1>3. p \in Nat /\ InBand(s, p) /\ b \in BidsAt(s, p) /\ a \in AsksAt(s, p)
  BY <1>1, <1>2, TopsAre DEF AuctionSound
<1>4. PICK x, y : x = orders[b] /\ y = orders[a]
  OBVIOUS
<1>5. /\ b \in DOMAIN orders /\ a \in DOMAIN orders
      /\ x.sym = s /\ y.sym = s /\ x.side = "buy" /\ y.side = "sell"
      /\ x.lim = 0 \/ x.lim >= p
  BY <1>3, <1>4 DEF BidsAt, AsksAt, OnSide, Live
<1>6. OrderSound(x) /\ OrderSound(y)
  BY <1>1, <1>4, <1>5 DEF BookSound
<1>7. s \in Symbols /\ sec[s].ref \in Nat /\ x.lim \in Nat /\ x.rem \in Nat \ {0} /\ y.rem \in Nat \ {0}
  BY <1>1, <1>5, <1>6, LimitIsNat DEF OrderSound, SecSound
<1>8. TickSize <= p /\ p <= Band(s)[2]
  BY <1>3, <1>7, BandedPrice
<1>9. p <= ReservePrice(s, x.lim)
  BY <1>3, <1>5, <1>7, <1>8 DEF ReservePrice
<1>10. auction.left \in Nat \ {0}
  BY DEF AuctionSound, AuctionOver
<1>11. qty \in Nat \ {0} /\ qty <= x.rem /\ qty <= y.rem /\ qty <= auction.left
  BY <1>4, <1>7, <1>10 DEF Least
<1> QED
  BY <1>2, <1>3, <1>4, <1>5, <1>8, <1>9, <1>11 DEF CanFill

\* The orders of an auction that are not used up are still there, as they were.
LEMMA AuctionGoesOn ==
  ASSUME Books, IInv, AuctionSound, ~AuctionOver, NEW b, NEW a, b = TopBid, a = TopAsk, NEW qty,
         CanFill(b, a, auction.price, qty), qty <= auction.left, Settle(b, a, auction.price, qty),
         stage' = stage, ord' = ord,
         auction'.left = auction.left - qty, auction'.sym = auction.sym, auction'.price = auction.price,
         auction'.bids = IF orders[b].rem = qty THEN auction.bids \ {b} ELSE auction.bids,
         auction'.asks = IF orders[a].rem = qty THEN auction.asks \ {a} ELSE auction.asks
  PROVE  AuctionSound'
<1>0. BookSound(orders) /\ SecSound /\ ReservesExact /\ SecuritiesHold
  BY DEF Books, IInv
<1>1. PICK s, p : s = auction.sym /\ p = auction.price
  OBVIOUS
<1>2. /\ p \in Nat /\ InBand(s, p) /\ stage = "fill" /\ auction.left \in Nat
      /\ auction.bids \subseteq BidsAt(s, p) /\ auction.asks \subseteq AsksAt(s, p)
  BY <1>1 DEF AuctionSound
<1>3. qty \in Nat /\ auction'.left \in Nat
  BY <1>2 DEF CanFill
<1>4. orders' = FilledBook(b, a, qty)
  BY <1>0, SettleBook
<1>5. a \in AsksAt(s, p) /\ b \in BidsAt(s, p)
  BY <1>0, <1>2, TopsAre
<1>6. sec'[s].ref = sec[s].ref
  <2>1. sec' = [sec EXCEPT ![orders[b].sym].last = auction.price]
    BY DEF Settle
  <2>2. orders[b].sym = s /\ s \in Symbols
    BY <1>0, <1>5 DEF BidsAt, OnSide, Live, BookSound, OrderSound
  <2> QED
    BY <1>0, <2>1, <2>2 DEF SecuritiesHold
<1>7. InBand(s, p)'
  BY <1>2, <1>6, BandSame
<1>8. ASSUME NEW i \in DOMAIN orders, i \in {a, b} => orders[i].rem # qty
      PROVE  /\ i \in DOMAIN orders' /\ orders'[i].sym = orders[i].sym
             /\ orders'[i].side = orders[i].side /\ orders'[i].lim = orders[i].lim
  <2>1. PICK n : n = Filled(b, a, qty, i)
    OBVIOUS
  <2>2. /\ n.sym = orders[i].sym /\ n.side = orders[i].side /\ n.lim = orders[i].lim
        /\ n.rem = (IF i \in {a, b} THEN orders[i].rem - qty ELSE orders[i].rem) /\ n.rem \in Nat
    BY <1>0, <2>1, FilledIs
  <2>3. orders[i].rem \in Nat \ {0}
    BY <1>0 DEF BookSound, OrderSound
  <2>4. n.rem > 0
    BY <1>3, <1>8, <2>2, <2>3
  <2>5. i \in DOMAIN FilledBook(b, a, qty) /\ FilledBook(b, a, qty)[i] = n
    BY <2>1, <2>4 DEF FilledBook
  <2> QED
    BY <1>4, <2>2, <2>5
<1>9. auction'.bids \subseteq BidsAt(s, p)'
  <2> SUFFICES ASSUME NEW i \in auction'.bids PROVE i \in BidsAt(s, p)'
    OBVIOUS
  <2>1. i \in BidsAt(s, p) /\ (i = b => orders[b].rem # qty)
    BY <1>2
  <2>2. /\ i \in DOMAIN orders /\ orders[i].sym = s /\ orders[i].side = "buy"
        /\ orders[i].lim = 0 \/ orders[i].lim >= p
    BY <2>1 DEF BidsAt, OnSide, Live
  <2>3. i # a
    BY <1>5, <2>2 DEF AsksAt, OnSide
  <2>4. /\ i \in DOMAIN orders' /\ orders'[i].sym = orders[i].sym
        /\ orders'[i].side = orders[i].side /\ orders'[i].lim = orders[i].lim
    BY <1>8, <2>1, <2>2, <2>3
  <2> QED
    BY <2>2, <2>4 DEF BidsAt, OnSide, Live
<1>10. auction'.asks \subseteq AsksAt(s, p)'
  <2> SUFFICES ASSUME NEW i \in auction'.asks PROVE i \in AsksAt(s, p)'
    OBVIOUS
  <2>1. i \in AsksAt(s, p) /\ (i = a => orders[a].rem # qty)
    BY <1>2
  <2>2. i \in DOMAIN orders /\ orders[i].sym = s /\ orders[i].side = "sell" /\ orders[i].lim <= p
    BY <2>1 DEF AsksAt, OnSide, Live
  <2>3. i # b
    BY <1>5, <2>2 DEF BidsAt, OnSide
  <2>4. /\ i \in DOMAIN orders' /\ orders'[i].sym = orders[i].sym
        /\ orders'[i].side = orders[i].side /\ orders'[i].lim = orders[i].lim
    BY <1>8, <2>1, <2>2, <2>3
  <2> QED
    BY <2>2, <2>4 DEF AsksAt, OnSide, Live
<1>11. /\ InBand(auction.sym, auction.price)'
       /\ auction'.bids \subseteq BidsAt(auction.sym, auction.price)'
       /\ auction'.asks \subseteq AsksAt(auction.sym, auction.price)'
  BY <1>1, <1>7, <1>9, <1>10 DEF InBand, Band, BidsAt, AsksAt, OnSide, Live
<1> QED
  BY <1>1, <1>2, <1>3, <1>11 DEF AuctionSound

\* A fill of an auction keeps the accounts and the auction.
LEMMA AuctionFillHolds ==
  ASSUME Books, IInv, AuctionSound, tick \in Nat, AuctionFill
  PROVE  Books' /\ AuctionSound'
<1>0. ~AuctionOver /\ stage' = stage /\ ord' = ord /\ ipo' = ipo /\ SecuritiesHold
  BY DEF AuctionFill, clockVars, IInv
<1>a. PICK b \in {TopBid}, a \in {TopAsk} :
        \E qty \in {Least(auction.left, Least(orders[b].rem, orders[a].rem))} :
          /\ orders[b].by # orders[a].by
          /\ Settle(b, a, auction.price, qty)
          /\ auction' = [auction EXCEPT !.left = @ - qty,
               !.bids = IF orders[b].rem = qty THEN @ \ {b} ELSE @,
               !.asks = IF orders[a].rem = qty THEN @ \ {a} ELSE @]
  BY Zenon DEF AuctionFill
<1>b. PICK qty \in {Least(auction.left, Least(orders[b].rem, orders[a].rem))} :
          /\ orders[b].by # orders[a].by
          /\ Settle(b, a, auction.price, qty)
          /\ auction' = [auction EXCEPT !.left = @ - qty,
               !.bids = IF orders[b].rem = qty THEN @ \ {b} ELSE @,
               !.asks = IF orders[a].rem = qty THEN @ \ {a} ELSE @]
  BY <1>a, Zenon
<1>1. /\ b = TopBid /\ a = TopAsk
      /\ qty = Least(auction.left, Least(orders[b].rem, orders[a].rem))
      /\ orders[b].by # orders[a].by /\ Settle(b, a, auction.price, qty)
  BY <1>b
<1>2. DOMAIN auction = {"sym", "price", "left", "bids", "asks"}
  BY DEF IInv, SelfHolds
<1>3. /\ auction'.left = auction.left - qty /\ auction'.sym = auction.sym /\ auction'.price = auction.price
      /\ auction'.bids = (IF orders[b].rem = qty THEN auction.bids \ {b} ELSE auction.bids)
      /\ auction'.asks = (IF orders[a].rem = qty THEN auction.asks \ {a} ELSE auction.asks)
  BY <1>b, <1>2
<1>4. CanFill(b, a, auction.price, qty) /\ qty <= auction.left
  BY <1>0, <1>1, AuctionCanFill
<1>5. Books'
  BY <1>0, <1>1, <1>4, SettleHolds
<1>6. AuctionSound'
  BY <1>0, <1>1, <1>3, <1>4, AuctionGoesOn
<1> QED
  BY <1>5, <1>6

\* An order passed over.
LEMMA AuctionSkipHolds ==
  ASSUME BookSound(orders), AuctionSound, DOMAIN auction = {"sym", "price", "left", "bids", "asks"},
         AuctionSkip
  PROVE  AuctionSound'
<1>1. ~AuctionOver /\ stage' = stage /\ orders' = orders /\ sec' = sec
  BY DEF AuctionSkip, bookVars
<1>2. PICK b, a : auction' = [auction EXCEPT !.asks = @ \ {a}] \/ auction' = [auction EXCEPT !.bids = @ \ {b}]
  BY DEF AuctionSkip
<1>3. /\ auction'.left = auction.left /\ auction'.sym = auction.sym /\ auction'.price = auction.price
      /\ auction'.bids \subseteq auction.bids /\ auction'.asks \subseteq auction.asks
  BY <1>2
<1>4. /\ InBand(auction.sym, auction.price)
      /\ auction.bids \subseteq BidsAt(auction.sym, auction.price)
      /\ auction.asks \subseteq AsksAt(auction.sym, auction.price)
      /\ stage = "fill" /\ auction.price \in Nat /\ auction.left \in Nat
  BY <1>1 DEF AuctionSound
<1>5. /\ InBand(auction.sym, auction.price)'
      /\ BidsAt(auction.sym, auction.price)' = BidsAt(auction.sym, auction.price)
      /\ AsksAt(auction.sym, auction.price)' = AsksAt(auction.sym, auction.price)
  BY <1>1, <1>3, <1>4 DEF InBand, Band, BidsAt, AsksAt, OnSide, Live
<1> QED
  BY <1>1, <1>3, <1>4, <1>5 DEF AuctionSound

\* The price of an auction is the limit of an order, and the volume a number of shares.
LEMMA UncrossedIs ==
  ASSUME Books, IInv, NEW s, NEW x \in Uncrossed(s)
  PROVE  x.price \in Nat /\ InBand(s, x.price) /\ x.vol \in Nat
<1>0. BookSound(orders)
  BY DEF Books
<1>1. x \in Candidates(s)
  BY DEF Uncrossed
<1>2. PICK i \in Live(s) : /\ orders[i].lim # 0 /\ x.price = orders[i].lim
                           /\ x.vol = Least(Demand(s, x.price), Supply(s, x.price))
  BY <1>1 DEF Candidates
<1>3. i \in DOMAIN orders /\ orders[i].sym = s
  BY DEF Live
<1>4. InBand(s, x.price)
  BY <1>2, <1>3 DEF IInv, OrdersHold, OrderHolds
<1>5. x.price \in Nat
  BY <1>0, <1>2, <1>3, LimitIsNat DEF BookSound, OrderSound
<1>6. ASSUME NEW S \in SUBSET DOMAIN orders PROVE SumOf([j \in S |-> orders[j].rem]) \in Nat
  <2> DEFINE f == [j \in S |-> orders[j].rem]
  <2>1. IsFiniteSet(DOMAIN f) /\ \A j \in DOMAIN f : f[j] \in Nat
    BY <1>0, FS_Subset DEF BookSound, OrderSound
  <2> HIDE DEF f
  <2>2. SumOf(f) \in Nat
    BY <2>1, SumIsNat
  <2> QED
    BY <2>2 DEF f
<1>7. Demand(s, x.price) \in Nat /\ Supply(s, x.price) \in Nat
  <2>1. BidsAt(s, x.price) \in SUBSET DOMAIN orders /\ AsksAt(s, x.price) \in SUBSET DOMAIN orders
    BY DEF BidsAt, AsksAt, OnSide, Live
  <2> QED
    BY <1>6, <2>1 DEF Demand, Supply
<1> QED
  BY <1>2, <1>4, <1>5, <1>7 DEF Least

\* An auction starts with the orders of its price.
LEMMA StartAuctionHolds ==
  ASSUME Books, IInv, AuctionSound, StartAuction
  PROVE  AuctionSound'
<1>1. orders' = orders /\ sec' = sec /\ stage = "auction"
  BY DEF StartAuction, bookVars
<1>2. PICK s : IF sec[s].status = "listed"
               THEN /\ stage' = "fill"
                    /\ \/ auction' = [NoAuction EXCEPT !.sym = s]
                       \/ \E x \in Uncrossed(s) :
                            auction' = [sym |-> s, price |-> x.price, left |-> x.vol,
                                        bids |-> BidsAt(s, x.price), asks |-> AsksAt(s, x.price)]
               ELSE UNCHANGED <<stage, auction>>
  BY DEF StartAuction
<1>3. CASE UNCHANGED <<stage, auction>>
  BY <1>1, <1>3, NotFilling
<1>4. CASE auction' = [NoAuction EXCEPT !.sym = s]
  BY <1>4 DEF NoAuction, AuctionSound, AuctionOver
<1>5. ASSUME NEW x \in Uncrossed(s), stage' = "fill",
             auction' = [sym |-> s, price |-> x.price, left |-> x.vol,
                         bids |-> BidsAt(s, x.price), asks |-> AsksAt(s, x.price)]
      PROVE  AuctionSound'
  <2>1. PICK p, n : p = x.price /\ n = x.vol
    OBVIOUS
  <2>2. p \in Nat /\ InBand(s, p) /\ n \in Nat
    BY <2>1, UncrossedIs
  <2>3. /\ auction'.sym = s /\ auction'.price = p /\ auction'.left = n
        /\ auction'.bids = BidsAt(s, p) /\ auction'.asks = AsksAt(s, p)
    BY <1>5, <2>1
  <2>4. InBand(s, p)' /\ BidsAt(s, p)' = BidsAt(s, p) /\ AsksAt(s, p)' = AsksAt(s, p)
    BY <1>1, <2>2 DEF InBand, Band, BidsAt, AsksAt, OnSide, Live
  <2>5. /\ InBand(auction.sym, auction.price)'
        /\ auction'.bids \subseteq BidsAt(auction.sym, auction.price)'
        /\ auction'.asks \subseteq AsksAt(auction.sym, auction.price)'
    BY <2>3, <2>4 DEF InBand, Band, BidsAt, AsksAt, OnSide, Live
  <2> QED
    BY <1>5, <2>2, <2>3, <2>5 DEF AuctionSound
<1> QED
  BY <1>2, <1>3, <1>4, <1>5

-----------------------------------------------------------------------------
(* Offerings *)

\* The offering of one symbol changes.
LEMMA StakesChanged ==
  ASSUME OffersSound, NEW s \in Symbols, OfferSound(ipo'[s]),
         \A z \in Symbols \ {s} : ipo'[z] = ipo[z], NEW t
  PROVE  /\ Interest(ipo', t) = Interest(ipo, t) - Stake(ipo[s], t) + Stake(ipo'[s], t)
         /\ Interest(ipo, t) \in Nat /\ Interest(ipo', t) \in Nat
         /\ Stake(ipo[s], t) \in Nat /\ Stake(ipo'[s], t) \in Nat
<1> DEFINE f == [z \in Symbols |-> Stake(ipo[z], t)]
           e == [z \in Symbols |-> Stake(ipo'[z], t)]
<1>1. \A z \in Symbols : OfferSound(ipo[z]) /\ OfferSound(ipo'[z])
  BY DEF OffersSound
<1>2. \A z \in Symbols : f[z] \in Nat /\ e[z] \in Nat
  BY <1>1, StakeIsNat
<1>3. IsFiniteSet(Symbols)
  BY ExchangeAssumption
<1>4. /\ DOMAIN f = Symbols /\ DOMAIN e = Symbols /\ f[s] = Stake(ipo[s], t) /\ e[s] = Stake(ipo'[s], t)
      /\ \A z \in Symbols \ {s} : e[z] = f[z]
  OBVIOUS
<1>5. Interest(ipo, t) = SumOf(f) /\ Interest(ipo', t) = SumOf(e)
  BY DEF Interest
<1> HIDE DEF f, e
<1>6. SumOf(f) \in Nat /\ SumOf(e) \in Nat /\ IsSummable(f)
  BY <1>2, <1>3, <1>4, SumIsNat
<1>7. SumOf(e) = SumOf(f) - f[s] + e[s]
  BY <1>2, <1>4, <1>6, SumChanged
<1> QED
  BY <1>2, <1>4, <1>5, <1>6, <1>7

\* An offering changes and escrow with it.
LEMMA OfferBooks ==
  ASSUME Books, NEW s \in Symbols, OfferSound(ipo'[s]), \A z \in Symbols \ {s} : ipo'[z] = ipo[z],
         UNCHANGED <<orders, margin, shorts>>, cash' \in [Owners -> Nat],
         esc' = [t \in Traders |-> esc'[t]],
         \A t \in Traders : esc'[t] = esc[t] - Stake(ipo[s], t) + Stake(ipo'[s], t),
         HoldingsSound', SharesHeld', SecSound',
         \A i \in DOMAIN orders : sec'[orders[i].sym].ref = sec[orders[i].sym].ref
  PROVE  Books'
<1>1. ReservesExact'
  BY ReservesKept DEF Books
<1>2. CashSound' /\ PositionsSound'
  BY DEF Books, CashSound, PositionsSound, PositionSound
<1>3. OffersSound'
  <2>1. \A z \in Symbols : OfferSound(ipo'[z])
    BY DEF Books, OffersSound
  <2> QED
    BY <2>1 DEF OffersSound, OfferSound
<1>4. BookSound(orders)'
  BY DEF Books, BookSound, OrderSound
<1>5. Backed'
  <2>1. ASSUME NEW t \in Traders
        PROVE  esc'[t] = Claims(orders', "escrow", t, 0) + Interest(ipo', t) /\ esc'[t] \in Nat
    <3>1. /\ Interest(ipo', t) = Interest(ipo, t) - Stake(ipo[s], t) + Stake(ipo'[s], t)
          /\ Interest(ipo, t) \in Nat /\ Interest(ipo', t) \in Nat
          /\ Stake(ipo[s], t) \in Nat /\ Stake(ipo'[s], t) \in Nat
      BY StakesChanged DEF Books
    <3>2. Claims(orders, "escrow", t, 0) \in Nat /\ orders' = orders
      BY ClaimsAreNat DEF Books, ClaimKinds
    <3>3. esc[t] = Claims(orders, "escrow", t, 0) + Interest(ipo, t)
      BY DEF Books, Backed
    <3>4. esc'[t] = esc[t] - Stake(ipo[s], t) + Stake(ipo'[s], t)
      OBVIOUS
    <3>5. PICK c \in Nat : c = Claims(orders, "escrow", t, 0)
      BY <3>2
    <3> QED
      BY <3>1, <3>2, <3>3, <3>4, <3>5
  <2>2. esc' \in [Traders -> Nat]
    BY <2>1
  <2>3. /\ margin' \in [Traders -> [Symbols -> Nat]]
        /\ \A t \in Traders, z \in Symbols :
             margin'[t][z] = Claims(orders', "pledge", t, z) + shorts'[t][z].coll
    BY DEF Books, Backed
  <2> QED
    BY <2>1, <2>2, <2>3 DEF Backed
<1> QED
  BY <1>1, <1>2, <1>3, <1>4, <1>5 DEF Books

\* ... while the securities and what is held of them stay.
LEMMA OfferKept ==
  ASSUME Books, NEW s \in Symbols, OfferSound(ipo'[s]), \A z \in Symbols \ {s} : ipo'[z] = ipo[z],
         UNCHANGED <<orders, margin, shorts, holding, sec>>, cash' \in [Owners -> Nat],
         ord' \in [Symbols -> Nat],
         esc' = [t \in Traders |-> esc'[t]],
         \A t \in Traders : esc'[t] = esc[t] - Stake(ipo[s], t) + Stake(ipo'[s], t)
  PROVE  Books'
<1>1. HoldingsSound' /\ SecSound'
  BY DEF Books, HoldingsSound, SecSound
<1>2. SharesHeld'
  <2>1. \A z \in Symbols : SumOf([t \in Traders |-> holding'[t][z].qty]) = sec'[z].out
    BY DEF Books, SharesHeld
  <2> QED
    BY <2>1 DEF SharesHeld
<1> QED
  BY <1>1, <1>2, OfferBooks

\* An announcement.
LEMMA AnnounceHolds ==
  ASSUME Books, IInv, NEW i \in Offerings, AnnounceIpo(i[1], i[2])
  PROVE  Books'
<1>1. PICK s, n : s = i[1] /\ n = i[2]
  OBVIOUS
<1>2. s \in Symbols /\ n \in Nat
  BY <1>1, ExchangeAssumption
<1>3. PICK new : /\ new.status = "announced" /\ new.offered = n /\ new.ind = <<>>
                 /\ ipo' = [ipo EXCEPT ![s] = new]
                 /\ ipo[s].status = "none"
  BY <1>1 DEF AnnounceIpo
<1>4. UNCHANGED <<orders, margin, shorts, holding, sec, cash, esc, ord>>
  BY DEF AnnounceIpo, bookVars
<1>5. ipo'[s] = new /\ \A z \in Symbols \ {s} : ipo'[z] = ipo[z]
  BY <1>2, <1>3 DEF IInv, SecuritiesHold
<1>6. DOMAIN new.ind = {}
  BY <1>3
<1>7. OfferSound(ipo'[s])
  BY <1>2, <1>3, <1>5, <1>6 DEF OfferSound
<1>8. \A t : Stake(ipo[s], t) = 0 /\ Stake(ipo'[s], t) = 0
  BY <1>3, <1>5, <1>6 DEF Stake
<1>9. /\ cash' \in [Owners -> Nat] /\ ord' \in [Symbols -> Nat] /\ esc' = [t \in Traders |-> esc'[t]]
      /\ \A t \in Traders : esc[t] \in Nat /\ esc'[t] = esc[t]
  BY <1>4 DEF Books, CashSound, SecSound, Backed
<1>10. \A t \in Traders : esc'[t] = esc[t] - Stake(ipo[s], t) + Stake(ipo'[s], t)
  BY <1>8, <1>9
<1> QED
  BY <1>2, <1>4, <1>5, <1>7, <1>9, <1>10, OfferKept

\* An offering nobody is interested in.
LEMMA FailHolds ==
  ASSUME Books, IInv, NEW s \in Symbols, FailIpo(s)
  PROVE  Books'
<1>1. ipo[s].ind = <<>> /\ ipo' = [ipo EXCEPT ![s].status = "failed"]
  BY DEF FailIpo
<1>4. UNCHANGED <<orders, margin, shorts, holding, sec, cash, esc, ord>>
  BY DEF FailIpo, bookVars
<1>5. /\ ipo'[s].status = "failed" /\ ipo'[s].ind = ipo[s].ind /\ ipo'[s].offered = ipo[s].offered
      /\ \A z \in Symbols \ {s} : ipo'[z] = ipo[z]
  BY <1>1 DEF IInv, SecuritiesHold
<1>6. DOMAIN ipo[s].ind = {}
  BY <1>1
<1>7. OfferSound(ipo'[s])
  BY <1>5 DEF OfferSound, Books, OffersSound
<1>8. \A t : Stake(ipo[s], t) = 0 /\ Stake(ipo'[s], t) = 0
  BY <1>5, <1>6 DEF Stake
<1>9. /\ cash' \in [Owners -> Nat] /\ ord' \in [Symbols -> Nat] /\ esc' = [t \in Traders |-> esc'[t]]
      /\ \A t \in Traders : esc[t] \in Nat /\ esc'[t] = esc[t]
  BY <1>4 DEF Books, CashSound, SecSound, Backed
<1>10. \A t \in Traders : esc'[t] = esc[t] - Stake(ipo[s], t) + Stake(ipo'[s], t)
  BY <1>8, <1>9
<1> QED
  BY <1>4, <1>5, <1>7, <1>9, <1>10, OfferKept

\* _ipo_indication puts aside what it may cost.
LEMMA IndicateHolds ==
  ASSUME Books, IInv, NEW i \in Interests, Indicate(i[1], i[2], i[3], i[4])
  PROVE  Books'
<1>1. PICK t, s, lim, qty : t = i[1] /\ s = i[2] /\ lim = i[3] /\ qty = i[4]
  OBVIOUS
<1>2. t \in Traders /\ s \in Symbols /\ lim \in 0..Highest /\ qty \in Nat \ {0}
  BY <1>1, ExchangeAssumption
<1>3. lim \in Nat
  BY <1>2, LimitIsNat
<1>4. Indicate(t, s, lim, qty)
  BY <1>1
<1>5. PICK x \in Nat : x = qty * lim
  BY <1>2, <1>3
<1>6. UNCHANGED <<orders, margin, shorts, holding, sec>> /\ ord' = [ord EXCEPT ![s] = @ + 1]
  BY <1>4 DEF Indicate
<1>7. ord' \in [Symbols -> Nat]
  BY <1>2, <1>6 DEF Books, SecSound
<1>8. CASE t \in DOMAIN ipo[s].ind
  <2>1. UNCHANGED <<cash, esc, ipo>>
    BY <1>4, <1>8 DEF Indicate
  <2>2. SecSame /\ \A j \in DOMAIN orders : sec'[orders[j].sym].ref = sec[orders[j].sym].ref
    BY <1>6, <1>7 DEF SecSame, Books, SecSound
  <2>3. cash' \in [Owners -> Nat]
    BY <2>1 DEF Books, CashSound
  <2> QED
    BY <1>6, <2>1, <2>2, <2>3, SameBooks
<1>9. CASE t \notin DOMAIN ipo[s].ind
  <2>1. /\ cash[t] >= x /\ cash' = [cash EXCEPT ![t] = @ - x] /\ esc' = [esc EXCEPT ![t] = @ + x]
        /\ ipo[s].status = "announced"
    BY <1>4, <1>5, <1>9 DEF Indicate
  <2>2. PICK ind : ind = Joined(ipo[s].ind, t, <<qty, lim>>) /\ ipo' = [ipo EXCEPT ![s].ind = ind]
    BY <1>4, <1>9 DEF Indicate
  <2>3. /\ DOMAIN ind = DOMAIN ipo[s].ind \cup {t} /\ ind[t] = <<qty, lim>>
        /\ \A u \in DOMAIN ipo[s].ind : ind[u] = ipo[s].ind[u]
    BY <1>9, <2>2 DEF Joined
  <2>4. /\ ipo'[s].status = "announced" /\ ipo'[s].ind = ind /\ ipo'[s].offered = ipo[s].offered
        /\ \A z \in Symbols \ {s} : ipo'[z] = ipo[z]
    BY <1>2, <2>1, <2>2 DEF IInv, SecuritiesHold
  <2>5. OfferSound(ipo[s])
    BY <1>2 DEF Books, OffersSound
  <2>6. OfferSound(ipo'[s])
    BY <1>2, <1>3, <2>3, <2>4, <2>5 DEF OfferSound
  <2>7. /\ Stake(ipo[s], t) = 0 /\ Stake(ipo'[s], t) = x
        /\ \A u \in Traders : u # t => Stake(ipo'[s], u) = Stake(ipo[s], u)
    <3>1. Stake(ipo[s], t) = 0
      BY <1>9 DEF Stake
    <3>2. Stake(ipo'[s], t) = x
      BY <1>5, <2>3, <2>4 DEF Stake
    <3>3. \A u \in Traders : u # t => Stake(ipo'[s], u) = Stake(ipo[s], u)
      BY <2>1, <2>3, <2>4 DEF Stake
    <3> QED
      BY <3>1, <3>2, <3>3
  <2>8. cash \in [Owners -> Nat] /\ esc \in [Traders -> Nat] /\ t \in Owners
    BY <1>2 DEF Books, CashSound, Backed, Owners
  <2>9. cash' \in [Owners -> Nat] /\ esc' = [u \in Traders |-> esc'[u]]
    <3>1. cash[t] \in Nat /\ cash[t] - x \in Nat
      BY <1>5, <2>1, <2>8
    <3>2. cash' \in [Owners -> Nat]
      BY <2>1, <2>8, <3>1
    <3> QED
      BY <1>2, <2>1, <2>8, <3>2
  <2>10. \A u \in Traders : Stake(ipo[s], u) \in Nat
    BY <2>5, StakeIsNat
  <2>11. \A u \in Traders : esc'[u] = esc[u] - Stake(ipo[s], u) + Stake(ipo'[s], u)
    BY <1>2, <2>1, <2>7, <2>8, <2>10
  <2> QED
    BY <1>2, <1>6, <1>7, <2>4, <2>6, <2>9, <2>11, OfferKept
<1> QED
  BY <1>8, <1>9

\* The values of a function on a finite set.
LEMMA FiniteRange ==
  ASSUME NEW f, IsFiniteSet(DOMAIN f), NEW T, \A y \in T : \E x \in DOMAIN f : y = f[x]
  PROVE  IsFiniteSet(T)
<1> DEFINE R == {f[x] : x \in DOMAIN f}
           g == [x \in DOMAIN f |-> f[x]]
<1>1. g \in Surjection(DOMAIN f, R)
  BY DEF Surjection
<1>2. IsFiniteSet(R)
  <2> HIDE DEF g, R
  <2> QED
    BY <1>1, FS_Surjection
<1>3. T \in SUBSET R
  OBVIOUS
<1> HIDE DEF R
<1> QED
  BY <1>2, <1>3, FS_Subset

\* The pairs of a tag and the members of a set.
Tagged(tag, S) == {<<tag, t>> : t \in S}

\* As many as the set has members.
LEMMA TaggedIsFinite ==
  ASSUME NEW tag, NEW S, IsFiniteSet(S)
  PROVE  IsFiniteSet(Tagged(tag, S))
<1> DEFINE f == [t \in S |-> <<tag, t>>]
<1>1. IsFiniteSet(DOMAIN f) /\ \A a \in Tagged(tag, S) : \E t \in DOMAIN f : a = f[t]
  BY DEF Tagged
<1> HIDE DEF f
<1> QED
  BY <1>1, FiniteRange

\* A sum does not depend on how its terms are named.
LEMMA SumTagged ==
  ASSUME NEW tag, NEW f, NEW g, IsFiniteSet(DOMAIN g), DOMAIN f = Tagged(tag, DOMAIN g),
         \A t \in DOMAIN g : g[t] \in Int /\ f[<<tag, t>>] = g[t]
  PROVE  SumOf(g) = SumOf(f)
<1> DEFINE S == DOMAIN g
           P == {T \in SUBSET S : SumOf(Over(g, T)) = SumOf(Over(f, Tagged(tag, T)))}
<1>1. IsSummable(g)
  BY DEF IsSummable
<1>2. IsSummable(f)
  <2>1. IsFiniteSet(DOMAIN f)
    BY TaggedIsFinite
  <2>2. \A a \in DOMAIN f : f[a] \in Int
    BY DEF Tagged
  <2> QED
    BY <2>1, <2>2 DEF IsSummable
<1>3. {} \in P
  <2>1. Tagged(tag, {}) = {}
    BY DEF Tagged
  <2> QED
    BY <2>1, OverNone
<1>4. ASSUME NEW T \in SUBSET S, NEW x \in S \ T, T \in P
      PROVE  T \cup {x} \in P
  <2>1. /\ Tagged(tag, T) \in SUBSET DOMAIN f
        /\ <<tag, x>> \in DOMAIN f \ Tagged(tag, T)
        /\ Tagged(tag, T \cup {x}) = Tagged(tag, T) \cup {<<tag, x>>}
    BY DEF Tagged
  <2>2. SumOf(Over(g, T \cup {x})) = SumOf(Over(g, T)) + g[x]
    BY <1>1, OverAdded
  <2>3. SumOf(Over(f, Tagged(tag, T) \cup {<<tag, x>>})) = SumOf(Over(f, Tagged(tag, T))) + f[<<tag, x>>]
    BY <1>2, <2>1, OverAdded
  <2>4. f[<<tag, x>>] = g[x]
    OBVIOUS
  <2> QED
    BY <1>4, <2>1, <2>2, <2>3, <2>4
<1>5. S \in P
  <2> HIDE DEF P
  <2> QED
    BY <1>3, <1>4, SetsGrow
<1>6. SumOf(Over(g, S)) = SumOf(g) /\ SumOf(Over(f, DOMAIN f)) = SumOf(f)
  BY <1>1, <1>2, OverAll
<1> QED
  BY <1>5, <1>6

-----------------------------------------------------------------------------
(* The price and the shares of an offering *)

\* An offer is a price.
LEMMA OfferIs ==
  ASSUME NEW s, OfferSound(ipo[s])
  PROVE  Offer(s) \in Nat
<1> DEFINE ind == ipo[s].ind
           takes(p) == SumOf([t \in {u \in DOMAIN ind : ind[u][2] >= p} |-> ind[t][1]])
           full == {p \in {ind[t][2] : t \in DOMAIN ind} : takes(p) >= ipo[s].offered}
           limits == [t \in DOMAIN ind |-> ind[t][2]]
<1>1. PICK low \in Nat, size \in Nat \ {0}, disc \in Nat :
        low = Settings.ipo_low /\ size = Settings.tick_size_cents /\ disc = Settings.underwriter_discount_bp
  BY SettingsAssumption
<1>2. Clearing(s) = IF full = {} THEN low ELSE Max(full)
  BY <1>1 DEF Clearing
<1>3. IsFiniteSet(DOMAIN limits) /\ \A t \in DOMAIN limits : limits[t] \in Nat
  BY FS_Subset, ExchangeAssumption DEF OfferSound
<1>4. \A y \in full : \E x \in DOMAIN limits : y = limits[x]
  OBVIOUS
<1> HIDE DEF full, limits
<1>5. IsFiniteSet(full) /\ full \subseteq Nat
  BY <1>3, <1>4, FiniteRange
<1>6. Clearing(s) \in Nat
  <2>1. full # {} => Max(full) \in full
    <3>1. full \subseteq Int
      BY <1>5
    <3> QED
      BY <1>5, <3>1, MaxIs
  <2> QED
    BY <1>1, <1>2, <1>5, <2>1
<1>7. PICK p \in Int : p = (Clearing(s) * (10000 - disc)) \div 10000
  BY <1>1, <1>6
<1>8. Offer(s) = IF p < size THEN size ELSE p - (p % size)
  BY <1>1, <1>7 DEF Offer
<1>9. CASE p < size
  BY <1>8, <1>9
<1>10. CASE ~(p < size)
  <2>1. p \in Nat /\ size <= p
    BY <1>10
  <2>2. p % size \in Nat /\ p % size < size
    BY <2>1, Divides
  <2> QED
    BY <1>8, <1>10, <2>1, <2>2
<1> QED
  BY <1>9, <1>10

\* Nobody gets more than it asked for, and all together no more than was offered.
LEMMA IpoSharesAre ==
  ASSUME NEW s, OfferSound(ipo[s]), NEW got, got = IpoShares(s), NEW offer, offer = Offer(s)
  PROVE  /\ \A t \in DOMAIN got : /\ t \in DOMAIN ipo[s].ind
                                  /\ got[t] \in Nat /\ got[t] <= ipo[s].ind[t][1]
                                  /\ offer <= ipo[s].ind[t][2]
         /\ IsFiniteSet(DOMAIN got)
         /\ SumOf(got) \in Nat /\ SumOf(got) <= ipo[s].offered
<1> DEFINE ind == ipo[s].ind
           eligible == {t \in DOMAIN ind : ind[t][2] >= offer}
           wanted == [a \in Tagged("investor", eligible) |-> ind[a[2]][1]]
           pool == Least(ipo[s].offered, SumOf(wanted))
           shares == Allocate(pool, wanted)
<1>0. offer \in Nat /\ ipo[s].offered \in Nat
  BY OfferIs DEF OfferSound
<1>1. got = [t \in eligible |-> shares[<<"investor", t>>]]
  BY DEF IpoShares, Tagged
<1>2. IsFiniteSet(eligible) /\ eligible \subseteq Nat
  <2>1. Traders \subseteq Nat /\ IsFiniteSet(Traders)
    BY ExchangeAssumption
  <2>2. eligible \subseteq Traders
    BY DEF OfferSound
  <2> QED
    BY <2>1, <2>2, FS_Subset
<1>3. \A t \in eligible : t \in DOMAIN ind /\ offer <= ind[t][2] /\ ind[t][1] \in Nat \ {0}
  BY <1>0 DEF OfferSound
<1>4. /\ DOMAIN wanted = Tagged("investor", eligible)
      /\ \A t \in eligible : <<"investor", t>> \in DOMAIN wanted /\ wanted[<<"investor", t>>] = ind[t][1]
      /\ \A a \in DOMAIN wanted : wanted[a] \in Nat \ {0} /\ a[2] \in Int
      /\ \A a, d \in DOMAIN wanted : a[2] = d[2] => a = d
  BY <1>2, <1>3 DEF Tagged
<1>5. CASE eligible = {}
  <2>1. DOMAIN got = {}
    BY <1>1, <1>5
  <2>2. SumOf(got) = 0
    BY <2>1, SumEmpty
  <2> QED
    BY <1>0, <2>1, <2>2, FS_EmptySet
<1>6. CASE eligible # {}
  <2>1. IsFiniteSet(DOMAIN wanted) /\ DOMAIN wanted # {}
    <3> HIDE DEF eligible, wanted
    <3>1. IsFiniteSet(DOMAIN wanted)
      BY <1>2, <1>4, TaggedIsFinite
    <3>2. DOMAIN wanted # {}
      BY <1>4, <1>6
    <3> QED
      BY <3>1, <3>2
  <2> HIDE DEF wanted, eligible
  <2>2. SumOf(wanted) \in Nat
    BY <1>4, <2>1, SumIsNat
  <2>3. pool \in Nat /\ pool <= SumOf(wanted) /\ pool <= ipo[s].offered
    BY <1>0, <2>2 DEF Least
  <2> HIDE DEF pool
  <2>4. /\ DOMAIN shares = DOMAIN wanted
        /\ \A a \in DOMAIN wanted : shares[a] \in Nat
        /\ SumOf(shares) = pool
        /\ pool <= SumOf(wanted) => \A a \in DOMAIN wanted : shares[a] <= wanted[a]
    BY <1>4, <2>1, <2>3, AllocateExact
  <2> HIDE DEF shares
  <2>5. DOMAIN got = eligible /\ \A t \in eligible : got[t] = shares[<<"investor", t>>]
    BY <1>1
  <2>6. \A t \in eligible : got[t] \in Nat /\ got[t] <= ind[t][1]
    BY <1>4, <2>3, <2>4, <2>5
  <2>7. SumOf(got) = SumOf(shares)
    <3>1. DOMAIN shares = Tagged("investor", DOMAIN got)
      BY <1>4, <2>4, <2>5
    <3>2. ASSUME NEW t \in DOMAIN got
          PROVE  got[t] \in Int /\ shares[<<"investor", t>>] = got[t]
      <4>1. t \in eligible
        BY <2>5
      <4>2. got[t] \in Nat
        BY <2>6, <4>1
      <4>3. shares[<<"investor", t>>] = got[t]
        BY <2>5, <4>1
      <4> QED
        BY <4>2, <4>3
    <3>3. IsFiniteSet(DOMAIN got)
      BY <1>2, <2>5
    <3>4. PICK f : f = shares
      OBVIOUS
    <3>5. SumOf(got) = SumOf(f)
      BY <3>1, <3>2, <3>3, <3>4, SumTagged
    <3> QED
      BY <3>4, <3>5
  <2> QED
    BY <1>2, <1>3, <2>3, <2>4, <2>5, <2>6, <2>7
<1> QED
  BY <1>5, <1>6

-----------------------------------------------------------------------------
(* The listing of a symbol *)

\* A symbol without orders has no shares reserved.
LEMMA NothingReserved ==
  ASSUME BookSound(orders), NEW s, \A i \in DOMAIN orders : orders[i].sym # s, NEW t
  PROVE  Claims(orders, "shares", t, s) = 0
<1> DEFINE some == [i \in {} |-> 0]
           k == "shares"
<1>1. DOMAIN some = {}
  OBVIOUS
<1>2. \A i \in DOMAIN orders : Claim(orders[i], k, t, s) = 0
  BY DEF Claim
<1>3. k \in ClaimKinds
  BY DEF ClaimKinds
<1> HIDE DEF some, k
<1>4. SumOf(some) = Claims(orders, k, t, s)
  BY <1>1, <1>2, <1>3, ClaimsOfSome
<1>5. SumOf(some) = 0
  BY <1>1, SumEmpty
<1> QED
  BY <1>4, <1>5 DEF k

\* What the investors get and what the founder keeps are all shares of the firm.
LEMMA ListingHeld ==
  ASSUME Books, NEW s \in Symbols, orders' = orders, \A i \in DOMAIN orders : orders[i].sym # s,
         NEW got, IsFiniteSet(DOMAIN got), \A t \in DOMAIN got : t \in Traders /\ got[t] \in Nat,
         SumOf(got) \in Nat, SumOf(got) <= ipo[s].offered, ipo[s].offered \in Nat,
         NEW offer \in Nat, DOMAIN sec = Symbols, ListSecurity(s, got, offer), ord' = ord
  PROVE  HoldingsSound' /\ SharesHeld' /\ SecSound'
<1> DEFINE Shares(t) == IF t \in DOMAIN got THEN got[t] ELSE 0
           total == IpoTotal(s)
           rest == total - SumOf(got)
           Keeps(t) == IF t = Founder THEN rest ELSE 0
           Lock(t) == IF t = Founder THEN Shares(t) + rest ELSE 0
           New(t) == [qty |-> Shares(t) + Keeps(t), reserved |-> 0, locked |-> Lock(t)]
<1>1. PICK boot \in Nat : boot = Settings.bootstrap_shares
  BY SettingsAssumption
<1>2. total \in Nat /\ ipo[s].offered <= total
  BY <1>1 DEF IpoTotal
<1>3. rest \in Nat
  <2> HIDE DEF total
  <2> QED
    BY <1>2
<1>4. /\ holding' = [t \in Traders |-> [holding[t] EXCEPT ![s] = New(t)]]
      /\ sec' = [sec EXCEPT ![s] = [status |-> "listed", out |-> total, last |-> offer, ref |-> offer]]
  BY DEF ListSecurity
<1>5. \A t \in Traders : Shares(t) \in Nat
  OBVIOUS
<1> HIDE DEF total, rest, Shares
<1>6. \A t \in Traders : New(t) \in Holdings /\ New(t).reserved = 0 /\ New(t).qty = Shares(t) + Keeps(t)
  BY <1>3, <1>5 DEF Holdings
<1> HIDE DEF New
<1>7. holding \in [Traders -> [Symbols -> Holdings]]
  BY DEF Books, HoldingsSound
<1>8. /\ holding' \in [Traders -> [Symbols -> Holdings]]
      /\ \A t \in Traders : holding'[t][s] = New(t)
      /\ \A t \in Traders, z \in Symbols : z # s => holding'[t][z] = holding[t][z]
  <2>1. \A t \in Traders : holding'[t] = [holding[t] EXCEPT ![s] = New(t)]
    BY <1>4
  <2>2. ASSUME NEW t \in Traders
        PROVE  /\ holding'[t] \in [Symbols -> Holdings] /\ holding'[t][s] = New(t)
               /\ \A z \in Symbols : z # s => holding'[t][z] = holding[t][z]
    <3>1. PICK h, new : h = holding[t] /\ new = New(t)
      OBVIOUS
    <3>2. h \in [Symbols -> Holdings] /\ new \in Holdings
      BY <1>6, <1>7, <3>1
    <3>3. holding'[t] = [h EXCEPT ![s] = new]
      BY <2>1, <3>1
    <3> QED
      BY <3>1, <3>2, <3>3
  <2>3. holding' = [t \in Traders |-> holding'[t]]
    BY <1>4
  <2> QED
    BY <2>2, <2>3
<1>9. HoldingsSound'
  <2>1. \A t : Claims(orders, "shares", t, s) = 0
    BY NothingReserved DEF Books
  <2>2. \A t \in Traders, z \in Symbols : holding'[t][z].reserved = Claims(orders, "shares", t, z)
    BY <1>6, <1>8, <2>1 DEF Books, HoldingsSound
  <2> QED
    BY <1>8, <2>2 DEF HoldingsSound
<1>10. /\ sec'[s].out = total /\ sec'[s].ref = offer /\ sec'[s].last = offer
       /\ \A z \in Symbols : z # s => sec'[z] = sec[z]
  BY <1>4
<1>11. SecSound'
  BY <1>2, <1>10 DEF Books, SecSound
<1>12. ASSUME NEW z \in Symbols
       PROVE  SumOf([t \in Traders |-> holding'[t][z].qty]) = sec'[z].out
  <2> DEFINE e == [t \in Traders |-> holding'[t][z].qty]
  <2>1. CASE z # s
    <3> DEFINE f == [t \in Traders |-> holding[t][z].qty]
    <3>1. \A t \in Traders : holding'[t][z].qty = holding[t][z].qty
      BY <1>8, <2>1
    <3>2. SumOf(f) = sec[z].out
      BY DEF Books, SharesHeld
    <3>3. e = f
      BY <3>1
    <3> QED
      BY <1>10, <2>1, <3>2, <3>3
  <2>2. CASE z = s
    <3> DEFINE f == [t \in Traders |-> Shares(t)]
    <3>1. DOMAIN e = Traders /\ DOMAIN f = Traders /\ IsFiniteSet(Traders) /\ Founder \in Traders
      BY ExchangeAssumption
    <3>2. \A t \in Traders : e[t] = f[t] + Keeps(t) /\ f[t] \in Nat /\ f[t] = Shares(t)
      BY <1>5, <1>6, <1>8, <2>2
    <3>3. DOMAIN got \in SUBSET DOMAIN f /\ (\A t \in DOMAIN got : f[t] = got[t])
          /\ \A t \in DOMAIN f \ DOMAIN got : f[t] = 0
      BY <3>2 DEF Shares
    <3> HIDE DEF e, f
    <3>4. IsSummable(f)
      BY <3>1, <3>2, SumIsNat
    <3>5. SumOf(f) = SumOf(Over(f, DOMAIN got))
      BY <3>3, <3>4, SumFiltered
    <3>6. SumOf(Over(f, DOMAIN got)) = SumOf(got)
      <4>1. PICK h : h = Over(f, DOMAIN got)
        OBVIOUS
      <4>2. DOMAIN h = DOMAIN got /\ \A t \in DOMAIN got : h[t] = got[t]
        BY <3>3, <4>1 DEF Over
      <4>3. SumOf(h) = SumOf(got)
        BY <4>2, SameSum
      <4> QED
        BY <4>1, <4>3
    <3>7. e[Founder] = f[Founder] + rest /\ \A t \in DOMAIN f \ {Founder} : e[t] = f[t]
      BY <3>1, <3>2
    <3>8. e[Founder] \in Int /\ f[Founder] \in Nat
      BY <1>3, <3>1, <3>2, <3>7
    <3>9. SumOf(e) = SumOf(f) - f[Founder] + e[Founder]
      BY <3>1, <3>4, <3>7, <3>8, SumChanged
    <3>10. SumOf(e) = SumOf(got) + rest
      BY <1>3, <3>5, <3>6, <3>7, <3>8, <3>9
    <3>11. SumOf(e) = total
      BY <1>2, <3>10 DEF rest
    <3> QED
      BY <1>10, <2>2, <3>11 DEF e
  <2> QED
    BY <2>1, <2>2
<1>13. SharesHeld'
  BY <1>12 DEF SharesHeld
<1> QED
  BY <1>9, <1>11, <1>13

\* Nobody pays more than it has put aside, and the firm no more than it has.
LEMMA ProductsGrow ==
  ASSUME NEW a \in Nat, NEW b \in Nat, NEW c \in Nat, NEW d \in Nat, a <= c, b <= d
  PROVE  a * b <= c * d
<1>1. PICK x \in Nat, y \in Nat, z \in Nat : x = a * b /\ y = a * d /\ z = c * d
  OBVIOUS
<1>2. a * b <= a * d
  BY TimesMore
<1>3. d * a <= d * c
  BY TimesMore
<1>4. d * a = a * d /\ d * c = c * d
  OBVIOUS
<1> QED
  BY <1>1, <1>2, <1>3, <1>4

\* An offering (engine.py:1260-1434) returns what was put aside and not spent.
LEMMA CompleteHolds ==
  ASSUME Books, IInv, NEW s \in Symbols, CompleteIpo(s)
  PROVE  Books'
<1>1. PICK offer, got : offer = Offer(s) /\ got = IpoShares(s) /\
        \E sold \in {SumOf(got)} :
        \E fee \in {bp_ceil(sold * offer, Settings.underwriting_fee_bp)} :
        \E listing \in {Least(Settings.listing_fee_cents, Max0(sold * offer - fee))} :
          Allot(s, offer, got, sold, fee, listing)
  BY Zenon DEF CompleteIpo
<1>2. PICK sold \in {SumOf(got)} : \E fee \in {bp_ceil(sold * offer, Settings.underwriting_fee_bp)} :
        \E listing \in {Least(Settings.listing_fee_cents, Max0(sold * offer - fee))} :
          Allot(s, offer, got, sold, fee, listing)
  BY <1>1
<1>3. PICK fee \in {bp_ceil(sold * offer, Settings.underwriting_fee_bp)} :
        \E listing \in {Least(Settings.listing_fee_cents, Max0(sold * offer - fee))} :
          Allot(s, offer, got, sold, fee, listing)
  BY <1>2
<1>4. PICK listing \in {Least(Settings.listing_fee_cents, Max0(sold * offer - fee))} :
          Allot(s, offer, got, sold, fee, listing)
  BY <1>3
<1>5. /\ UNCHANGED <<orders, ord, margin, shorts>>
      /\ ipo[s].status = "announced"
  BY DEF CompleteIpo, DueIpos
<1>6. OfferSound(ipo[s]) /\ ipo[s].offered \in Nat
  BY DEF Books, OffersSound, OfferSound
<1>7. offer \in Nat
  BY <1>1, <1>6, OfferIs
<1>8. /\ \A t \in DOMAIN got : /\ t \in DOMAIN ipo[s].ind
                               /\ got[t] \in Nat /\ got[t] <= ipo[s].ind[t][1]
                               /\ offer <= ipo[s].ind[t][2]
      /\ IsFiniteSet(DOMAIN got)
      /\ SumOf(got) \in Nat /\ SumOf(got) <= ipo[s].offered
  BY <1>1, <1>6, IpoSharesAre
<1>9. sold \in Nat /\ sold = SumOf(got)
  BY <1>2, <1>8
<1>10. PICK gross \in Nat : gross = sold * offer
  BY <1>7, <1>9
<1>11. fee \in Nat
  <2>1. PICK r \in Nat : r = Settings.underwriting_fee_bp
    BY SettingsAssumption
  <2> QED
    BY <1>3, <1>10, <2>1, CeilIsNat
<1>12. listing \in Nat
  <2>1. PICK r \in Nat : r = Settings.listing_fee_cents
    BY SettingsAssumption
  <2> QED
    BY <1>4, <1>10, <1>11, <2>1 DEF Least, Max0
<1>13. \A i \in DOMAIN orders : orders[i].sym # s
  BY <1>5 DEF IInv, SecuritiesHold, OrdersHold, OrderHolds
<1>14. CASE cash[Issuer] + gross < fee + listing
  <2>1. UNCHANGED <<cash, esc, holding, sec, ipo>>
    BY <1>4, <1>10, <1>14 DEF Allot
  <2>2. SecSame /\ cash' \in [Owners -> Nat]
    BY <1>5, <2>1 DEF SecSame, Books, SecSound, CashSound
  <2> QED
    BY <1>5, <2>1, <2>2, SameBooks
<1>15. CASE ~(cash[Issuer] + gross < fee + listing)
  <2> DEFINE Shares(t) == IF t \in DOMAIN got THEN got[t] ELSE 0
             Reserved(t) == IF t \in DOMAIN ipo[s].ind THEN ipo[s].ind[t][1] * ipo[s].ind[t][2] ELSE 0
  <2>1. /\ cash' = [o \in Owners |-> cash[o]
                + (IF o \in Traders THEN Reserved(o) - Shares(o) * offer ELSE 0)
                + (IF o = Issuer THEN gross - fee - listing ELSE 0)
                + (IF o = Underwriter THEN fee ELSE 0)
                + (IF o = gv_treasury THEN listing ELSE 0)]
        /\ esc' = [t \in Traders |-> esc[t] - Reserved(t)]
        /\ ListSecurity(s, got, offer)
        /\ ipo' = [ipo EXCEPT ![s].status = "completed"]
    BY <1>4, <1>10, <1>15 DEF Allot
  <2>2. \A t \in Traders : Reserved(t) = Stake(ipo[s], t)
    BY <1>5 DEF Stake
  <2>3. \A t \in Traders : Reserved(t) \in Nat
    BY <1>6, <2>2, StakeIsNat
  <2>4. ASSUME NEW t \in Traders
        PROVE  Reserved(t) - Shares(t) * offer \in Nat
    <3>1. CASE t \in DOMAIN got
      <4>1. PICK n \in Nat, p \in Nat : n = ipo[s].ind[t][1] /\ p = ipo[s].ind[t][2]
        BY <1>6, <1>8, <3>1 DEF OfferSound
      <4>2. Reserved(t) = n * p /\ Shares(t) = got[t] /\ got[t] \in Nat /\ got[t] <= n /\ offer <= p
        BY <1>8, <3>1, <4>1
      <4>3. got[t] * offer <= n * p
        BY <1>7, <4>1, <4>2, ProductsGrow
      <4>4. got[t] * offer \in Nat /\ n * p \in Nat
        BY <1>7, <4>2
      <4> QED
        BY <4>2, <4>3, <4>4
    <3>2. CASE t \notin DOMAIN got
      <4>1. Shares(t) = 0
        BY <3>2
      <4>2. 0 * offer = 0
        BY <1>7
      <4> HIDE DEF Reserved, Shares
      <4> QED
        BY <2>3, <4>1, <4>2
    <3> QED
      BY <3>1, <3>2
  <2> DEFINE Paid(t) == Reserved(t) - Shares(t) * offer
  <2>5. \A t \in Traders : Paid(t) \in Nat
    BY <2>4
  <2>6. cash' = [o \in Owners |-> cash[o]
                + (IF o \in Traders THEN Paid(o) ELSE 0)
                + (IF o = Issuer THEN gross - fee - listing ELSE 0)
                + (IF o = Underwriter THEN fee ELSE 0)
                + (IF o = gv_treasury THEN listing ELSE 0)]
    BY <2>1
  <2> HIDE DEF Paid, Reserved, Shares
  <2>7. cash \in [Owners -> Nat]
    BY DEF Books, CashSound
  <2>8. cash' \in [Owners -> Nat]
    <3>1. Issuer \notin Traders /\ Issuer # Underwriter /\ Issuer # gv_treasury /\ Issuer \in Owners
      BY ExchangeAssumption DEF Issuer, Underwriter, gv_treasury, Owners
    <3>2. ASSUME NEW o \in Owners
          PROVE  cash[o] + (IF o \in Traders THEN Paid(o) ELSE 0)
                  + (IF o = Issuer THEN gross - fee - listing ELSE 0)
                  + (IF o = Underwriter THEN fee ELSE 0)
                  + (IF o = gv_treasury THEN listing ELSE 0) \in Nat
      <4>1. cash[o] \in Nat
        BY <2>7
      <4>2. CASE o = Issuer
        <5>1. cash[o] + gross - fee - listing \in Nat
          BY <1>10, <1>11, <1>12, <1>15, <4>1, <4>2
        <5> QED
          BY <1>10, <1>11, <1>12, <3>1, <4>1, <4>2, <5>1
      <4>3. CASE o # Issuer
        BY <1>11, <1>12, <2>5, <4>1, <4>3
      <4> QED
        BY <4>2, <4>3
    <3> QED
      BY <2>6, <3>2
  <2>9. /\ ipo'[s].status = "completed" /\ ipo'[s].ind = ipo[s].ind /\ ipo'[s].offered = ipo[s].offered
        /\ \A z \in Symbols \ {s} : ipo'[z] = ipo[z]
    BY <2>1 DEF IInv, SecuritiesHold
  <2>10. OfferSound(ipo'[s])
    BY <1>6, <2>9 DEF OfferSound
  <2>11. \A t \in Traders : Stake(ipo'[s], t) = 0
    BY <2>9 DEF Stake
  <2>12. esc' = [t \in Traders |-> esc'[t]] /\ \A t \in Traders : esc'[t] = esc[t] - Reserved(t)
    BY <2>1
  <2>13. \A t \in Traders : esc'[t] = esc[t] - Stake(ipo[s], t) + Stake(ipo'[s], t)
    <3>1. \A t \in Traders : esc[t] \in Nat
      BY DEF Books, Backed
    <3> QED
      BY <2>2, <2>3, <2>11, <2>12, <3>1
  <2>14. \A t \in DOMAIN got : t \in Traders /\ got[t] \in Nat
    BY <1>6, <1>8 DEF OfferSound
  <2>15. HoldingsSound' /\ SharesHeld' /\ SecSound'
    <3>1. DOMAIN sec = Symbols
      BY DEF IInv, SecuritiesHold
    <3>2. ListSecurity(s, got, offer)
      BY <2>1
    <3> QED
      BY <1>5, <1>6, <1>7, <1>8, <1>13, <2>14, <3>1, <3>2, ListingHeld
  <2>16. \A i \in DOMAIN orders : sec'[orders[i].sym].ref = sec[orders[i].sym].ref
    <3>1. \A z \in Symbols : z # s => sec'[z] = sec[z]
      BY <2>1 DEF ListSecurity, IInv, SecuritiesHold
    <3> QED
      BY <1>13, <3>1 DEF Books, BookSound, OrderSound
  <2> QED
    BY <1>5, <2>8, <2>9, <2>10, <2>12, <2>13, <2>15, <2>16, OfferBooks
<1> QED
  BY <1>14, <1>15

-----------------------------------------------------------------------------
(* The marks of a day *)

\* Marking a position moves its deadline and takes the borrow fee.
LEMMA MarkedBooks ==
  ASSUME Books, UNCHANGED <<orders, esc, margin, holding, ipo, sec, ord>>, cash' \in [Owners -> Nat],
         PositionsSound', \A t \in Traders, s \in Symbols : shorts'[t][s].coll = shorts[t][s].coll
  PROVE  Books'
<1>1. ReservesExact'
  BY ReservesKept DEF Books
<1>2. SecSound' /\ CashSound' /\ HoldingsSound' /\ OffersSound'
  BY DEF Books, SecSound, CashSound, HoldingsSound, OffersSound, OfferSound
<1>3. Backed'
  BY DEF Books, Backed
<1>4. SharesHeld'
  <2>1. \A s \in Symbols : SumOf([t \in Traders |-> holding'[t][s].qty]) = sec'[s].out
    BY DEF Books, SharesHeld
  <2> QED
    BY <2>1 DEF SharesHeld
<1>5. BookSound(orders)'
  BY DEF Books, BookSound, OrderSound
<1> QED
  BY <1>1, <1>2, <1>3, <1>4, <1>5 DEF Books

\* The borrow fee of a day,
LEMMA BorrowFeeIsNat ==
  ASSUME NEW p, PositionSound(p), NEW mark \in Nat
  PROVE  BorrowFee(p, mark) \in Nat
<1>1. PICK r \in Nat, d \in Nat \ {0} : r = Settings.borrow_fee_bp /\ d = Settings.days_per_sim_year
  BY SettingsAssumption
<1>2. p.qty \in Nat
  BY DEF PositionSound, Positions
<1>3. PICK n \in Nat : n = mark * p.qty
  BY <1>2
<1>4. bp_ceil(n, r) \in Nat
  BY <1>1, CeilIsNat
<1>5. bp_ceil(n, r) \div d \in Nat
  BY <1>1, <1>4, Divides
<1> QED
  BY <1>1, <1>3, <1>5 DEF BorrowFee

\* ... and the parts of it.
LEMMA FeePartsAreNat ==
  ASSUME Books, NEW s \in Symbols, NEW fee \in Nat, NEW u \in Longs(s)
  PROVE  FeeParts(fee, s)[<<"long", u>>] \in Nat
<1> DEFINE w == [a \in Tagged("long", Longs(s)) |-> holding[a[2]][s].qty]
<1>1. Traders \subseteq Nat /\ IsFiniteSet(Traders)
  BY ExchangeAssumption
<1>2. Longs(s) \in SUBSET Traders /\ IsFiniteSet(Longs(s)) /\ Longs(s) \subseteq Nat
  BY <1>1, FS_Subset DEF Longs
<1>3. \A v \in Longs(s) : holding[v][s].qty \in Nat \ {0}
  BY DEF Books, HoldingsSound, Holdings, Longs
<1>4. /\ DOMAIN w = Tagged("long", Longs(s)) /\ <<"long", u>> \in DOMAIN w
      /\ \A a \in DOMAIN w : w[a] \in Nat \ {0} /\ a[2] \in Int
      /\ \A a, d \in DOMAIN w : a[2] = d[2] => a = d
  BY <1>2, <1>3 DEF Tagged
<1>5. FeeParts(fee, s) = Allocate(fee, w)
  BY DEF FeeParts, Tagged
<1> HIDE DEF w
<1>6. IsFiniteSet(DOMAIN w) /\ DOMAIN w # {}
  BY <1>2, <1>4, TaggedIsFinite
<1>7. \A a \in DOMAIN w : Allocate(fee, w)[a] \in Nat
  BY <1>4, <1>6, AllocateExact
<1> QED
  BY <1>4, <1>5, <1>7

\* _mark_shorts keeps the accounts.
LEMMA MarkShortHolds ==
  ASSUME Books, tick \in Nat, NEW t \in Traders, NEW s \in Symbols, MarkShort(t, s)
  PROVE  Books'
<1>1. UNCHANGED <<orders, esc, margin, holding, ipo, sec, ord>>
  BY DEF MarkShort, clockVars
<1>2. PICK p : p = shorts[t][s]
  OBVIOUS
<1>3. p \in Positions /\ PositionSound(p) /\ p.deadline \in Int
  BY <1>2 DEF Books, PositionsSound, PositionSound, Positions
<1>4. PICK d \in Int : shorts' = [shorts EXCEPT ![t][s].deadline = d]
  <2>1. DayTicks \in Nat
    BY ExchangeAssumption
  <2>2. shorts' = [shorts EXCEPT ![t][s].deadline =
                  IF UnderMargin(shorts[t][s], sec[s].last) /\ @ = -1 THEN tick + DayTicks ELSE @]
    BY DEF MarkShort
  <2>3. shorts = [u \in Traders |-> [z \in Symbols |-> shorts[u][z]]]
    BY DEF Books, PositionsSound
  <2>4. PICK b : b = UnderMargin(shorts[t][s], sec[s].last)
    OBVIOUS
  <2>5. PICK e : e = IF b /\ p.deadline = -1 THEN tick + DayTicks ELSE p.deadline
    OBVIOUS
  <2>6. shorts' = [shorts EXCEPT ![t][s].deadline = e]
    BY <1>2, <1>3, <2>2, <2>3, <2>4, <2>5 DEF Positions
  <2>7. e \in Int
    BY <1>3, <2>1, <2>5
  <2> QED
    BY <2>6, <2>7
<1>5. /\ shorts' = [u \in Traders |-> [z \in Symbols |-> shorts'[u][z]]]
      /\ shorts'[t][s] = [p EXCEPT !.deadline = d]
      /\ \A u \in Traders, z \in Symbols : u # t \/ z # s => shorts'[u][z] = shorts[u][z]
  BY <1>2, <1>4 DEF Books, PositionsSound
<1>6. PositionSound(shorts'[t][s]) /\ shorts'[t][s].coll = p.coll
  BY <1>3, <1>4, <1>5 DEF PositionSound, Positions
<1>7. /\ \A u \in Traders, z \in Symbols : shorts'[u][z].coll = shorts[u][z].coll
      /\ \A u \in Traders, z \in Symbols : PositionSound(shorts'[u][z])
  BY <1>2, <1>5, <1>6 DEF Books, PositionsSound
<1>8. PositionsSound'
  BY <1>5, <1>7 DEF PositionsSound, PositionSound
<1>9. cash' \in [Owners -> Nat]
  <2>1. PICK fee : /\ fee = BorrowFee(shorts[t][s], sec[s].last)
                   /\ \/ /\ Longs(s) # {} /\ cash[t] >= fee
                         /\ cash' = [o \in Owners |-> cash[o] - (IF o = t THEN fee ELSE 0)
                               + (IF o \in Longs(s) THEN FeeParts(fee, s)[<<"long", o>>] ELSE 0)]
                      \/ UNCHANGED cash
    BY DEF MarkShort
  <2>2. sec[s].last \in Nat
    BY DEF Books, SecSound
  <2>3. fee \in Nat
    BY <1>2, <1>3, <2>1, <2>2, BorrowFeeIsNat
  <2>4. cash \in [Owners -> Nat]
    BY DEF Books, CashSound
  <2>5. CASE UNCHANGED cash
    BY <2>4, <2>5
  <2>6. CASE /\ cash[t] >= fee
             /\ cash' = [o \in Owners |-> cash[o] - (IF o = t THEN fee ELSE 0)
                          + (IF o \in Longs(s) THEN FeeParts(fee, s)[<<"long", o>>] ELSE 0)]
    <3> DEFINE Part(o) == FeeParts(fee, s)[<<"long", o>>]
    <3>1. \A o \in Longs(s) : Part(o) \in Nat
      BY <2>3, FeePartsAreNat
    <3> HIDE DEF Part
    <3>2. \A o \in Owners : cash[o] - (IF o = t THEN fee ELSE 0)
                              + (IF o \in Longs(s) THEN Part(o) ELSE 0) \in Nat
      BY <2>3, <2>4, <2>6, <3>1
    <3>3. cash' = [o \in Owners |-> cash[o] - (IF o = t THEN fee ELSE 0)
                          + (IF o \in Longs(s) THEN Part(o) ELSE 0)]
      BY <2>6 DEF Part
    <3> QED
      BY <3>2, <3>3
  <2> QED
    BY <2>1, <2>5, <2>6
<1> QED
  BY <1>1, <1>7, <1>8, <1>9, MarkedBooks

-----------------------------------------------------------------------------
(* Every step keeps the accounts *)

\* The securities stay as they are.
LEMMA SecUnchanged ==
  ASSUME Books, sec' = sec, ord' \in [Symbols -> Nat]
  PROVE  /\ SecSame /\ \A s \in Symbols : sec'[s].ref = sec[s].ref
         /\ \A i \in DOMAIN orders : sec'[orders[i].sym].ref = sec[orders[i].sym].ref
BY DEF Books, SecSound, SecSame

\* A step that moves only the clock of the exchange, its queues and ordinals.
LEMMA IdleHolds ==
  ASSUME Books,
         \/ BeginOrders \/ EndOrders \/ StartAuction \/ AuctionSkip \/ CloseIpos \/ Ended
         \/ \E s \in Symbols : Refuse(s)
         \/ \E t \in Traders, s \in Symbols : ForcedCoverRefused(t, s)
  PROVE  Books'
<1>1. ord \in [Symbols -> Nat] /\ cash \in [Owners -> Nat]
  BY DEF Books, SecSound, CashSound
<1>2. /\ ord' \in [Symbols -> Nat] /\ sec' = sec
      /\ UNCHANGED <<orders, esc, margin, holding, shorts, ipo, cash>>
  <2>1. CASE BeginOrders
    BY <1>1, <2>1 DEF BeginOrders, bookVars, clockVars
  <2>2. CASE EndOrders
    BY <1>1, <2>2 DEF EndOrders, bookVars, clockVars
  <2>3. CASE StartAuction
    BY <1>1, <2>3 DEF StartAuction, bookVars, clockVars
  <2>4. CASE AuctionSkip
    BY <1>1, <2>4 DEF AuctionSkip, bookVars, clockVars
  <2>5. CASE CloseIpos
    BY <1>1, <2>5 DEF CloseIpos, bookVars, clockVars
  <2>6. CASE Ended
    BY <1>1, <2>6 DEF Ended, vars
  <2>7. CASE \E s \in Symbols : Refuse(s)
    BY <1>1, <2>7 DEF Refuse, bookVars, clockVars
  <2>8. CASE \E t \in Traders, s \in Symbols : ForcedCoverRefused(t, s)
    BY <1>1, <2>8 DEF ForcedCoverRefused, bookVars, clockVars
  <2> QED
    BY <2>1, <2>2, <2>3, <2>4, <2>5, <2>6, <2>7, <2>8
<1>3. cash' \in [Owners -> Nat]
  BY <1>1, <1>2
<1> QED
  BY <1>2, <1>3, SecUnchanged, SameBooks

\* A step that cancels orders.
LEMMA CancelsHold ==
  ASSUME Books,
         \/ \E i \in DOMAIN orders : CancelOrder(i)
         \/ PreventSelfTrade \/ MatchDone \/ CancelSelfCross \/ CancelMarketOrders \/ CloseSession
         \/ \E s \in Symbols : Delist(s)
         \/ \E t \in Traders : Stay(t)
  PROVE  Books'
<1>1. ord \in [Symbols -> Nat] /\ BookSound(orders)
  BY DEF Books, SecSound
<1> DEFINE Cancels == \E S \in SUBSET DOMAIN orders : CancelAll(S)
<1>2. Cancels /\ ord' = ord /\ UNCHANGED <<shorts, ipo>>
  <2>1. CASE \E i \in DOMAIN orders : CancelOrder(i)
    BY <2>1 DEF CancelOrder
  <2>2. CASE PreventSelfTrade
    <3>1. {i \in DOMAIN orders \ {incoming} :
             orders[i].by = orders[incoming].by /\ crosses(orders[incoming], orders[i])}
          \in SUBSET DOMAIN orders
      OBVIOUS
    <3> QED
      BY <2>2, <3>1 DEF PreventSelfTrade, clockVars
  <2>3. CASE MatchDone
    <3>1. {i \in DOMAIN orders : i = incoming /\ orders[i].lim = 0} \in SUBSET DOMAIN orders
      OBVIOUS
    <3> QED
      BY <2>3, <3>1 DEF MatchDone, clockVars
  <2>4. CASE CancelSelfCross
    <3>1. FirstSelfCross \in SelfCrosses
      BY <1>1, <2>4, FirstSelfCrossIs DEF CancelSelfCross
    <3>2. FirstSelfCross[1] \in DOMAIN orders /\ FirstSelfCross[2] \in DOMAIN orders
      <4>1. PICK p : p = FirstSelfCross
        OBVIOUS
      <4>2. p \in OnSide(auction.sym, "buy") \X OnSide(auction.sym, "sell")
        BY <3>1, <4>1 DEF SelfCrosses
      <4> QED
        BY <4>1, <4>2 DEF OnSide, Live
    <3>3. PICK p \in {FirstSelfCross} : CancelAll({IF Newer(p[1], p[2]) THEN p[1] ELSE p[2]})
      BY <2>4, Zenon DEF CancelSelfCross
    <3>4. {IF Newer(p[1], p[2]) THEN p[1] ELSE p[2]} \in SUBSET DOMAIN orders
      BY <3>2, <3>3
    <3>5. Cancels
      BY <3>3, <3>4
    <3> QED
      BY <2>4, <3>5 DEF CancelSelfCross, clockVars
  <2>5. CASE CancelMarketOrders
    <3>1. {i \in Live(auction.sym) : orders[i].lim = 0} \in SUBSET DOMAIN orders
      BY DEF Live
    <3> QED
      BY <2>5, <3>1 DEF CancelMarketOrders, clockVars
  <2>6. CASE CloseSession
    <3>1. (IF Closing THEN DOMAIN orders ELSE {}) \in SUBSET DOMAIN orders
      OBVIOUS
    <3> QED
      BY <2>6, <3>1 DEF CloseSession, clockVars
  <2>7. CASE \E s \in Symbols : Delist(s)
    <3>1. \A s : Live(s) \in SUBSET DOMAIN orders
      BY DEF Live
    <3> QED
      BY <2>7, <3>1 DEF Delist, clockVars
  <2>8. CASE \E t \in Traders : Stay(t)
    <3>1. \A t : {i \in DOMAIN orders : orders[i].by = t} \in SUBSET DOMAIN orders
      OBVIOUS
    <3> QED
      BY <2>8, <3>1 DEF Stay
  <2> QED
    BY <2>1, <2>2, <2>3, <2>4, <2>5, <2>6, <2>7, <2>8
<1>3. SecSame /\ \A s \in Symbols : sec'[s].ref = sec[s].ref
  <2>1. CASE sec' = sec
    BY <1>1, <1>2, <2>1, SecUnchanged
  <2>2. CASE \E z \in Symbols : Delist(z)
    <3>1. PICK z \in Symbols : sec' = [sec EXCEPT ![z].status = "delisted"]
      BY <2>2 DEF Delist
    <3>2. \A s \in Symbols : /\ sec'[s].out = sec[s].out /\ sec'[s].ref = sec[s].ref
                             /\ sec'[s].last = sec[s].last
      BY <3>1
    <3> QED
      BY <1>1, <1>2, <3>2 DEF SecSame, Books, SecSound
  <2>3. sec' = sec \/ \E z \in Symbols : Delist(z)
    BY DEF CancelOrder, PreventSelfTrade, MatchDone, CancelSelfCross, CancelMarketOrders, CloseSession, Stay
  <2> QED
    BY <2>1, <2>2, <2>3
<1>4. PICK S \in SUBSET DOMAIN orders : CancelAll(S)
  BY <1>2
<1> QED
  BY <1>2, <1>3, <1>4, CancelHolds

\* An order or a forced cover is admitted.
LEMMA AdmissionsHold ==
  ASSUME Books, tick \in Nat, CoversSound,
         \/ \E i \in Bids : SubmitBuy(i[1], i[2], i[3], i[4])
         \/ \E i \in Asks : SubmitSell(i[1], i[2], i[3], i[4])
         \/ \E i \in ShortSales : SubmitShort(i[1], i[2], i[3], i[4])
         \/ \E t \in Traders, s \in Symbols : ForcedCover(t, s)
  PROVE  Books'
<1>0. \A i \in Bids \cup Asks \cup ShortSales :
        i[1] \in Traders /\ i[2] \in Symbols /\ i[3] \in 0..Highest /\ i[4] \in Nat \ {0}
  BY ExchangeAssumption
<1>1. CASE \E i \in Bids : SubmitBuy(i[1], i[2], i[3], i[4])
  <2>1. PICK i \in Bids : EnterBuy(i[1], i[2], i[3], i[4], "plain")
    BY <1>1 DEF SubmitBuy
  <2>2. i[1] \in Traders /\ i[2] \in Symbols /\ i[3] \in 0..Highest /\ i[4] \in Nat \ {0}
    BY <1>0
  <2> QED
    BY <2>1, <2>2, EnterBuyHolds
<1>2. CASE \E i \in Asks : SubmitSell(i[1], i[2], i[3], i[4])
  BY <1>0, <1>2, SubmitSellHolds
<1>3. CASE \E i \in ShortSales : SubmitShort(i[1], i[2], i[3], i[4])
  BY <1>0, <1>3, SubmitShortHolds
<1>4. CASE \E t \in Traders, s \in Symbols : ForcedCover(t, s)
  <2>1. PICK t \in Traders, s \in Symbols : ForcedCover(t, s)
    BY <1>4
  <2>2. PICK qty \in CoverQty(t, s) : EnterBuy(t, s, 0, qty, "forced")
    BY <2>1 DEF ForcedCover
  <2>3. qty \in Nat \ {0}
    <3>1. stage = "orders"
      BY <2>1 DEF ForcedCover, Arriving
    <3>2. PICK q \in todo : qty = q[3]
      BY <2>2 DEF CoverQty
    <3> QED
      BY <3>1, <3>2 DEF CoversSound
  <2>4. PICK lim \in 0..Highest : lim = 0
    BY HighestIsNat
  <2>5. PICK kind \in {"plain", "forced"} : kind = "forced"
    OBVIOUS
  <2>6. EnterBuy(t, s, lim, qty, kind)
    BY <2>2, <2>4, <2>5
  <2> QED
    BY <2>3, <2>6, EnterBuyHolds
<1> QED
  BY <1>1, <1>2, <1>3, <1>4

\* The reference moves only while the book is empty.
LEMMA NextTickBooks ==
  ASSUME Books, IInv, NextTick
  PROVE  Books'
<1>1. /\ UNCHANGED <<orders, esc, margin, holding, shorts, ipo, cash>> /\ ord' = [s \in Symbols |-> 0]
      /\ sec' = IF Chronicle \/ tick' % DayTicks = OpenHour
                THEN [s \in Symbols |-> [sec[s] EXCEPT !.ref = sec[s].last]]
                ELSE sec
  BY DEF NextTick, bookVars
<1>2. \A i \in DOMAIN orders : sec'[orders[i].sym].ref = sec[orders[i].sym].ref
  BY ReferenceStays
<1>3. \A s \in Symbols : /\ sec'[s].out = sec[s].out /\ sec'[s].last = sec[s].last
                         /\ sec'[s].ref \in {sec[s].ref, sec[s].last}
  BY <1>1 DEF IInv, SecuritiesHold
<1>4. SecSame
  BY <1>1, <1>3 DEF SecSame, Books, SecSound
<1>5. cash' \in [Owners -> Nat]
  BY <1>1 DEF Books, CashSound
<1> QED
  BY <1>1, <1>2, <1>4, <1>5, SameBooks

\* The issuer spends.
LEMMA IssuerSpendsHolds ==
  ASSUME Books, IssuerSpends
  PROVE  Books'
<1>1. /\ UNCHANGED <<orders, esc, margin, holding, shorts, ipo, sec, ord>>
      /\ cash' = [cash EXCEPT ![Issuer] = 0, ![gv_treasury] = @ + cash[Issuer]]
  BY DEF IssuerSpends, clockVars
<1>2. Issuer \in Owners /\ gv_treasury \in Owners /\ Issuer # gv_treasury
  BY DEF Owners, Issuer, gv_treasury
<1>3. cash \in [Owners -> Nat] /\ ord' \in [Symbols -> Nat]
  BY <1>1 DEF Books, CashSound, SecSound
<1>4. cash' \in [Owners -> Nat]
  BY <1>1, <1>2, <1>3
<1> QED
  BY <1>1, <1>3, <1>4, SecUnchanged, SameBooks

\* Every step keeps the accounts.
LEMMA BooksHold ==
  ASSUME AInv, IInv, Next
  PROVE  Books'
<1>1. Books /\ CoversSound /\ AuctionSound
  BY DEF AInv
<1>2. tick \in Nat
  BY DEF IInv, SessionHolds
<1> QED
  BY <1>1, <1>2, IdleHolds, CancelsHold, AdmissionsHold, NextTickBooks, IssuerSpendsHolds,
     MatchFillHolds, AuctionFillHolds, AnnounceHolds, IndicateHolds, FailHolds, CompleteHolds,
     MarkShortHolds DEF Next

-----------------------------------------------------------------------------
(* Covers, auctions and counters *)

\* Forced covers still to be admitted are of positive quantities.
LEMMA CoversHold ==
  ASSUME AInv, Next
  PROVE  CoversSound'
<1> DEFINE Early == {"orders", "stp", "match"}
           Fewer == todo' \subseteq todo /\ (stage' \in Early => stage \in Early)
<1>1. CoversSound
  BY DEF AInv
<1>2. ASSUME Fewer \/ stage' \notin Early
      PROVE  CoversSound'
  BY <1>1, <1>2 DEF CoversSound
<1>3. CASE BeginOrders
  <2>1. todo' = DueCovers
    BY <1>3 DEF BeginOrders
  <2>2. ASSUME NEW q \in todo'
        PROVE  q[3] \in Nat \ {0}
    <3>1. PICK p \in Traders \X Symbols : /\ DueCover(p[1], p[2])
                                          /\ q = <<p[1], p[2], shorts[p[1]][p[2]].qty>>
      BY <2>1 DEF DueCovers
    <3>2. PICK t \in Traders, s \in Symbols : p = <<t, s>>
      OBVIOUS
    <3>3. q[3] = shorts[t][s].qty /\ shorts[t][s].qty > 0
      BY <3>1, <3>2 DEF DueCover
    <3>4. PositionSound(shorts[t][s])
      BY DEF AInv, Books, PositionsSound
    <3>5. shorts[t][s].qty \in Nat
      BY <3>4 DEF PositionSound, Positions
    <3> QED
      BY <3>3, <3>5
  <2> QED
    BY <2>2 DEF CoversSound
<1>4. CASE \E i \in DOMAIN orders : CancelOrder(i)
  BY <1>2, <1>4 DEF CancelOrder
<1>5. CASE \E i \in Offerings : AnnounceIpo(i[1], i[2])
  BY <1>2, <1>5 DEF AnnounceIpo
<1>6. CASE \E i \in Bids : SubmitBuy(i[1], i[2], i[3], i[4])
  BY <1>2, <1>6 DEF SubmitBuy, Arriving
<1>7. CASE \E i \in Asks : SubmitSell(i[1], i[2], i[3], i[4])
  BY <1>2, <1>7 DEF SubmitSell, Arriving
<1>8. CASE \E i \in ShortSales : SubmitShort(i[1], i[2], i[3], i[4])
  BY <1>2, <1>8 DEF SubmitShort, Arriving
<1>9. CASE \E i \in Interests : Indicate(i[1], i[2], i[3], i[4])
  BY <1>2, <1>9 DEF Indicate, Arriving
<1>10. CASE \E t \in Traders, s \in Symbols : ForcedCover(t, s) \/ ForcedCoverRefused(t, s)
  BY <1>2, <1>10 DEF ForcedCover, ForcedCoverRefused, Arriving
<1>11. CASE \E s \in Symbols : Refuse(s)
  BY <1>2, <1>11 DEF Refuse
<1>12. CASE PreventSelfTrade \/ MatchFill \/ MatchDone
  BY <1>2, <1>12 DEF PreventSelfTrade, MatchFill, MatchDone
<1>13. CASE EndOrders \/ StartAuction \/ AuctionSkip \/ AuctionFill
  BY <1>2, <1>13 DEF EndOrders, StartAuction, AuctionSkip, AuctionFill
<1>14. CASE CancelSelfCross \/ CancelMarketOrders \/ CloseIpos \/ CloseSession
  BY <1>2, <1>14 DEF CancelSelfCross, CancelMarketOrders, CloseIpos, CloseSession
<1>15. CASE \E s \in Symbols : FailIpo(s) \/ CompleteIpo(s)
  BY <1>2, <1>15 DEF FailIpo, CompleteIpo, Allot
<1>16. CASE \E t \in Traders, s \in Symbols : MarkShort(t, s)
  BY <1>2, <1>16 DEF MarkShort, clockVars
<1>17. CASE NextTick
  BY <1>2, <1>17 DEF NextTick
<1>18. CASE (\E s \in Symbols : Delist(s)) \/ (\E t \in Traders : Stay(t)) \/ IssuerSpends
  BY <1>2, <1>18 DEF Delist, Stay, IssuerSpends
<1>19. CASE Ended
  BY <1>2, <1>19 DEF Ended, vars
<1> QED
  BY <1>3, <1>4, <1>5, <1>6, <1>7, <1>8, <1>9, <1>10, <1>11, <1>12, <1>13, <1>14, <1>15, <1>16,
     <1>17, <1>18, <1>19 DEF Next

\* What is admitted is entered.
LEMMA AdmissionEnters ==
  ASSUME \/ \E i \in Bids : SubmitBuy(i[1], i[2], i[3], i[4])
         \/ \E i \in Asks : SubmitSell(i[1], i[2], i[3], i[4])
         \/ \E i \in ShortSales : SubmitShort(i[1], i[2], i[3], i[4])
         \/ \E t \in Traders, s \in Symbols : ForcedCover(t, s)
  PROVE  stage = "orders" /\ (Input \/ inputs' = inputs) /\ \E o : Enter(o)
<1>1. \A t, s, lim, qty, kind : EnterBuy(t, s, lim, qty, kind) => \E o : Enter(o)
  BY DEF EnterBuy
<1>2. CASE \E i \in Bids : SubmitBuy(i[1], i[2], i[3], i[4])
  BY <1>1, <1>2 DEF SubmitBuy, Arriving
<1>3. CASE \E i \in Asks : SubmitSell(i[1], i[2], i[3], i[4])
  BY <1>3 DEF SubmitSell, Arriving
<1>4. CASE \E i \in ShortSales : SubmitShort(i[1], i[2], i[3], i[4])
  BY <1>4 DEF SubmitShort, Arriving
<1>5. CASE \E t \in Traders, s \in Symbols : ForcedCover(t, s)
  BY <1>1, <1>5 DEF ForcedCover, Arriving
<1> QED
  BY <1>2, <1>3, <1>4, <1>5

\* The orders of an auction are those of its price, until it is over.
LEMMA AuctionsHold ==
  ASSUME AInv, IInv, Next
  PROVE  AuctionSound'
<1>1. AuctionSound /\ Books /\ BookSound(orders) /\ tick \in Nat
  BY DEF AInv, Books, IInv, SessionHolds
<1>2. ASSUME stage # "fill" \/ AuctionOver, auction' = auction
      PROVE  AuctionSound'
  BY <1>1, <1>2, OverKept, NotFilling
<1>3. CASE StartAuction \/ AuctionFill \/ AuctionSkip
  <2>1. DOMAIN auction = {"sym", "price", "left", "bids", "asks"}
    BY DEF IInv, SelfHolds
  <2> QED
    BY <1>1, <1>3, <2>1, StartAuctionHolds, AuctionFillHolds, AuctionSkipHolds
<1>4. CASE CancelMarketOrders
  <2>1. auction' = NoAuction
    BY <1>4 DEF CancelMarketOrders
  <2> QED
    BY <2>1 DEF NoAuction, AuctionSound, AuctionOver
<1>5. CASE \/ \E i \in DOMAIN orders : CancelOrder(i)
           \/ \E i \in Offerings : AnnounceIpo(i[1], i[2])
           \/ \E i \in Interests : Indicate(i[1], i[2], i[3], i[4])
           \/ \E t \in Traders, s \in Symbols : ForcedCoverRefused(t, s)
           \/ \E s \in Symbols : Refuse(s)
  BY <1>2, <1>5 DEF CancelOrder, AnnounceIpo, Indicate, ForcedCoverRefused, Refuse, Arriving
<1>6. CASE \/ \E i \in Bids : SubmitBuy(i[1], i[2], i[3], i[4])
           \/ \E i \in Asks : SubmitSell(i[1], i[2], i[3], i[4])
           \/ \E i \in ShortSales : SubmitShort(i[1], i[2], i[3], i[4])
           \/ \E t \in Traders, s \in Symbols : ForcedCover(t, s)
  <2>1. stage = "orders" /\ \E o : Enter(o)
    BY <1>6, AdmissionEnters
  <2>2. auction' = auction
    BY <2>1, EnterEnters
  <2> QED
    BY <1>2, <2>1, <2>2
<1>7. CASE BeginOrders \/ PreventSelfTrade \/ MatchFill \/ MatchDone \/ EndOrders \/ CancelSelfCross
  BY <1>2, <1>7 DEF BeginOrders, PreventSelfTrade, MatchFill, MatchDone, EndOrders, CancelSelfCross
<1>8. CASE (\E s \in Symbols : FailIpo(s) \/ CompleteIpo(s)) \/ CloseIpos \/ CloseSession \/ NextTick
  BY <1>2, <1>8 DEF FailIpo, CompleteIpo, CloseIpos, CloseSession, NextTick
<1>9. CASE \/ \E t \in Traders, s \in Symbols : MarkShort(t, s)
           \/ \E s \in Symbols : Delist(s)
           \/ \E t \in Traders : Stay(t)
           \/ IssuerSpends
  BY <1>2, <1>9 DEF MarkShort, Delist, Stay, IssuerSpends
<1>10. CASE Ended
  BY <1>2, <1>10 DEF Ended, vars
<1> QED
  BY <1>3, <1>4, <1>5, <1>6, <1>7, <1>8, <1>9, <1>10 DEF Next

\* The tick, the inputs and the stage stay within their bounds.
LEMMA CountersHold ==
  ASSUME CountersSound, Next
  PROVE  CountersSound'
<1> DEFINE Stages == {"cancels", "orders", "stp", "match", "auction", "fill", "mark", "between",
                      "raised"}
<1>1. /\ tick \in 0..LastTick /\ inputs \in 0..MaxInputs /\ stage \in Stages
      /\ LastTick \in Nat /\ MaxInputs \in Nat
  BY ExchangeAssumption DEF CountersSound
<1>2. Input => inputs' \in 0..MaxInputs
  BY <1>1 DEF Input
<1>3. ASSUME tick' = tick, Input \/ inputs' = inputs, stage' \in Stages
      PROVE  CountersSound'
  BY <1>1, <1>2, <1>3 DEF CountersSound
<1>4. CASE NextTick
  <2>1. tick' \in 0..LastTick /\ inputs' = inputs /\ stage' = "cancels"
    BY <1>1, <1>4 DEF NextTick
  <2> QED
    BY <1>1, <2>1 DEF CountersSound
<1>5. CASE \/ \E i \in DOMAIN orders : CancelOrder(i)
           \/ \E i \in Offerings : AnnounceIpo(i[1], i[2])
           \/ \E i \in Interests : Indicate(i[1], i[2], i[3], i[4])
           \/ \E t \in Traders, s \in Symbols : ForcedCoverRefused(t, s)
           \/ \E s \in Symbols : Refuse(s)
  BY <1>1, <1>3, <1>5 DEF CancelOrder, AnnounceIpo, Indicate, ForcedCoverRefused, Refuse, clockVars
<1>6. CASE \/ \E i \in Bids : SubmitBuy(i[1], i[2], i[3], i[4])
           \/ \E i \in Asks : SubmitSell(i[1], i[2], i[3], i[4])
           \/ \E i \in ShortSales : SubmitShort(i[1], i[2], i[3], i[4])
           \/ \E t \in Traders, s \in Symbols : ForcedCover(t, s)
  <2>1. (Input \/ inputs' = inputs) /\ \E o : Enter(o)
    BY <1>6, AdmissionEnters
  <2>2. tick' = tick /\ stage' \in {"orders", "stp"}
    BY <2>1, EnterEnters DEF Entered
  <2> QED
    BY <1>3, <2>1, <2>2
<1>7. CASE BeginOrders \/ PreventSelfTrade \/ MatchFill \/ MatchDone \/ EndOrders \/ CancelSelfCross
  BY <1>1, <1>3, <1>7 DEF BeginOrders, PreventSelfTrade, MatchFill, MatchDone, EndOrders,
     CancelSelfCross, clockVars
<1>8. CASE (\E s \in Symbols : FailIpo(s) \/ CompleteIpo(s)) \/ CloseIpos \/ CloseSession
  BY <1>1, <1>3, <1>8 DEF FailIpo, CompleteIpo, Allot, CloseIpos, CloseSession, clockVars
<1>9. CASE \/ \E t \in Traders, s \in Symbols : MarkShort(t, s)
           \/ \E s \in Symbols : Delist(s)
           \/ \E t \in Traders : Stay(t)
           \/ IssuerSpends
  BY <1>1, <1>3, <1>9 DEF MarkShort, Delist, Stay, IssuerSpends, clockVars
<1>10. CASE Ended
  BY <1>1, <1>3, <1>10 DEF Ended, vars
<1>11. CASE StartAuction \/ AuctionFill \/ AuctionSkip \/ CancelMarketOrders
  BY <1>1, <1>3, <1>11 DEF StartAuction, AuctionFill, AuctionSkip, CancelMarketOrders, clockVars
<1> QED
  BY <1>4, <1>5, <1>6, <1>7, <1>8, <1>9, <1>10, <1>11 DEF Next

\* The invariant of the accounts is inductive, given that of the book.
LEMMA AccountsStep == IInv /\ AInv /\ [Next]_vars => AInv'
<1> SUFFICES ASSUME IInv, AInv, [Next]_vars
             PROVE  AInv'
  OBVIOUS
<1>1. CASE Next
  BY <1>1, BooksHold, CoversHold, AuctionsHold, CountersHold DEF AInv
<1>2. CASE UNCHANGED vars
  <2>1. Books'
    <3>1. ord' \in [Symbols -> Nat] /\ cash' \in [Owners -> Nat] /\ Books
      BY <1>2 DEF AInv, Books, SecSound, CashSound, vars
    <3>2. sec' = sec /\ UNCHANGED <<orders, esc, margin, holding, shorts, ipo>>
      BY <1>2 DEF vars
    <3> QED
      BY <3>1, <3>2, SecUnchanged, SameBooks
  <2>2. CoversSound' /\ CountersSound'
    BY <1>2 DEF vars, AInv, CoversSound, CountersSound
  <2>3. AuctionSound'
    <3>1. orders' = orders /\ sec' = sec /\ auction' = auction /\ stage' = stage
      BY <1>2 DEF vars
    <3>2. AuctionSound
      BY DEF AInv
    <3> QED
      BY <3>1, <3>2 DEF AuctionSound, AuctionOver, InBand, Band, BidsAt, AsksAt, OnSide, Live
  <2> QED
    BY <2>1, <2>2, <2>3 DEF AInv
<1> QED
  BY <1>1, <1>2

-----------------------------------------------------------------------------
(* The accounts stay exact *)

\* A sum of zeros.
LEMMA ZeroSum ==
  ASSUME NEW f, IsFiniteSet(DOMAIN f), \A x \in DOMAIN f : f[x] = 0
  PROVE  SumOf(f) = 0
<1>1. IsSummable(f)
  BY DEF IsSummable
<1>2. {} \in SUBSET DOMAIN f /\ \A x \in DOMAIN f \ {} : f[x] = 0
  OBVIOUS
<1>3. SumOf(f) = SumOf(Over(f, {}))
  BY <1>1, <1>2, SumFiltered
<1> QED
  BY <1>3, OverNone

\* It holds at the start.
LEMMA AccountsInit == Init => AInv
<1> SUFFICES ASSUME Init
             PROVE  AInv
  OBVIOUS
<1>1. PICK boot \in Nat, start \in Nat :
        boot = Settings.bootstrap_shares /\ start = Settings.bootstrap_price_cents
  BY SettingsAssumption
<1>2. DOMAIN orders = {}
  BY DEF Init
<1>3. BookSound(orders) /\ ReservesExact
  BY <1>2, FS_EmptySet DEF BookSound, ReservesExact
<1>4. OffersSound
  <2>1. \A s \in Symbols : ipo[s].offered = 0 /\ DOMAIN ipo[s].ind = {}
    BY DEF Init
  <2> QED
    BY <2>1 DEF OffersSound, OfferSound
<1>5. shorts = [t \in Traders |-> [s \in Symbols |->
       [status |-> "none", qty |-> 0, entry |-> 0, coll |-> 0, opened |-> 0, deadline |-> -1]]]
  BY DEF Init
<1>6. PositionsSound
  BY <1>5 DEF PositionsSound, PositionSound, Positions
<1>7. \A s \in Symbols : /\ sec[s].out = (IF s \in Listed THEN boot ELSE 0)
                         /\ sec[s].ref \in {0, start} /\ sec[s].last \in {0, start}
  BY <1>1 DEF Init
<1>8. SecSound
  BY <1>1, <1>7 DEF SecSound, Init
<1>9. CashSound
  BY ExchangeAssumption DEF Init, CashSound
<1>10. \A k, t, s : Claims(orders, k, t, s) = 0
  <2> TAKE k, t, s
  <2>1. PICK f : f = [i \in DOMAIN orders |-> Claim(orders[i], k, t, s)]
    OBVIOUS
  <2>2. DOMAIN f = {}
    BY <1>2, <2>1
  <2>3. SumOf(f) = 0
    BY <2>2, SumEmpty
  <2> QED
    BY <2>1, <2>3 DEF Claims
<1>11. \A t : Interest(ipo, t) = 0
  <2> TAKE t
  <2>1. PICK f : f = [s \in Symbols |-> Stake(ipo[s], t)]
    OBVIOUS
  <2>2. \A s \in Symbols : ipo[s].status = "none"
    BY DEF Init
  <2>3. IsFiniteSet(DOMAIN f) /\ \A s \in DOMAIN f : f[s] = 0
    BY <2>1, <2>2, ExchangeAssumption DEF Stake
  <2>4. SumOf(f) = 0
    BY <2>3, ZeroSum
  <2> QED
    BY <2>1, <2>4 DEF Interest
<1>12. Backed
  <2>1. esc = [t \in Traders |-> 0] /\ margin = [t \in Traders |-> [s \in Symbols |-> 0]]
    BY DEF Init
  <2>2. \A t \in Traders, s \in Symbols : shorts[t][s].coll = 0
    BY <1>5
  <2> QED
    BY <1>10, <1>11, <2>1, <2>2 DEF Backed
<1> DEFINE Start(t, s) == IF t = Founder /\ s \in Listed THEN boot ELSE 0
<1>13. holding = [t \in Traders |-> [s \in Symbols |->
                    [qty |-> Start(t, s), reserved |-> 0, locked |-> 0]]]
  BY <1>1 DEF Init
<1>14. \A t \in Traders, s \in Symbols : holding[t][s].qty = Start(t, s) /\ Start(t, s) \in Nat
  BY <1>13
<1>15. HoldingsSound
  <2>1. \A t, s : [qty |-> Start(t, s), reserved |-> 0, locked |-> 0] \in Holdings
    BY DEF Holdings
  <2>2. holding \in [Traders -> [Symbols -> Holdings]]
    <3> HIDE DEF Start
    <3> QED
      BY <1>13, <2>1
  <2>3. \A t \in Traders, s \in Symbols : holding[t][s].reserved = 0
    BY <1>13
  <2> QED
    BY <1>10, <2>2, <2>3 DEF HoldingsSound
<1>16. ASSUME NEW s \in Symbols
       PROVE  SumOf([t \in Traders |-> holding[t][s].qty]) = sec[s].out
  <2> DEFINE e == [t \in Traders |-> holding[t][s].qty]
             f == [t \in Traders |-> 0]
  <2>1. DOMAIN e = Traders /\ DOMAIN f = Traders /\ IsFiniteSet(Traders) /\ Founder \in Traders
    BY ExchangeAssumption
  <2>2. \A t \in Traders : e[t] = (IF t = Founder /\ s \in Listed THEN boot ELSE 0) /\ f[t] = 0
    BY <1>14
  <2>3. SumOf(f) = 0 /\ IsSummable(f)
    <3> HIDE DEF f
    <3> QED
      BY <2>1, <2>2, ZeroSum DEF IsSummable
  <2>4. e[Founder] = (IF s \in Listed THEN boot ELSE 0) /\ e[Founder] \in Int /\ f[Founder] = 0
        /\ \A t \in DOMAIN f \ {Founder} : e[t] = f[t]
    BY <1>1, <2>1, <2>2
  <2> HIDE DEF e, f
  <2>5. SumOf(e) = SumOf(f) - f[Founder] + e[Founder]
    BY <2>1, <2>3, <2>4, SumChanged
  <2>6. SumOf(e) = sec[s].out
    BY <1>1, <1>7, <2>3, <2>4, <2>5
  <2> QED
    BY <2>6 DEF e
<1>17. SharesHeld
  BY <1>16 DEF SharesHeld
<1>18. CoversSound /\ CountersSound
  BY ExchangeAssumption DEF Init, CoversSound, CountersSound
<1>19. AuctionSound
  BY DEF Init, NoAuction, AuctionSound, AuctionOver
<1> QED
  BY <1>3, <1>4, <1>6, <1>8, <1>9, <1>12, <1>15, <1>17, <1>18, <1>19 DEF AInv, Books

\* What is set aside is what the book and the register of offerings say.
LEMMA BooksBacked ==
  ASSUME Books
  PROVE  EscrowBacked
<1>1. BookSound(orders)
  BY DEF Books
<1>2. ASSUME NEW t \in Traders
      PROVE  Cents(Escrowed(DOMAIN orders, t)) = Claims(orders, "escrow", t, 0)
  <2> DEFINE some == [i \in Escrowed(DOMAIN orders, t) |-> orders[i].cents]
             k == "escrow"
  <2>1. /\ DOMAIN some \in SUBSET DOMAIN orders
        /\ \A i \in DOMAIN some : some[i] = Claim(orders[i], k, t, 0)
        /\ \A i \in DOMAIN orders \ DOMAIN some : Claim(orders[i], k, t, 0) = 0
    BY DEF Escrowed, Claim
  <2>2. Cents(Escrowed(DOMAIN orders, t)) = SumOf(some)
    BY DEF Cents
  <2>3. k \in ClaimKinds
    BY DEF ClaimKinds
  <2> HIDE DEF some, k
  <2>4. SumOf(some) = Claims(orders, k, t, 0)
    BY <1>1, <2>1, <2>3, ClaimsOfSome
  <2> QED
    BY <2>2, <2>4 DEF k
<1>3. ASSUME NEW t \in Traders, NEW s \in Symbols
      PROVE  Cents(Pledged(DOMAIN orders, t, s)) = Claims(orders, "pledge", t, s)
  <2> DEFINE some == [i \in Pledged(DOMAIN orders, t, s) |-> orders[i].cents]
             k == "pledge"
  <2>1. /\ DOMAIN some \in SUBSET DOMAIN orders
        /\ \A i \in DOMAIN some : some[i] = Claim(orders[i], k, t, s)
        /\ \A i \in DOMAIN orders \ DOMAIN some : Claim(orders[i], k, t, s) = 0
    BY DEF Pledged, Claim
  <2>2. Cents(Pledged(DOMAIN orders, t, s)) = SumOf(some)
    BY DEF Cents
  <2>3. k \in ClaimKinds
    BY DEF ClaimKinds
  <2> HIDE DEF some, k
  <2>4. SumOf(some) = Claims(orders, k, t, s)
    BY <1>1, <2>1, <2>3, ClaimsOfSome
  <2> QED
    BY <2>2, <2>4 DEF k
<1>4. ASSUME NEW t \in Traders
      PROVE  SumOf([s \in Indicated(t) |-> ipo[s].ind[t][1] * ipo[s].ind[t][2]]) = Interest(ipo, t)
  <2> DEFINE f == [s \in Symbols |-> Stake(ipo[s], t)]
             e == [s \in Indicated(t) |-> ipo[s].ind[t][1] * ipo[s].ind[t][2]]
             U == Indicated(t)
  <2>1. DOMAIN f = Symbols /\ IsFiniteSet(DOMAIN f) /\ \A s \in DOMAIN f : f[s] \in Nat
    BY StakeIsNat, ExchangeAssumption DEF Books, OffersSound
  <2>2. /\ U \in SUBSET DOMAIN f /\ DOMAIN e = U /\ \A s \in U : e[s] = f[s]
        /\ \A s \in DOMAIN f \ U : f[s] = 0
    BY DEF Indicated, Stake
  <2>3. Interest(ipo, t) = SumOf(f)
    BY DEF Interest
  <2> HIDE DEF f, e, U
  <2>4. IsSummable(f) /\ IsFiniteSet(U)
    BY <2>1, <2>2, SumIsNat, FS_Subset
  <2>5. SumOf(f) = SumOf(Over(f, U))
    BY <2>2, <2>4, SumFiltered
  <2>6. PICK h : h = Over(f, U)
    OBVIOUS
  <2>7. DOMAIN h = U /\ \A s \in U : h[s] = f[s]
    BY <2>6 DEF Over
  <2>8. SumOf(e) = SumOf(h)
    BY <2>2, <2>4, <2>7, SameSum
  <2> QED
    BY <2>3, <2>5, <2>6, <2>8 DEF e
<1> QED
  BY <1>2, <1>3, <1>4 DEF Books, Backed, EscrowBacked

\* What the books say of balances, shares and reservations.
LEMMA BooksAreExact ==
  ASSUME AInv
  PROVE  AccountsExact
<1>1. Books /\ BookSound(orders) /\ CountersSound
  BY DEF AInv, Books
<1>2. TypeOK
  <2>1. /\ DOMAIN orders \subseteq Nat
        /\ \A i \in DOMAIN orders :
             /\ orders[i].by \in Traders /\ orders[i].sym \in Symbols
             /\ orders[i].lim \in 0..Highest /\ orders[i].rem > 0
             /\ orders[i].cents >= 0 /\ orders[i].shares >= 0
    <3>1. DOMAIN orders \subseteq Nat
      BY <1>1 DEF BookSound
    <3>2. ASSUME NEW i \in DOMAIN orders
          PROVE  /\ orders[i].by \in Traders /\ orders[i].sym \in Symbols
                 /\ orders[i].lim \in 0..Highest /\ orders[i].rem > 0
                 /\ orders[i].cents >= 0 /\ orders[i].shares >= 0
      <4>1. OrderSound(orders[i])
        BY <1>1 DEF BookSound
      <4> QED
        BY <4>1 DEF OrderSound
    <3> QED
      BY <3>1, <3>2
  <2>2. \A t \in Traders, s \in Symbols :
          holding[t][s].qty \in Int /\ holding[t][s].reserved >= 0 /\ holding[t][s].locked >= 0
    BY <1>1 DEF Books, HoldingsSound, Holdings
  <2>3. \A t \in Traders, s \in Symbols :
          /\ shorts[t][s].status \in {"none", "open", "covered"}
          /\ shorts[t][s].qty >= 0 /\ shorts[t][s].coll >= 0
    BY <1>1 DEF Books, PositionsSound, PositionSound, Positions
  <2>4. /\ cash \in [Owners -> Nat] /\ esc \in [Traders -> Nat]
        /\ margin \in [Traders -> [Symbols -> Nat]]
    BY <1>1 DEF Books, Backed, CashSound
  <2> QED
    BY <1>1, <2>1, <2>2, <2>3, <2>4 DEF TypeOK, CountersSound
<1>3. ASSUME NEW t \in Traders, NEW s \in Symbols
      PROVE  holding[t][s].reserved =
               SumOf([i \in {k \in OnSide(s, "sell") : orders[k].by = t /\ orders[k].kind # "short"}
                        |-> orders[i].rem])
  <2> DEFINE T == {k \in OnSide(s, "sell") : orders[k].by = t /\ orders[k].kind # "short"}
             some == [i \in T |-> orders[i].rem]
             k == "shares"
  <2>1. \A i \in DOMAIN orders : OrderSound(orders[i])
    BY <1>1 DEF BookSound
  <2>2. ASSUME NEW i \in T
        PROVE  some[i] = Claim(orders[i], k, t, s)
    BY <2>1 DEF Claim, OnSide, Live, OrderSound
  <2>3. ASSUME NEW i \in DOMAIN orders, i \notin T
        PROVE  Claim(orders[i], k, t, s) = 0
    BY <2>1, <2>3 DEF Claim, OnSide, Live, OrderSound
  <2>4. DOMAIN some \in SUBSET DOMAIN orders /\ DOMAIN some = T
    BY DEF OnSide, Live
  <2>5. k \in ClaimKinds
    BY DEF ClaimKinds
  <2> HIDE DEF some, k, T
  <2>6. SumOf(some) = Claims(orders, k, t, s)
    BY <1>1, <2>2, <2>3, <2>4, <2>5, ClaimsOfSome
  <2>7. holding[t][s].reserved = Claims(orders, "shares", t, s)
    BY <1>1 DEF Books, HoldingsSound
  <2> QED
    BY <2>6, <2>7 DEF k, some, T
<1>4. SharesAccounted
  BY <1>1, <1>3 DEF SharesAccounted, Books, SharesHeld
<1> QED
  BY <1>1, <1>2, <1>4 DEF AccountsExact, Books

\* Whatever is filled, cancelled, covered, marked or allotted, a trader's escrow is what its
\* live orders and indications reserve and a margin account what its short orders and
\* positions hold as collateral (INV-ORDERS; engine.py:443-520, 726-858, 1234-1440), for all
\* traders, symbols, inputs and settings.
THEOREM EscrowStaysBacked == Spec => []EscrowBacked
<1>1. AInv => EscrowBacked
  BY BooksBacked DEF AInv
<1> QED
  BY <1>1, InitHolds, StepHolds, AccountsInit, AccountsStep, PTL DEF Spec

\* No balance is ever negative, the shares of a symbol are those outstanding, what a holder
\* has reserved is what its sell orders still offer, and a buy order holds exactly what its
\* remainder may cost (P3, P12, INV-SHARES; engine.py:726-924, 1787-1801), for all traders,
\* symbols, inputs and settings.
THEOREM AccountsStayExact == Spec => []AccountsExact
<1>1. AInv => AccountsExact
  BY BooksAreExact
<1> QED
  BY <1>1, InitHolds, StepHolds, AccountsInit, AccountsStep, PTL DEF Spec

=============================================================================
