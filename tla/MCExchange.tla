----------------------------- MODULE MCExchange -----------------------------
(* Three traders, one listed symbol and one that may be offered.             *)
EXTENDS Exchange
ThreeTraders == 1..3
OneSymbol == {1}
TwoSymbols == {1, 2}
Buying == {<<2, 1, 11, 2>>, <<2, 1, 9, 1>>, <<3, 1, 0, 1>>, <<3, 1, 10, 1>>, <<1, 1, 11, 1>>}
Selling == {<<1, 1, 9, 1>>, <<1, 1, 10, 2>>, <<3, 1, 0, 1>>, <<2, 1, 10, 1>>}
Shorting == {<<2, 1, 9, 2>>, <<3, 1, 10, 1>>}
Indicating == {<<2, 2, 11, 2>>, <<3, 2, 9, 3>>}
Offering == {<<2, 4>>}
Deposits0 == [o \in Owners |-> IF o \in Traders THEN 40 ELSE IF o = Issuer THEN 14 ELSE 0]
SmallExchange ==
  [tick_size_cents |-> 1, band_bp |-> 2000, commission_bp |-> 500, commission_floor_cents |-> 1,
   max_order_qty_bp |-> 10000, max_short_bp |-> 5000, initial_margin_bp |-> 15000,
   maintenance_margin_bp |-> 15000, borrow_fee_bp |-> 2000, days_per_sim_year |-> 2,
   bootstrap_shares |-> 4, bootstrap_price_cents |-> 10,
   ipo_low |-> 9, ipo_high |-> 11, ipo_book_days |-> 1, underwriter_discount_bp |-> 500,
   underwriting_fee_bp |-> 500, listing_fee_cents |-> 10]
=============================================================================
