------------------------------- MODULE Ledger -------------------------------
(***************************************************************************)
(* The double-entry ledger (economy/ledger.py) and the integer arithmetic  *)
(* of money (economy/money.py), as operators on the balances of the open   *)
(* accounts.                                                               *)
(*                                                                         *)
(* An account is <<code, owner, ref>>: ref is the bank of a deposit, the   *)
(* number of a loan for its two accounts, 0 otherwise.  Owners are numbers *)
(* that stand for their place in the order of ids.  A leg is               *)
(* <<account, cents>>, negative for direction -1.  Nothing in the modelled *)
(* paths closes an account, so the open accounts are the domain of the     *)
(* balances.                                                               *)
(***************************************************************************)
EXTENDS Integers, Sequences, FiniteSets, FiniteSetsExt, TLC

bk_cb == 0          \* the central bank
gv_treasury == -1   \* the treasury

Dep(owner, bank) == <<"dep", owner, bank>>
Cash(owner) == <<"cash", owner, 0>>
Res(bank) == <<"res", bank, 0>>
Dpl(bank) == <<"dpl", bank, 0>>
Lnr(lender, loan) == <<"lnr", lender, loan>>
Lnp(borrower, loan) == <<"lnp", borrower, loan>>
Iss == <<"iss", bk_cb, 0>>
TreasuryAccount == Dep(gv_treasury, bk_cb)

Liabilities == {"dpl", "lnp", "iss"}

\* The sum of the values of a function.
SumOf(f) == MapThenSumSet(LAMBDA x : f[x], DOMAIN f)

-----------------------------------------------------------------------------
(* Posting *)

\* open_account of each of them that is not open yet.
Opened(b, accounts) == [a \in accounts \ DOMAIN b |-> 0] @@ b

\* The sum of the legs of each account: `deltas`.
Net(legs) ==
  [a \in {legs[i][1] : i \in DOMAIN legs} |->
     MapThenSumSet(LAMBDA i : legs[i][2], {i \in DOMAIN legs : legs[i][1] = a})]

\* P6: the sign an account may have.
SignAllowed(a, cents) == IF a[1] \in Liabilities THEN cents <= 0 ELSE cents >= 0

\* Accounts a transaction would leave with the wrong sign.
Overdrawn(b, legs) ==
  LET net == Net(legs)
  IN  {a \in DOMAIN net : ~SignAllowed(a, b[a] + net[a])}

\* P3 and P6 of _post_transaction, with nothing in allow_negative: of the modelled
\* transactions only that of the deposit insurance has the treasury there.
Postable(b, legs) ==
  /\ MapThenSumSet(LAMBDA i : legs[i][2], DOMAIN legs) = 0
  /\ Overdrawn(b, legs) = {}

Posted(b, legs) ==
  LET net == Net(legs)
  IN  [a \in DOMAIN b |-> IF a \in DOMAIN net THEN b[a] + net[a] ELSE b[a]]

\* transfer between two deposits.
Transfer(src, dst, cents) ==
  IF src[3] = dst[3]
  THEN << <<src, -cents>>, <<dst, cents>> >>
  ELSE << <<src, -cents>>, <<Dpl(src[3]), cents>>, <<Res(src[3]), -cents>>,
          <<Res(dst[3]), cents>>, <<Dpl(dst[3]), -cents>>, <<dst, cents>> >>

-----------------------------------------------------------------------------
(* Sums of balances *)

Total(b, accounts) == MapThenSumSet(LAMBDA a : b[a], accounts)

NetWorth(b, owner) == Total(b, {a \in DOMAIN b : a[2] = owner})

Liquid(b, owner) == Total(b, {a \in DOMAIN b : a[2] = owner /\ a[1] \in {"cash", "dep"}})

\* The deposits of an owner, and the one that sorts first.
Deposits(b, owner) == {a \in DOMAIN b : a[1] = "dep" /\ a[2] = owner}

FirstDeposit(b, owner) ==
  CHOOSE a \in Deposits(b, owner) : \A d \in Deposits(b, owner) : a[3] <= d[3]

\* M-2, M-4 and, for a commercial bank, M-5 of check_money.
GlobalBalance(b) == Total(b, DOMAIN b)

BaseMoneyImbalance(b) ==
  Total(b, {a \in DOMAIN b : \/ a[1] = "cash"
                             \/ a[1] = "res" /\ a[2] # bk_cb
                             \/ a \in {TreasuryAccount, Iss}})

DepositImbalance(b, bank) ==
  Total(b, {a \in DOMAIN b : a[1] = "dep" /\ a[3] = bank}) + b[Dpl(bank)]

-----------------------------------------------------------------------------
(* Money *)

bp(cents, rate) == (cents * rate) \div 10000
bp_ceil(cents, rate) == -((-cents * rate) \div 10000)

\* Mutant: everyone bears the same part, the first ids what is left over.
AllocateEvenly(pool, weights) ==
  [a \in DOMAIN weights |->
     (pool + Cardinality({d \in DOMAIN weights : d[2] > a[2]})) \div Cardinality(DOMAIN weights)]

\* allocate: the pool is split in proportion to the weights, and what rounding
\* leaves over goes to the largest remainders, then weights, then smallest ids.
Allocate(pool, weights) ==
  LET ids == DOMAIN weights
      total == SumOf(weights)
      base == [a \in ids |-> (pool * weights[a]) \div total]
      rest == [a \in ids |-> (pool * weights[a]) % total]
      left == pool - SumOf(base)
      Before(a, d) ==
        \/ rest[a] > rest[d]
        \/ rest[a] = rest[d] /\ weights[a] > weights[d]
        \/ rest[a] = rest[d] /\ weights[a] = weights[d] /\ a[2] < d[2]
  IN  [a \in ids |->
         IF Cardinality({d \in ids : Before(d, a)}) < left THEN base[a] + 1 ELSE base[a]]

=============================================================================
