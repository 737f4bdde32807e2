----------------------------- MODULE LawProofs ------------------------------
(***************************************************************************)
(* The docket and the books of the courts, for every set of agents,        *)
(* inputs, answers of the judge and settings.                              *)
(*                                                                         *)
(* Docket: cases are closed once (CaseStep).  They are heard in the order  *)
(* of their filing because none is filed or closed in the future           *)
(* (CasesHold), and a crime is charged once because its file is closed     *)
(* with the charge (ChargesHold), even where the id of the new case is     *)
(* taken.                                                                  *)
(*                                                                         *)
(* Books: an award is split between what is paid and a new receivable      *)
(* (AwardedAdds), a garnishment lowers what is owed by what it pays        *)
(* (GarnishedKeeps), and a judged case never changes what it costs         *)
(* (PenalStays), so the penalties of a defendant stay what it has paid     *)
(* and owes (PenaltiesStep).  The projection opens the row of a settled    *)
(* case again only where the id of a new suit was taken, which happens     *)
(* only after a settlement on that tick, because ids count the open cases  *)
(* (IdsHold).  Released agents are out of prison because they have homes   *)
(* (Homed): a second conviction replaces the sentence, and with it the     *)
(* place the agent was taken from, by the prison.                          *)
(***************************************************************************)
EXTENDS Law, FiniteSetTheorems, TLAPS

-----------------------------------------------------------------------------
(* Sums over finite sets *)

\* g gives every subset of S the sum of f over it.
Sums(g, f, S) ==
  g = [T \in SUBSET S |-> IF T = {} THEN 0
                          ELSE f[CHOOSE x \in T : TRUE] + g[T \ {CHOOSE x \in T : TRUE}]]

\* The sum over a set, by the element the choice picks.
LEMMA SumUnfolds ==
  ASSUME NEW f
  PROVE  SumOf(f) = (CHOOSE g : Sums(g, f, DOMAIN f))[DOMAIN f]
BY DEF SumOf, MapThenSumSet, MapThenFoldSet, Sums

\* Sets of finite sets have a smallest member: induction by minimal counterexample.
LEMMA Smallest ==
  ASSUME NEW S, IsFiniteSet(S), NEW Bad, Bad \subseteq SUBSET S, Bad # {}
  PROVE  \E T \in Bad : \A U \in SUBSET T : U # T => U \notin Bad
<1> DEFINE Sizes == {Cardinality(T) : T \in Bad}
           R == OpToRel(<, Nat)
<1>1. \A T \in SUBSET S : IsFiniteSet(T) /\ Cardinality(T) \in Nat
  BY FS_Subset, FS_CardinalityType
<1>2. Sizes \subseteq Nat /\ Sizes # {}
  BY <1>1
<1>3. \A m, n \in Nat : <<m, n>> \in R <=> m < n
  BY DEF OpToRel
<1> HIDE DEF R
<1>4. PICK n \in Sizes : \A m \in Sizes : ~(<<m, n>> \in R)
  <2> HIDE DEF Sizes
  <2> QED
    BY <1>2, NatLessThanWellFounded, WFMin DEF R
<1>5. PICK T \in Bad : n = Cardinality(T)
  OBVIOUS
<1>6. ASSUME NEW U \in SUBSET T, U # T, U \in Bad
      PROVE  FALSE
  <2>1. Cardinality(U) < Cardinality(T) /\ Cardinality(U) \in Nat /\ Cardinality(T) \in Nat
    <3>1. IsFiniteSet(T) /\ Cardinality(U) \in Nat /\ Cardinality(T) \in Nat
      BY <1>1, <1>6
    <3>2. Cardinality(U) <= Cardinality(T) /\ (Cardinality(T) = Cardinality(U) => T = U)
      BY <3>1, FS_Subset
    <3> QED
      BY <1>6, <3>1, <3>2
  <2>2. Cardinality(U) \in Sizes
    BY <1>6
  <2>3. ~(Cardinality(U) < Cardinality(T))
    BY <1>2, <1>3, <1>4, <1>5, <2>2
  <2> QED
    BY <2>1, <2>3
<1> QED
  BY <1>6

\* Sums of functions that agree on a set agree.
LEMMA SumsAgree ==
  ASSUME NEW f, NEW e, NEW A, NEW B, NEW g, NEW h, Sums(g, f, A), Sums(h, e, B),
         NEW S, IsFiniteSet(S), S \subseteq A, S \subseteq B, \A x \in S : f[x] = e[x]
  PROVE  g[S] = h[S]
<1> DEFINE Bad == {T \in SUBSET S : g[T] # h[T]}
<1> SUFFICES ASSUME Bad # {}
             PROVE  FALSE
  OBVIOUS
<1>1. PICK T \in Bad : \A U \in SUBSET T : U # T => U \notin Bad
  <2> HIDE DEF Bad
  <2>1. Bad \subseteq SUBSET S
    BY DEF Bad
  <2> QED
    BY <2>1, Smallest
<1> DEFINE c == CHOOSE x \in T : TRUE
<1>2. T \in SUBSET A /\ T \in SUBSET B
  OBVIOUS
<1>3. CASE T = {}
  <2>1. g[{}] = 0
    BY <1>2, <1>3 DEF Sums
  <2>2. h[{}] = 0
    BY <1>2, <1>3 DEF Sums
  <2> QED
    BY <1>3, <2>1, <2>2
<1>4. CASE T # {}
  <2>1. c \in T
    BY <1>4
  <2>2. g[T] = f[c] + g[T \ {c}]
    BY <1>2, <1>4 DEF Sums
  <2>3. h[T] = e[c] + h[T \ {c}]
    BY <1>2, <1>4 DEF Sums
  <2> HIDE DEF c
  <2>4. g[T \ {c}] = h[T \ {c}]
    <3>1. T \ {c} # T
      BY <2>1
    <3> QED
      BY <1>1, <3>1
  <2>5. f[c] = e[c]
    BY <2>1
  <2> QED
    BY <2>2, <2>3, <2>4, <2>5
<1> QED
  BY <1>3, <1>4

\* Every function has its sums over a finite set.
LEMMA SumsExist ==
  ASSUME NEW f, NEW S, IsFiniteSet(S)
  PROVE  \E g : Sums(g, f, S)
<1> DEFINE Bad == {T \in SUBSET S : ~\E g : Sums(g, f, T)}
<1> SUFFICES ASSUME Bad # {}
             PROVE  FALSE
  OBVIOUS
<1>1. PICK T \in Bad : \A U \in SUBSET T : U # T => U \notin Bad
  <2> HIDE DEF Bad
  <2>1. Bad \subseteq SUBSET S
    BY DEF Bad
  <2> QED
    BY <2>1, Smallest
<1> DEFINE G == [x \in T |-> CHOOSE g : Sums(g, f, T \ {x})]
           c == CHOOSE x \in T : TRUE
           Out(V) == CHOOSE x \in T : x \notin V
           h == [V \in SUBSET T |-> IF V = {} THEN 0
                                    ELSE IF V = T THEN f[c] + G[c][T \ {c}] ELSE G[Out(V)][V]]
<1>2. \A x \in T : Sums(G[x], f, T \ {x})
  <2> TAKE x \in T
  <2>1. \E g : Sums(g, f, T \ {x})
    <3>1. T \ {x} # T
      OBVIOUS
    <3> QED
      BY <1>1, <3>1
  <2>2. G[x] = CHOOSE g : Sums(g, f, T \ {x})
    OBVIOUS
  <2> HIDE DEF G
  <2> QED
    BY <2>1, <2>2
<1>3. \A V \in SUBSET T : V # T => Out(V) \in T \ V
  OBVIOUS
<1>4. IsFiniteSet(T) /\ \A V \in SUBSET T : IsFiniteSet(V)
  BY FS_Subset
<1> HIDE DEF G, Out
<1>5. ASSUME NEW V \in SUBSET T, V # {}, NEW d, d = CHOOSE x \in V : TRUE
      PROVE  h[V] = f[d] + h[V \ {d}]
  <2>1. d \in V
    BY <1>5
  <2>2. V \ {d} # T /\ V \ {d} \in SUBSET T
    BY <2>1
  <2> DEFINE U == V \ {d}
             y == Out(U)
  <2>3. y \in T \ U /\ Sums(G[y], f, T \ {y}) /\ U \subseteq T \ {y} /\ IsFiniteSet(U)
    <3>1. y \in T \ U
      BY <1>3, <2>2
    <3>2. IsFiniteSet(U)
      BY <1>4, <2>2
    <3> HIDE DEF y
    <3> QED
      BY <1>2, <2>2, <3>1, <3>2
  <2>4. h[U] = G[y][U]
    <3>1. CASE U = {}
      <4>1. G[y][{}] = 0
        BY <2>3 DEF Sums
      <4> QED
        BY <3>1, <4>1
    <3>2. CASE U # {}
      BY <2>2, <3>2
    <3> QED
      BY <3>1, <3>2
  <2>5. CASE V = T
    <3>1. d = c /\ d \in T
      BY <1>5, <2>1, <2>5
    <3>2. h[V] = f[d] + G[d][U]
      BY <1>5, <2>5, <3>1
    <3>3. Sums(G[d], f, T \ {d}) /\ U \subseteq T \ {d}
      BY <1>2, <2>5, <3>1
    <3> HIDE DEF h, U, y, c
    <3>4. G[d][U] = G[y][U]
      BY <2>3, <3>3, SumsAgree
    <3> QED
      BY <2>4, <3>2, <3>4 DEF U
  <2>6. CASE V # T
    <3> DEFINE x == Out(V)
    <3>1. x \in T \ V /\ Sums(G[x], f, T \ {x}) /\ V \in SUBSET (T \ {x})
      BY <1>2, <1>3, <2>6
    <3>2. h[V] = G[x][V]
      BY <1>5, <2>6
    <3>3. G[x][V] = f[d] + G[x][U]
      BY <1>5, <3>1 DEF Sums
    <3>4. U \subseteq T \ {x}
      BY <3>1
    <3> HIDE DEF h, U, x, y
    <3>5. G[x][U] = G[y][U]
      BY <2>3, <3>1, <3>4, SumsAgree
    <3> QED
      BY <2>4, <3>2, <3>3, <3>5 DEF U
  <2> QED
    BY <2>5, <2>6
<1>6. h[{}] = 0 /\ DOMAIN h = SUBSET T /\ h = [V \in SUBSET T |-> h[V]]
  OBVIOUS
<1> HIDE DEF h
<1>7. h = [V \in SUBSET T |-> IF V = {} THEN 0
             ELSE f[CHOOSE x \in V : TRUE] + h[V \ {CHOOSE x \in V : TRUE}]]
  BY <1>5, <1>6
<1>8. Sums(h, f, T)
  BY <1>7 DEF Sums
<1> QED
  BY <1>8

\* The sum over a set is that over the set without any one of its members, and the member.
LEMMA SumsSplit ==
  ASSUME NEW f, NEW S, IsFiniteSet(S), \A x \in S : f[x] \in Int, NEW g, Sums(g, f, S)
  PROVE  g[S] \in Int /\ \A x \in S : g[S] = f[x] + g[S \ {x}]
<1> DEFINE Right(T) == g[T] \in Int /\ \A x \in T : g[T] = f[x] + g[T \ {x}]
           Bad == {T \in SUBSET S : ~Right(T)}
<1> SUFFICES ASSUME Bad # {}
             PROVE  FALSE
  OBVIOUS
<1>1. PICK T \in Bad : \A U \in SUBSET T : U # T => U \notin Bad
  <2> HIDE DEF Bad
  <2>1. Bad \subseteq SUBSET S
    BY DEF Bad
  <2> QED
    BY <2>1, Smallest
<1> DEFINE c == CHOOSE x \in T : TRUE
<1>2. T # {}
  <2> SUFFICES ASSUME T = {}
               PROVE  FALSE
    OBVIOUS
  <2>1. g[{}] = 0
    BY DEF Sums
  <2> QED
    BY <2>1
<1>3. c \in T /\ f[c] \in Int
  BY <1>2
<1>4. g[T] = f[c] + g[T \ {c}]
  BY <1>2 DEF Sums
<1> HIDE DEF c
<1>5. \A U \in SUBSET T : U # T => Right(U)
  BY <1>1
<1>6. g[T] \in Int
  <2>1. g[T \ {c}] \in Int
    BY <1>3, <1>5
  <2> QED
    BY <1>3, <1>4, <2>1
<1>7. ASSUME NEW x \in T
      PROVE  g[T] = f[x] + g[T \ {x}]
  <2>1. CASE x = c
    BY <1>4, <2>1
  <2>2. CASE x # c
    <3> DEFINE U == T \ {c, x}
               A == T \ {c}
               B == T \ {x}
    <3>1. /\ A \in SUBSET T /\ A # T /\ x \in A /\ A \ {x} = U
          /\ B \in SUBSET T /\ B # T /\ c \in B /\ B \ {c} = U
          /\ U \in SUBSET T /\ U # T
      BY <1>3, <2>2
    <3> HIDE DEF A, B, U
    <3>2. g[A] = f[x] + g[U] /\ g[B] = f[c] + g[U]
      BY <1>5, <3>1
    <3>3. g[U] \in Int /\ f[x] \in Int
      BY <1>5, <3>1
    <3>4. g[T] = f[c] + g[A]
      BY <1>4 DEF A
    <3>5. g[T] = f[x] + g[B]
      BY <1>3, <3>2, <3>3, <3>4
    <3> QED
      BY <3>5 DEF B
  <2> QED
    BY <2>1, <2>2
<1> QED
  BY <1>6, <1>7

IsSummable(f) == IsFiniteSet(DOMAIN f) /\ \A x \in DOMAIN f : f[x] \in Int

\* SumOf is the sum over the whole domain.
LEMMA SumOfSums ==
  ASSUME NEW f, IsFiniteSet(DOMAIN f)
  PROVE  \E g : Sums(g, f, DOMAIN f) /\ SumOf(f) = g[DOMAIN f]
<1> DEFINE g == CHOOSE g : Sums(g, f, DOMAIN f)
<1>1. Sums(g, f, DOMAIN f)
  BY SumsExist
<1>2. SumOf(f) = g[DOMAIN f]
  BY SumUnfolds
<1> HIDE DEF g
<1> QED
  BY <1>1, <1>2

\* The sum of nothing.
LEMMA SumEmpty ==
  ASSUME NEW f, DOMAIN f = {}
  PROVE  SumOf(f) = 0
<1>1. PICK g : Sums(g, f, DOMAIN f) /\ SumOf(f) = g[DOMAIN f]
  BY SumOfSums, FS_EmptySet
<1> QED
  BY <1>1 DEF Sums

\* The sum of f and that of what f is elsewhere than at x.
LEMMA SumWithout ==
  ASSUME NEW f, IsSummable(f), NEW x \in DOMAIN f, NEW e, DOMAIN e = DOMAIN f \ {x},
         \A y \in DOMAIN e : e[y] = f[y]
  PROVE  SumOf(f) = f[x] + SumOf(e) /\ SumOf(f) \in Int /\ SumOf(e) \in Int
<1>1. IsFiniteSet(DOMAIN f) /\ IsFiniteSet(DOMAIN e) /\ \A y \in DOMAIN f : f[y] \in Int
  BY FS_Subset DEF IsSummable
<1>2. PICK g : Sums(g, f, DOMAIN f) /\ SumOf(f) = g[DOMAIN f]
  BY <1>1, SumOfSums
<1>3. PICK h : Sums(h, e, DOMAIN e) /\ SumOf(e) = h[DOMAIN e]
  BY <1>1, SumOfSums
<1>4. g[DOMAIN f] \in Int /\ \A y \in DOMAIN f : g[DOMAIN f] = f[y] + g[DOMAIN f \ {y}]
  BY <1>1, <1>2, SumsSplit
<1>5. g[DOMAIN e] = h[DOMAIN e]
  BY <1>1, <1>2, <1>3, SumsAgree
<1>6. h[DOMAIN e] \in Int
  BY <1>1, <1>3, SumsSplit
<1> QED
  BY <1>2, <1>3, <1>4, <1>5, <1>6

\* A sum of integers is an integer.
LEMMA SumIsInt ==
  ASSUME NEW f, IsSummable(f)
  PROVE  SumOf(f) \in Int
<1>1. PICK g : Sums(g, f, DOMAIN f) /\ SumOf(f) = g[DOMAIN f]
  BY SumOfSums DEF IsSummable
<1> QED
  BY <1>1, SumsSplit DEF IsSummable

\* One value changes.
LEMMA SumChanged ==
  ASSUME NEW f, IsSummable(f), NEW x \in DOMAIN f, NEW e, DOMAIN e = DOMAIN f, e[x] \in Int,
         \A y \in DOMAIN f \ {x} : e[y] = f[y]
  PROVE  SumOf(e) = SumOf(f) - f[x] + e[x]
<1> DEFINE r == [y \in DOMAIN f \ {x} |-> f[y]]
<1>1. IsSummable(e) /\ f[x] \in Int
  BY DEF IsSummable
<1>2. DOMAIN r = DOMAIN f \ {x} /\ \A y \in DOMAIN r : r[y] = f[y] /\ r[y] = e[y]
  OBVIOUS
<1> HIDE DEF r
<1>3. SumOf(f) = f[x] + SumOf(r) /\ SumOf(r) \in Int
  BY <1>2, SumWithout
<1>4. SumOf(e) = e[x] + SumOf(r) /\ SumOf(e) \in Int /\ SumOf(r) \in Int
  <2>1. x \in DOMAIN e /\ DOMAIN r = DOMAIN e \ {x} /\ \A y \in DOMAIN r : r[y] = e[y]
    BY <1>2
  <2> QED
    BY <1>1, <2>1, SumWithout
<1> QED
  BY <1>1, <1>3, <1>4

\* One value is added.
LEMMA SumAdded ==
  ASSUME NEW f, IsSummable(f), NEW x, x \notin DOMAIN f, NEW e, DOMAIN e = DOMAIN f \cup {x},
         e[x] \in Int, \A y \in DOMAIN f : e[y] = f[y]
  PROVE  SumOf(e) = SumOf(f) + e[x]
<1>1. IsSummable(e)
  BY FS_AddElement DEF IsSummable
<1>2. x \in DOMAIN e /\ DOMAIN f = DOMAIN e \ {x} /\ \A y \in DOMAIN f : f[y] = e[y]
  OBVIOUS
<1>3. SumOf(e) = e[x] + SumOf(f) /\ SumOf(e) \in Int /\ SumOf(f) \in Int
  BY <1>1, <1>2, SumWithout
<1> QED
  BY <1>3

\* Equal terms, equal sums.
LEMMA SameSum ==
  ASSUME NEW f, NEW e, IsFiniteSet(DOMAIN f), DOMAIN e = DOMAIN f, \A x \in DOMAIN f : e[x] = f[x]
  PROVE  SumOf(e) = SumOf(f)
<1>1. PICK g : Sums(g, f, DOMAIN f) /\ SumOf(f) = g[DOMAIN f]
  BY SumOfSums
<1>2. PICK h : Sums(h, e, DOMAIN e) /\ SumOf(e) = h[DOMAIN e]
  BY SumOfSums
<1> QED
  BY <1>1, <1>2, SumsAgree

-----------------------------------------------------------------------------
(* Accounts and receivables *)

\* A list of what is owed: every entry names a debtor, a creditor and an amount.
IsDue(due) == due \in Seq([debtor : Agents, creditor : Owners, outstanding : Nat])

Debts(due, d) == {r \in DOMAIN due : due[r].debtor = d}

\* What d owes by that list.
OwedBy(due, d) == SumOf([r \in Debts(due, d) |-> due[r].outstanding])

MoneyHold ==
  /\ money \in [Owners -> Nat]
  /\ paid \in [Owners -> Nat]
  /\ IsDue(receivables)

\* The state of a payment: what everybody has, what is owed, what the debtor has paid.
Payable(st) == st.money \in [Owners -> Nat] /\ IsDue(st.due) /\ st.paid \in Nat

\* A transfer the payer can make leaves no account below zero.
LEMMA TransferHolds ==
  ASSUME NEW m \in [Owners -> Nat], NEW payer \in Owners, NEW payee, NEW cents \in Nat,
         cents <= m[payer]
  PROVE  Transfer(m, payer, payee, cents) \in [Owners -> Nat]
<1> SUFFICES ASSUME NEW o \in Owners
             PROVE  m[o] - (IF o = payer THEN cents ELSE 0) + (IF o = payee THEN cents ELSE 0) \in Nat
  BY DEF Transfer
<1>1. m[o] \in Nat
  OBVIOUS
<1> QED
  BY <1>1

\* What can be paid is no more than what is there.
LEMMA BalanceHolds ==
  ASSUME NEW m \in [Owners -> Nat], NEW payer \in Owners, NEW payee
  PROVE  /\ compatible_balance(m, payer, payee) \in Nat
         /\ compatible_balance(m, payer, payee) <= m[payer]
<1>1. m[payer] \in Nat
  OBVIOUS
<1> QED
  BY <1>1 DEF compatible_balance

\* What anybody owes is a finite sum of amounts.
LEMMA DebtsSummable ==
  ASSUME NEW due, IsDue(due), NEW d
  PROVE  /\ IsSummable([r \in Debts(due, d) |-> due[r].outstanding])
         /\ DOMAIN due = 1..Len(due) /\ Len(due) \in Nat
         /\ \A r \in DOMAIN due : /\ due[r] \in [debtor : Agents, creditor : Owners, outstanding : Nat]
                                  /\ due[r].outstanding \in Nat
<1>1. /\ DOMAIN due = 1..Len(due) /\ Len(due) \in Nat
      /\ \A r \in DOMAIN due : due[r] \in [debtor : Agents, creditor : Owners, outstanding : Nat]
  <2> DEFINE E == [debtor : Agents, creditor : Owners, outstanding : Nat]
  <2>1. due \in Seq(E)
    BY DEF IsDue
  <2> HIDE DEF E
  <2>2. DOMAIN due = 1..Len(due) /\ Len(due) \in Nat /\ \A r \in DOMAIN due : due[r] \in E
    BY <2>1
  <2> QED
    BY <2>2 DEF E
<1>2. \A r \in DOMAIN due : due[r].outstanding \in Nat
  BY <1>1
<1>3. IsFiniteSet(Debts(due, d))
  <2>1. IsFiniteSet(DOMAIN due)
    <3>1. IsFiniteSet(1..Len(due))
      BY <1>1, FS_Interval
    <3> QED
      BY <1>1, <3>1
  <2>2. Debts(due, d) \subseteq DOMAIN due
    BY DEF Debts
  <2> QED
    BY <2>1, <2>2, FS_Subset
<1>4. Debts(due, d) \subseteq DOMAIN due
  BY DEF Debts
<1> QED
  BY <1>1, <1>2, <1>3, <1>4 DEF IsSummable

\* A new entry adds to what its debtor owes.
LEMMA DebtAdded ==
  ASSUME NEW due, IsDue(due), NEW debtor \in Agents, NEW creditor \in Owners, NEW cents \in Nat
  PROVE  LET more == Append(due, [debtor |-> debtor, creditor |-> creditor, outstanding |-> cents])
         IN  /\ IsDue(more)
             /\ OwedBy(more, debtor) = OwedBy(due, debtor) + cents
             /\ \A d : d # debtor => OwedBy(more, d) = OwedBy(due, d)
<1> DEFINE e == [debtor |-> debtor, creditor |-> creditor, outstanding |-> cents]
           more == Append(due, e)
           n == Len(due)
           x == n + 1
<1>1. IsDue(more)
  BY DEF IsDue
<1>2. n \in Nat /\ DOMAIN due = 1..n /\ DOMAIN more = 1..x
      /\ (\A r \in 1..n : more[r] = due[r]) /\ more[x] = e
  BY DEF IsDue
<1>3. x \notin 1..n /\ 1..x = 1..n \cup {x}
  BY <1>2
<1> HIDE DEF more, x
<1>4. e.debtor = debtor /\ e.outstanding = cents
  OBVIOUS
<1> HIDE DEF e
<1>5. Debts(more, debtor) = Debts(due, debtor) \cup {x} /\ x \notin Debts(due, debtor)
  BY <1>2, <1>3, <1>4 DEF Debts
<1>6. \A d : d # debtor => Debts(more, d) = Debts(due, d)
  BY <1>2, <1>3, <1>4 DEF Debts
<1>7. OwedBy(more, debtor) = OwedBy(due, debtor) + cents
  <2> DEFINE f == [r \in Debts(due, debtor) |-> due[r].outstanding]
             g == [r \in Debts(more, debtor) |-> more[r].outstanding]
  <2>1. IsSummable(f)
    BY DebtsSummable
  <2>2. DOMAIN f = Debts(due, debtor) /\ DOMAIN g = DOMAIN f \cup {x} /\ x \notin DOMAIN f
    BY <1>5
  <2>3. g[x] = cents
    BY <1>2, <1>4, <1>5
  <2>4. \A r \in DOMAIN f : g[r] = f[r]
    <3>1. \A r \in Debts(due, debtor) : r \in 1..n
      BY <1>2 DEF Debts
    <3> QED
      BY <1>2, <1>5, <3>1
  <2>5. SumOf(f) = OwedBy(due, debtor) /\ SumOf(g) = OwedBy(more, debtor)
    BY DEF OwedBy
  <2> HIDE DEF f, g
  <2>6. g[x] \in Int
    BY <2>3
  <2>7. SumOf(g) = SumOf(f) + g[x]
    BY <2>1, <2>2, <2>4, <2>6, SumAdded
  <2> QED
    BY <2>3, <2>5, <2>7
<1>8. ASSUME NEW d, d # debtor
      PROVE  OwedBy(more, d) = OwedBy(due, d)
  <2>1. [r \in Debts(more, d) |-> more[r].outstanding] = [r \in Debts(due, d) |-> due[r].outstanding]
    <3>1. \A r \in Debts(due, d) : more[r] = due[r]
      BY <1>2 DEF Debts
    <3> QED
      BY <1>6, <1>8, <3>1
  <2> QED
    BY <2>1 DEF OwedBy
<1> QED
  BY <1>1, <1>7, <1>8 DEF more, e

\* Less of one entry, less of what its debtor owes.
LEMMA DebtLowered ==
  ASSUME NEW due, IsDue(due), NEW r \in DOMAIN due, NEW cents \in Nat, cents <= due[r].outstanding
  PROVE  LET less == [due EXCEPT ![r].outstanding = @ - cents]
         IN  /\ IsDue(less)
             /\ DOMAIN less = DOMAIN due
             /\ \A s \in DOMAIN due : less[s].debtor = due[s].debtor
             /\ OwedBy(less, due[r].debtor) = OwedBy(due, due[r].debtor) - cents
             /\ \A d : d # due[r].debtor => OwedBy(less, d) = OwedBy(due, d)
<1> DEFINE less == [due EXCEPT ![r].outstanding = @ - cents]
           debtor == due[r].debtor
           E == [debtor : Agents, creditor : Owners, outstanding : Nat]
<1>1. /\ DOMAIN due = 1..Len(due) /\ Len(due) \in Nat
      /\ \A s \in DOMAIN due : due[s] \in E /\ due[s].outstanding \in Nat
  BY DebtsSummable
<1>2. /\ DOMAIN less = DOMAIN due
      /\ \A s \in DOMAIN due : s # r => less[s] = due[s]
      /\ less[r] = [due[r] EXCEPT !.outstanding = @ - cents]
  OBVIOUS
<1>3. /\ less[r].debtor = due[r].debtor /\ less[r].outstanding = due[r].outstanding - cents
      /\ less[r] \in E
  <2>1. due[r].outstanding - cents \in Nat
    BY <1>1
  <2>2. due[r] \in E
    BY <1>1
  <2> HIDE DEF less
  <2> QED
    BY <1>2, <2>1, <2>2
<1> HIDE DEF less
<1>4. \A s \in DOMAIN due : less[s] \in E /\ less[s].debtor = due[s].debtor
  BY <1>1, <1>2, <1>3
<1>5. IsDue(less)
  <2>1. less = [s \in 1..Len(due) |-> less[s]]
    <3>1. less \in [DOMAIN due -> E]
      <4>1. less = [s \in DOMAIN less |-> less[s]]
        BY DEF less
      <4> QED
        BY <1>2, <1>4, <4>1
    <3> QED
      BY <1>1, <3>1
  <2>2. less \in [1..Len(due) -> E]
    BY <1>1, <1>4, <2>1
  <2> HIDE DEF E
  <2>3. less \in Seq(E)
    BY <1>1, <2>2
  <2> QED
    BY <2>3 DEF IsDue, E
<1>6. \A d : Debts(less, d) = Debts(due, d)
  BY <1>2, <1>4 DEF Debts
<1>7. OwedBy(less, debtor) = OwedBy(due, debtor) - cents
  <2> DEFINE f == [s \in Debts(due, debtor) |-> due[s].outstanding]
             g == [s \in Debts(less, debtor) |-> less[s].outstanding]
  <2>1. IsSummable(f) /\ DOMAIN f = DOMAIN g /\ r \in DOMAIN f
    <3>1. r \in Debts(due, debtor)
      BY DEF Debts
    <3> QED
      BY <1>6, <3>1, DebtsSummable
  <2>2. f[r] = due[r].outstanding /\ g[r] = due[r].outstanding - cents
    BY <1>3, <2>1
  <2>3. \A s \in DOMAIN f \ {r} : g[s] = f[s]
    <3>1. \A s \in Debts(due, debtor) : s \in DOMAIN due
      BY DEF Debts
    <3> QED
      BY <1>2, <1>6, <3>1
  <2>4. SumOf(f) = OwedBy(due, debtor) /\ SumOf(g) = OwedBy(less, debtor)
    BY DEF OwedBy
  <2>5. g[r] \in Int /\ f[r] \in Int
    BY <1>1, <2>2
  <2> HIDE DEF f, g, debtor
  <2>6. SumOf(g) = SumOf(f) - f[r] + g[r]
    BY <2>1, <2>3, <2>5, SumChanged
  <2>7. SumOf(f) \in Int
    BY <2>1, SumIsInt
  <2>8. due[r].outstanding \in Nat
    BY <1>1
  <2> QED
    BY <2>2, <2>4, <2>6, <2>7, <2>8
<1>8. ASSUME NEW d, d # debtor
      PROVE  OwedBy(less, d) = OwedBy(due, d)
  <2>1. [s \in Debts(less, d) |-> less[s].outstanding] = [s \in Debts(due, d) |-> due[s].outstanding]
    <3>1. \A s \in Debts(due, d) : less[s] = due[s]
      BY <1>2, <1>8 DEF Debts
    <3> QED
      BY <1>6, <3>1
  <2> QED
    BY <2>1 DEF OwedBy
<1> QED
  BY <1>2, <1>4, <1>5, <1>7, <1>8 DEF less

-----------------------------------------------------------------------------
(* Awards and garnishment *)

\* An award goes to somebody, unless it is nothing.
IsAward(award) == award[2] \in Nat /\ (award[2] # 0 => award[1] \in Owners)

\* An award is paid or owed, by the debtor alone.
LEMMA AwardedAdds ==
  ASSUME NEW st, Payable(st), NEW debtor \in Agents, NEW award, IsAward(award)
  PROVE  LET end == Awarded(st, debtor, award)
         IN  /\ Payable(end)
             /\ end.paid + OwedBy(end.due, debtor)
                  = st.paid + OwedBy(st.due, debtor) + award[2]
             /\ \A d : d # debtor => OwedBy(end.due, d) = OwedBy(st.due, d)
<1> DEFINE end == Awarded(st, debtor, award)
           now == Least(award[2], compatible_balance(st.money, debtor, award[1]))
           rest == award[2] - now
           entry == [debtor |-> debtor, creditor |-> award[1], outstanding |-> rest]
<1>1. debtor \in Owners /\ st.money \in [Owners -> Nat] /\ st.paid \in Nat /\ IsDue(st.due)
  BY DEF Owners, Payable
<1>2. now \in Nat /\ rest \in Nat /\ now <= st.money[debtor] /\ award[2] = now + rest
  <2>1. /\ compatible_balance(st.money, debtor, award[1]) \in Nat
        /\ compatible_balance(st.money, debtor, award[1]) <= st.money[debtor]
        /\ st.money[debtor] \in Nat
    BY <1>1, BalanceHolds
  <2>2. award[2] \in Nat
    BY DEF IsAward
  <2> QED
    BY <2>1, <2>2 DEF Least
<1>3. /\ end.money = Transfer(st.money, debtor, award[1], now) /\ end.paid = st.paid + now
      /\ end.due = IF rest = 0 THEN st.due ELSE Append(st.due, entry)
  BY DEF Awarded
<1> HIDE DEF end, now, rest
<1>4. end.money \in [Owners -> Nat] /\ end.paid \in Nat
  BY <1>1, <1>2, <1>3, TransferHolds
<1>5. OwedBy(st.due, debtor) \in Int
  <2>1. IsSummable([r \in Debts(st.due, debtor) |-> st.due[r].outstanding])
    BY <1>1, DebtsSummable
  <2> QED
    BY <2>1, SumIsInt DEF OwedBy
<1>6. CASE rest = 0
  BY <1>1, <1>2, <1>3, <1>4, <1>5, <1>6 DEF Payable, end
<1>7. CASE rest # 0
  <2>1. award[1] \in Owners
    <3>1. award[2] # 0
      BY <1>2, <1>7
    <3> QED
      BY <3>1 DEF IsAward
  <2> DEFINE more == Append(st.due, entry)
  <2>2. /\ IsDue(more) /\ OwedBy(more, debtor) = OwedBy(st.due, debtor) + rest
        /\ \A d : d # debtor => OwedBy(more, d) = OwedBy(st.due, d)
    BY <1>1, <1>2, <2>1, DebtAdded
  <2>3. end.due = more
    BY <1>3, <1>7
  <2> HIDE DEF more
  <2> QED
    BY <1>1, <1>2, <1>3, <1>4, <1>5, <2>2, <2>3 DEF Payable, end
<1> QED
  BY <1>6, <1>7

\* The awards of a judgment are paid or owed, all of them.
LEMMA PenalisedAdds ==
  ASSUME NEW st, Payable(st), NEW debtor \in Agents, NEW awards,
         \A i \in 1..4 : IsAward(awards[i])
  PROVE  LET end == Penalised(st, debtor, awards)
         IN  /\ Payable(end)
             /\ end.paid + OwedBy(end.due, debtor)
                  = st.paid + OwedBy(st.due, debtor)
                      + (awards[1][2] + awards[2][2] + awards[3][2] + awards[4][2])
             /\ \A d : d # debtor => OwedBy(end.due, d) = OwedBy(st.due, d)
<1> DEFINE a == Awarded(st, debtor, awards[1])
           b == Awarded(a, debtor, awards[2])
           c == Awarded(b, debtor, awards[3])
           e == Awarded(c, debtor, awards[4])
           Owed(s) == OwedBy(s.due, debtor)
<1>1. IsAward(awards[1]) /\ IsAward(awards[2]) /\ IsAward(awards[3]) /\ IsAward(awards[4])
  OBVIOUS
<1>2. /\ Payable(a) /\ a.paid + Owed(a) = st.paid + Owed(st) + awards[1][2]
      /\ \A d : d # debtor => OwedBy(a.due, d) = OwedBy(st.due, d)
  BY <1>1, AwardedAdds
<1> HIDE DEF a
<1>3. /\ Payable(b) /\ b.paid + Owed(b) = a.paid + Owed(a) + awards[2][2]
      /\ \A d : d # debtor => OwedBy(b.due, d) = OwedBy(a.due, d)
  BY <1>1, <1>2, AwardedAdds
<1> HIDE DEF b
<1>4. /\ Payable(c) /\ c.paid + Owed(c) = b.paid + Owed(b) + awards[3][2]
      /\ \A d : d # debtor => OwedBy(c.due, d) = OwedBy(b.due, d)
  BY <1>1, <1>3, AwardedAdds
<1> HIDE DEF c
<1>5. /\ Payable(e) /\ e.paid + Owed(e) = c.paid + Owed(c) + awards[4][2]
      /\ \A d : d # debtor => OwedBy(e.due, d) = OwedBy(c.due, d)
  BY <1>1, <1>4, AwardedAdds
<1>6. e = Penalised(st, debtor, awards)
  BY DEF Penalised, a, b, c
<1> HIDE DEF e
<1>7. \A s : Payable(s) => s.paid \in Nat /\ Owed(s) \in Int
  <2> SUFFICES ASSUME NEW s, Payable(s)
               PROVE  s.paid \in Nat /\ Owed(s) \in Int
    OBVIOUS
  <2>1. IsDue(s.due) /\ s.paid \in Nat
    BY DEF Payable
  <2>2. IsSummable([r \in Debts(s.due, debtor) |-> s.due[r].outstanding])
    BY <2>1, DebtsSummable
  <2>3. OwedBy(s.due, debtor) \in Int
    BY <2>2, SumIsInt DEF OwedBy
  <2> QED
    BY <2>1, <2>3
<1> HIDE DEF Owed
<1>8. /\ awards[1][2] \in Nat /\ awards[2][2] \in Nat /\ awards[3][2] \in Nat
      /\ awards[4][2] \in Nat
  BY <1>1 DEF IsAward
<1>9. e.paid + Owed(e) = st.paid + Owed(st)
                           + (awards[1][2] + awards[2][2] + awards[3][2] + awards[4][2])
  <2>1. /\ st.paid \in Nat /\ Owed(st) \in Int /\ a.paid \in Nat /\ Owed(a) \in Int
        /\ b.paid \in Nat /\ Owed(b) \in Int /\ c.paid \in Nat /\ Owed(c) \in Int
        /\ e.paid \in Nat /\ Owed(e) \in Int
    BY <1>2, <1>3, <1>4, <1>5, <1>7
  <2> QED
    BY <1>2, <1>3, <1>4, <1>5, <1>8, <2>1
<1> QED
  BY <1>2, <1>3, <1>4, <1>5, <1>6, <1>9 DEF Owed

\* A garnishment under way: entries of the debtor, a cap, and nothing gained or lost on the way.
Garnishing(st, start, debtor) ==
  /\ Payable(st) /\ st.cap \in Nat
  /\ DOMAIN st = {"money", "due", "cap", "paid"}
  /\ DOMAIN st.due = DOMAIN start.due
  /\ \A r \in DOMAIN st.due : st.due[r].debtor = start.due[r].debtor
  /\ st.paid + OwedBy(st.due, debtor) = start.paid + OwedBy(start.due, debtor)
  /\ \A d : d # debtor => OwedBy(st.due, d) = OwedBy(start.due, d)

\* One garnishment pays off as much as it collects.
LEMMA CollectedKeeps ==
  ASSUME NEW start, NEW debtor \in Agents, NEW st, Garnishing(st, start, debtor),
         NEW r \in DOMAIN start.due, start.due[r].debtor = debtor
  PROVE  Garnishing(Collected(st, r), start, debtor)
<1> DEFINE amount == Least(Least(st.due[r].outstanding, st.cap),
                           compatible_balance(st.money, st.due[r].debtor, st.due[r].creditor))
           end == Collected(st, r)
           less == [st.due EXCEPT ![r].outstanding = @ - amount]
<1>1. /\ st.money \in [Owners -> Nat] /\ IsDue(st.due) /\ st.paid \in Nat /\ st.cap \in Nat
      /\ r \in DOMAIN st.due /\ st.due[r].debtor = debtor
      /\ DOMAIN st = {"money", "due", "cap", "paid"}
  BY DEF Garnishing, Payable
<1>2. st.due[r].outstanding \in Nat
  BY <1>1, DebtsSummable
<1>3. /\ amount \in Nat /\ amount <= st.due[r].outstanding /\ amount <= st.cap
      /\ amount <= st.money[debtor]
  <2>1. debtor \in Owners
    BY DEF Owners
  <2>2. /\ compatible_balance(st.money, debtor, st.due[r].creditor) \in Nat
        /\ compatible_balance(st.money, debtor, st.due[r].creditor) <= st.money[debtor]
        /\ st.money[debtor] \in Nat
    BY <1>1, <2>1, BalanceHolds
  <2> QED
    BY <1>1, <1>2, <2>2 DEF Least
<1>4. end = [st EXCEPT !.due = less, !.cap = @ - amount,
                       !.money = Transfer(@, st.due[r].debtor, st.due[r].creditor, amount),
                       !.paid = @ + amount]
  BY DEF Collected
<1> HIDE DEF amount
<1>5. /\ IsDue(less) /\ DOMAIN less = DOMAIN st.due
      /\ \A s \in DOMAIN st.due : less[s].debtor = st.due[s].debtor
      /\ OwedBy(less, debtor) = OwedBy(st.due, debtor) - amount
      /\ \A d : d # debtor => OwedBy(less, d) = OwedBy(st.due, d)
  BY <1>1, <1>3, DebtLowered
<1> HIDE DEF less, end
<1>6. /\ end.due = less /\ end.cap = st.cap - amount /\ end.paid = st.paid + amount
      /\ end.money = Transfer(st.money, debtor, st.due[r].creditor, amount)
      /\ DOMAIN end = {"money", "due", "cap", "paid"}
  BY <1>1, <1>4
<1>7. end.money \in [Owners -> Nat]
  <2>1. debtor \in Owners
    BY DEF Owners
  <2> QED
    BY <1>1, <1>3, <1>6, <2>1, TransferHolds
<1>8. end.cap \in Nat /\ end.paid \in Nat
  BY <1>1, <1>3, <1>6
<1>9. end.paid + OwedBy(end.due, debtor) = start.paid + OwedBy(start.due, debtor)
  <2>1. OwedBy(st.due, debtor) \in Int
    <3>1. IsSummable([s \in Debts(st.due, debtor) |-> st.due[s].outstanding])
      BY <1>1, DebtsSummable
    <3> QED
      BY <3>1, SumIsInt DEF OwedBy
  <2>2. st.paid + OwedBy(st.due, debtor) = start.paid + OwedBy(start.due, debtor)
    BY DEF Garnishing
  <2> QED
    BY <1>1, <1>3, <1>5, <1>6, <2>1, <2>2
<1> QED
  BY <1>5, <1>6, <1>7, <1>8, <1>9 DEF Garnishing, Payable, end

\* What is so at first and after every step is so up to n: induction by minimal counterexample.
LEMMA StepByStep ==
  ASSUME NEW n \in Nat, NEW Good \in SUBSET (0..n), 0 \in Good,
         \A i \in 1..n : i - 1 \in Good => i \in Good
  PROVE  Good = 0..n
<1> DEFINE Bad == (0..n) \ Good
           R == OpToRel(<, Nat)
<1> SUFFICES ASSUME Bad # {}
             PROVE  FALSE
  OBVIOUS
<1>1. \A i, j \in Nat : <<i, j>> \in R <=> i < j
  BY DEF OpToRel
<1> HIDE DEF R
<1>2. Bad \subseteq Nat
  OBVIOUS
<1>3. PICK i \in Bad : \A j \in Bad : ~(<<j, i>> \in R)
  <2> HIDE DEF Bad
  <2> QED
    BY <1>2, NatLessThanWellFounded, WFMin DEF R
<1>4. i \in 1..n /\ i - 1 \in 0..n
  OBVIOUS
<1>5. i - 1 \notin Bad
  <2>1. i - 1 \in Nat /\ i \in Nat /\ i - 1 < i
    BY <1>4
  <2> QED
    BY <1>1, <1>3, <2>1
<1> QED
  BY <1>4, <1>5

\* The loop is over a function that is defined.
LoopOf(f, start, order, n) ==
  f = [i \in 0..n |-> IF i = 0 THEN start ELSE Collected(f[i - 1], order[i])]

\* The loop of the garnishment, step by step.
LEMMA LoopExists ==
  ASSUME NEW start, NEW order, NEW n \in Nat
  PROVE  \E f : LoopOf(f, start, order, n)
<1> DEFINE Good == {m \in 0..n : \E f : LoopOf(f, start, order, m)}
<1>1. 0 \in Good
  <2>1. LoopOf([i \in 0..0 |-> start], start, order, 0)
    <3>1. \A i \in 0..0 : i = 0
      OBVIOUS
    <3> QED
      BY <3>1 DEF LoopOf
  <2> QED
    BY <2>1
<1>2. ASSUME NEW m \in 1..n, m - 1 \in Good
      PROVE  m \in Good
  <2>1. PICK f : LoopOf(f, start, order, m - 1)
    BY <1>2
  <2> DEFINE g == [i \in 0..m |-> IF i = m THEN Collected(f[m - 1], order[m]) ELSE f[i]]
  <2>2. \A i \in 0..m : g[i] = IF i = 0 THEN start ELSE Collected(g[i - 1], order[i])
    <3> SUFFICES ASSUME NEW i \in 0..m
                 PROVE  g[i] = IF i = 0 THEN start ELSE Collected(g[i - 1], order[i])
      OBVIOUS
    <3>1. f = [j \in 0..(m-1) |-> IF j = 0 THEN start ELSE Collected(f[j - 1], order[j])]
      BY <2>1 DEF LoopOf
    <3>2. CASE i = m
      <4>1. i # 0 /\ m - 1 \in 0..m /\ m - 1 # m
        BY <3>2
      <4>2. g[i] = Collected(f[m - 1], order[m]) /\ g[m - 1] = f[m - 1]
        BY <3>2, <4>1
      <4> QED
        BY <3>2, <4>1, <4>2
    <3>3. CASE i # m
      <4>1. i \in 0..(m-1)
        BY <3>3
      <4>2. g[i] = f[i]
        BY <3>3
      <4>3. f[i] = IF i = 0 THEN start ELSE Collected(f[i - 1], order[i])
        BY <3>1, <4>1
      <4>4. CASE i = 0
        BY <4>2, <4>3, <4>4
      <4>5. CASE i # 0
        <5>1. i - 1 \in 0..m /\ i - 1 # m
          BY <4>1, <4>5
        <5>2. g[i - 1] = f[i - 1]
          BY <5>1
        <5> QED
          BY <4>2, <4>3, <4>5, <5>2
      <4> QED
        BY <4>4, <4>5
    <3> QED
      BY <3>2, <3>3
  <2>3. g = [i \in 0..m |-> g[i]]
    OBVIOUS
  <2> HIDE DEF g
  <2>4. LoopOf(g, start, order, m)
    BY <2>2, <2>3 DEF LoopOf
  <2> QED
    BY <2>4
<1>3. Good \in SUBSET (0..n)
  OBVIOUS
<1> HIDE DEF Good
<1>4. Good = 0..n
  BY <1>1, <1>2, <1>3, StepByStep
<1>5. n \in Good
  BY <1>4
<1> QED
  BY <1>5 DEF Good

\* Garnishment turns what is owed into what is paid, to the cent.
LEMMA GarnishedKeeps ==
  ASSUME NEW start, NEW debtor \in Agents, Garnishing(start, start, debtor),
         NEW n \in Nat, NEW order \in [1..n -> {r \in DOMAIN start.due : start.due[r].debtor = debtor}]
  PROVE  Garnishing(Garnished(start, order), start, debtor)
<1>1. Len(order) = n
  OBVIOUS
<1> DEFINE f == CHOOSE f : LoopOf(f, start, order, n)
           Good == {i \in 0..n : Garnishing(f[i], start, debtor)}
<1>2. Garnished(start, order) = f[n]
  BY <1>1 DEF Garnished, LoopOf
<1>3. LoopOf(f, start, order, n)
  BY LoopExists
<1> HIDE DEF f
<1>4. 0 \in Good
  <2>1. f[0] = start
    BY <1>3 DEF LoopOf
  <2> QED
    BY <2>1
<1>5. ASSUME NEW i \in 1..n, i - 1 \in Good
      PROVE  i \in Good
  <2>1. i \in 0..n /\ i # 0
    OBVIOUS
  <2>2. f[i] = Collected(f[i - 1], order[i])
    BY <1>3, <2>1 DEF LoopOf
  <2>3. order[i] \in DOMAIN start.due /\ start.due[order[i]].debtor = debtor
    OBVIOUS
  <2>4. Garnishing(f[i - 1], start, debtor)
    BY <1>5
  <2>5. Garnishing(Collected(f[i - 1], order[i]), start, debtor)
    BY <2>3, <2>4, CollectedKeeps
  <2> QED
    BY <2>1, <2>2, <2>5
<1>6. Good \in SUBSET (0..n)
  OBVIOUS
<1> HIDE DEF Good
<1>7. Good = 0..n
  BY <1>4, <1>5, <1>6, StepByStep
<1>8. n \in Good
  BY <1>7
<1> QED
  BY <1>2, <1>8 DEF Good

-----------------------------------------------------------------------------
(* Crimes, cases and judgments *)

CaseFields ==
  {"type", "plaintiff", "defendant", "crime", "cause", "claim", "filed", "evidence", "counsel",
   "defence", "witnesses", "admitted", "strength", "status", "resolved", "judgment"}

CrimeFields ==
  {"type", "tick", "perpetrator", "victim", "amount", "detected", "reported", "investigated"}

\* An entry of the register of crimes.
IsCrime(r) ==
  /\ DOMAIN r = CrimeFields
  /\ r.type \in CrimeTypes /\ r.perpetrator \in Agents /\ r.victim \in Agents \cup {NoOne}
  /\ r.amount \in Nat

IsJudgment(j) == {j.fine, j.sentence, j.damages, j.restitution} \subseteq Nat

\* A case: judged when resolved, and closed when it was open before.
IsCase(r) ==
  /\ DOMAIN r = CaseFields
  /\ r.plaintiff \in Owners /\ r.defendant \in Agents
  /\ r.crime \in Nat /\ r.claim \in Nat
  /\ r.strength \in Int /\ IsFiniteSet(r.evidence)
  /\ \/ r.status = "open" /\ r.resolved = -1 /\ r.judgment = {}
     \/ r.status = "settled" /\ r.filed <= r.resolved /\ r.judgment = {}
     \/ /\ r.status = "resolved" /\ r.filed <= r.resolved
        /\ \E j \in r.judgment : r.judgment = {j} /\ IsJudgment(j)

\* The register of crimes is a list.
CrimesHold ==
  /\ crimes \in Seq(Range(crimes))
  /\ \A c \in DOMAIN crimes : IsCrime(crimes[c])

\* What a hearing needs to know of a case.
Triable(case) ==
  /\ DOMAIN case = CaseFields
  /\ case.plaintiff \in Owners /\ case.defendant \in Agents
  /\ case.crime \in 0..Len(crimes) /\ case.claim \in Nat
  /\ case.strength \in Int /\ IsFiniteSet(case.evidence)
LEMMA ScaledGrows ==
  ASSUME NEW a \in Nat, NEW b \in Nat, a <= b, NEW rate \in Nat
  PROVE  /\ (a * rate) \div 10000 \in Nat /\ (b * rate) \div 10000 \in Nat
         /\ (a * rate) \div 10000 <= (b * rate) \div 10000
<1> DEFINE d == b - a
           x == a * rate
           y == b * rate
           z == d * rate
<1>1. d \in Nat /\ x \in Nat /\ z \in Nat
  OBVIOUS
<1>2. y = x + z
  OBVIOUS
<1> HIDE DEF d, x, y, z
<1>3. /\ x \div 10000 \in Nat /\ y \div 10000 \in Nat /\ x \div 10000 <= y \div 10000
  BY <1>1, <1>2
<1> QED
  BY <1>3 DEF x, y

LEMMA TimesGrows ==
  ASSUME NEW a \in Nat, NEW b \in Nat, a <= b, NEW t \in Nat
  PROVE  a * t \in Nat /\ b * t \in Nat /\ a * t <= b * t
<1> DEFINE d == b - a
<1>1. d \in Nat /\ a * t \in Nat /\ d * t \in Nat /\ b * t = a * t + d * t
  OBVIOUS
<1> HIDE DEF d
<1> QED
  BY <1>1

\* The ranges of the statute, in the order the settings give them.
LEMMA RangesHold ==
  ASSUME CrimesHold, NEW case, Triable(case)
  PROVE  LET range == Statutory(case)
         IN  /\ range[1] \in Nat /\ range[2] \in Nat /\ range[1] <= range[2]
             /\ range[3] \in Nat /\ range[4] \in Nat /\ range[3] <= range[4]
<1> DEFINE type == IF case.crime # 0 THEN crimes[case.crime].type ELSE case.cause
           amount == IF case.crime # 0 THEN crimes[case.crime].amount ELSE case.claim
           base == Cfg.statutory[type]
           fines == CASE type = "theft" -> <<amount, 3 * amount>>
                      [] type = "contract_breach" -> <<amount, 2 * amount>>
                      [] type \in {"fraud", "embezzlement"} -> <<2 * amount, 5 * amount>>
                      [] type = "insider_trading" -> <<3 * amount, 10 * amount>>
                      [] OTHER -> <<base[1], base[2]>>
           bp == Cfg.sentencing_bp
           day == Cfg.ticks_per_day
<1>1. case.claim \in Nat
  BY DEF Triable
<1>2. CASE type \notin CrimeTypes
  <2>1. Statutory(case) = <<0, case.claim, 0, 0>>
    BY <1>2 DEF Statutory
  <2> QED
    BY <1>1, <2>1
<1>3. CASE type \in CrimeTypes
  <2>1. /\ base[1] \in Nat /\ base[2] \in Nat /\ base[3] \in Nat /\ base[4] \in Nat
        /\ base[1] <= base[2] /\ base[3] <= base[4]
    BY <1>3, SettingsAssumption
  <2>2. bp \in Nat /\ day \in Nat
    BY SettingsAssumption
  <2>3. amount \in Nat
    <3>1. CASE case.crime # 0
      <4>1. case.crime \in DOMAIN crimes
        <5>1. crimes \in Seq(Range(crimes)) /\ case.crime \in 0..Len(crimes)
          BY DEF Triable, CrimesHold
        <5>2. DOMAIN crimes = 1..Len(crimes) /\ Len(crimes) \in Nat
          BY <5>1
        <5> QED
          BY <3>1, <5>1, <5>2
      <4>2. crimes[case.crime].amount \in Nat
        BY <4>1 DEF CrimesHold, IsCrime
      <4> QED
        BY <3>1, <4>2
    <3>2. CASE case.crime = 0
      BY <1>1, <3>2
    <3> QED
      BY <3>1, <3>2
  <2>4. Statutory(case) = <<(fines[1] * bp) \div 10000, (fines[2] * bp) \div 10000,
                            ((base[3] * day) * bp) \div 10000, ((base[4] * day) * bp) \div 10000>>
    <3>1. Statutory(case) =
            IF type \notin CrimeTypes THEN <<0, case.claim, 0, 0>>
            ELSE <<(fines[1] * bp) \div 10000, (fines[2] * bp) \div 10000,
                   ((base[3] * day) * bp) \div 10000, ((base[4] * day) * bp) \div 10000>>
      BY DEF Statutory
    <3> HIDE DEF type, fines, base, bp, day
    <3> QED
      BY <1>3, <3>1
  <2> HIDE DEF type, amount, base, bp, day
  <2>5. fines[1] \in Nat /\ fines[2] \in Nat /\ fines[1] <= fines[2]
    <3>1. CASE type = "theft"
      BY <2>3, <3>1
    <3>2. CASE type = "contract_breach"
      BY <2>3, <3>2
    <3>3. CASE type \in {"fraud", "embezzlement"}
      BY <2>3, <3>3
    <3>4. CASE type = "insider_trading"
      BY <2>3, <3>4
    <3>5. CASE type \notin {"theft", "contract_breach", "fraud", "embezzlement", "insider_trading"}
      <4>1. fines = <<base[1], base[2]>>
        BY <3>5
      <4> QED
        BY <2>1, <4>1
    <3> QED
      BY <3>1, <3>2, <3>3, <3>4, <3>5
  <2> HIDE DEF fines
  <2>6. /\ (fines[1] * bp) \div 10000 \in Nat /\ (fines[2] * bp) \div 10000 \in Nat
        /\ (fines[1] * bp) \div 10000 <= (fines[2] * bp) \div 10000
    BY <2>2, <2>5, ScaledGrows
  <2>7. base[3] * day \in Nat /\ base[4] * day \in Nat /\ base[3] * day <= base[4] * day
    BY <2>1, <2>2, TimesGrows
  <2> DEFINE lo == base[3] * day
             hi == base[4] * day
  <2>8. lo \in Nat /\ hi \in Nat /\ lo <= hi
    BY <2>7
  <2> HIDE DEF lo, hi
  <2>9. /\ (lo * bp) \div 10000 \in Nat /\ (hi * bp) \div 10000 \in Nat
        /\ (lo * bp) \div 10000 <= (hi * bp) \div 10000
    BY <2>2, <2>8, ScaledGrows
  <2>10. Statutory(case) = <<(fines[1] * bp) \div 10000, (fines[2] * bp) \div 10000,
                            (lo * bp) \div 10000, (hi * bp) \div 10000>>
    BY <2>4 DEF lo, hi
  <2> QED
    BY <2>6, <2>9, <2>10
<1> QED
  BY <1>2, <1>3

\* The penalty of the bench is an amount.
LEMMA BenchPenaltyHolds ==
  ASSUME NEW strength \in Int, NEW lo \in Nat, NEW hi \in Nat, lo <= hi
  PROVE  BenchPenalty(strength, lo, hi) \in Nat
<1> DEFINE th == Cfg.conviction_threshold
           d == 10 - th
           x == (hi - lo) * (strength - th)
<1>1. th \in 1..10
  BY SettingsAssumption
<1>2. CASE strength < th \/ th >= 10
  BY <1>2 DEF BenchPenalty
<1>3. CASE ~(strength < th) /\ ~(th >= 10)
  <2>1. d \in 1..9
    BY <1>1, <1>3
  <2>2. x \in Nat
    <3>1. hi - lo \in Nat /\ strength - th \in Nat
      BY <1>1, <1>3
    <3> QED
      BY <3>1
  <2>3. BenchPenalty(strength, lo, hi) = Rounded(lo, x, d)
    BY <1>3 DEF BenchPenalty
  <2> HIDE DEF x, d
  <2>5. Rounded(lo, x, d) = lo + x \div d \/ Rounded(lo, x, d) = lo + x \div d + 1
    BY DEF Rounded
  <2>4. x \div d \in Nat
    <3>1. d = 1 \/ d = 2 \/ d = 3 \/ d = 4 \/ d = 5 \/ d = 6 \/ d = 7 \/ d = 8 \/ d = 9
      BY <2>1
    <3> QED
      BY <2>2, <3>1
  <2> QED
    BY <2>3, <2>4, <2>5
<1> QED
  BY <1>2, <1>3

LEMMA LargerHolds ==
  ASSUME NEW a \in Int, NEW b \in Int
  PROVE  Max({a, b}) \in {a, b} /\ Max({a, b}) >= a
<1>1. \E x \in {a, b} : \A y \in {a, b} : x >= y
  <2>1. CASE a >= b
    BY <2>1
  <2>2. CASE b >= a
    BY <2>2
  <2> QED
    BY <2>1, <2>2
<1>2. Max({a, b}) = CHOOSE x \in {a, b} : \A y \in {a, b} : x >= y
  BY DEF Max
<1> HIDE <1>2
<1> QED
  BY <1>1, <1>2

\* The evidence changes nothing but what was admitted and how much it weighs.
LEMMA EvidenceKeeps ==
  ASSUME NEW case, DOMAIN case = CaseFields, case.strength \in Int, IsFiniteSet(case.evidence)
  PROVE  \/ WithEvidence(case) = case
         \/ \E a : \E s \in Int : WithEvidence(case) = [case EXCEPT !.admitted = a, !.strength = s]
<1>1. CASE case.admitted # {}
  BY <1>1 DEF WithEvidence
<1>2. CASE case.admitted = {}
  <2> DEFINE shown == Surfaced(case)
             base == Max({1, Cfg.base_evidence})
             n == 10 * Cardinality(shown)
             strength == Least(10, n \div base)
             most == Max({case.strength, strength})
  <2>1. IsFiniteSet(shown) /\ Cardinality(shown) \in Nat
    <3>1. shown \subseteq case.evidence
      BY DEF Surfaced
    <3> HIDE DEF shown
    <3> QED
      BY <3>1, FS_Subset, FS_CardinalityType
  <2>2. base \in Nat /\ base >= 1
    <3>1. Cfg.base_evidence \in Nat
      BY SettingsAssumption
    <3>2. 1 \in Int /\ Cfg.base_evidence \in Int
      BY <3>1
    <3>3. base \in {1, Cfg.base_evidence} /\ base >= 1
      BY <3>2, LargerHolds
    <3> HIDE DEF base
    <3> QED
      BY <3>1, <3>3
  <2>3. n \in Nat
    BY <2>1
  <2>4. WithEvidence(case) = [case EXCEPT !.admitted = shown, !.strength = most]
    BY <1>2 DEF WithEvidence, CaseFields
  <2> HIDE DEF shown, base, n
  <2>5. n \div base \in Int
    BY <2>2, <2>3
  <2>6. strength \in Int
    BY <2>5 DEF Least
  <2> HIDE DEF strength
  <2>7. most \in Int
    BY <2>6, LargerHolds
  <2> QED
    BY <2>4, <2>7
<1> QED
  BY <1>1, <1>2

\* Whoever decides, the penalties are amounts.
LEMMA DecisionsHold ==
  ASSUME CrimesHold, NEW case, Triable(case), NEW j \in Decisions(case)
  PROVE  IsJudgment(j)
<1> DEFINE range == Statutory(case)
<1>1. /\ range[1] \in Nat /\ range[2] \in Nat /\ range[1] <= range[2]
      /\ range[3] \in Nat /\ range[4] \in Nat /\ range[3] <= range[4]
  BY RangesHold
<1>2. j = Bench(case, range) \/ \E o \in JudgeOutputs : j = Clamped(case, range, o)
  BY DEF Decisions
<1> HIDE DEF range
<1>3. CASE j = Bench(case, range)
  <2>1. case.strength \in Int
    BY DEF Triable
  <2>2. BenchPenalty(case.strength, range[1], range[2]) \in Nat
    BY <1>1, <2>1, BenchPenaltyHolds
  <2>3. BenchPenalty(case.strength, range[3], range[4]) \in Nat
    BY <1>1, <2>1, BenchPenaltyHolds
  <2>4. /\ j.fine = BenchPenalty(case.strength, range[1], range[2])
        /\ j.sentence = BenchPenalty(case.strength, range[3], range[4])
        /\ j.damages = 0 /\ j.restitution = 0
    BY <1>3 DEF Bench
  <2> QED
    BY <2>2, <2>3, <2>4 DEF IsJudgment
<1>4. CASE \E o \in JudgeOutputs : j = Clamped(case, range, o)
  <2>1. PICK o \in JudgeOutputs : j = Clamped(case, range, o)
    BY <1>4
  <2>2. o.fine \in Nat /\ o.sentence \in Nat /\ o.damages \in Nat /\ o.restitution \in Nat
    BY InputAssumption
  <2> DEFINE within(lo, hi, x) == Least(hi, Max({lo, x}))
  <2>3. ASSUME NEW lo \in Nat, NEW hi \in Nat, NEW x \in Nat
        PROVE  within(lo, hi, x) \in Nat
    <3>1. Max({lo, x}) \in Nat
      BY LargerHolds
    <3> QED
      BY <3>1 DEF Least
  <2>4. within(range[1], range[2], o.fine) \in Nat /\ within(range[3], range[4], o.sentence) \in Nat
    BY <1>1, <2>2, <2>3
  <2>5. /\ j.fine = IF o.verdict \in {"guilty", "liable"}
                    THEN within(range[1], range[2], o.fine) ELSE 0
        /\ j.sentence = IF o.verdict = "guilty"
                        THEN within(range[3], range[4], o.sentence) ELSE 0
        /\ j.damages = Least(case.claim, o.damages)
        /\ j.restitution = IF case.crime = 0 THEN 0
                           ELSE Least(crimes[case.crime].amount, o.restitution)
    BY <2>1 DEF Clamped
  <2> HIDE DEF within
  <2>6. j.damages \in Nat
    BY <2>2, <2>5 DEF Triable, Least
  <2>7. j.restitution \in Nat
    <3>1. CASE case.crime = 0
      BY <2>5, <3>1
    <3>2. CASE case.crime # 0
      <4>1. case.crime \in DOMAIN crimes
        <5>1. crimes \in Seq(Range(crimes)) /\ case.crime \in 0..Len(crimes)
          BY DEF Triable, CrimesHold
        <5>2. DOMAIN crimes = 1..Len(crimes) /\ Len(crimes) \in Nat
          BY <5>1
        <5> QED
          BY <3>2, <5>1, <5>2
      <4>2. crimes[case.crime].amount \in Nat
        BY <4>1 DEF CrimesHold, IsCrime
      <4> QED
        BY <2>2, <2>5, <3>2, <4>2 DEF Least
    <3> QED
      BY <3>1, <3>2
  <2>8. j.fine \in Nat /\ j.sentence \in Nat
    BY <2>4, <2>5
  <2> QED
    BY <2>6, <2>7, <2>8 DEF IsJudgment
<1> QED
  BY <1>2, <1>3, <1>4

\* The awards of a judgment are amounts, due to somebody.
LEMMA AwardsHold ==
  ASSUME CrimesHold, NEW case, Triable(case), NEW j, IsJudgment(j)
  PROVE  \A i \in 1..4 : IsAward(Awards(case, j)[i])
<1> DEFINE victim == IF case.crime = 0 THEN NoOne ELSE crimes[case.crime].victim
           costs == Cfg.loser_pays /\ j.verdict \in {"guilty", "liable"}
           a == Awards(case, j)
<1>1. a = <<<<Government, j.fine>>, <<case.plaintiff, j.damages>>,
            <<victim, IF victim = NoOne THEN 0 ELSE j.restitution>>,
            <<case.plaintiff, IF costs THEN Cfg.filing_fee ELSE 0>>>>
  BY DEF Awards
<1>2. j.fine \in Nat /\ j.damages \in Nat /\ j.restitution \in Nat
  BY DEF IsJudgment
<1>3. Cfg.filing_fee \in Nat /\ case.plaintiff \in Owners /\ Government \in Owners
  BY SettingsAssumption DEF Triable, Owners
<1>4. victim = NoOne \/ victim \in Owners
  <2>1. CASE case.crime = 0
    BY <2>1
  <2>2. CASE case.crime # 0
    <3>1. case.crime \in DOMAIN crimes
      <4>1. crimes \in Seq(Range(crimes)) /\ case.crime \in 0..Len(crimes)
        BY DEF Triable, CrimesHold
      <4>2. DOMAIN crimes = 1..Len(crimes) /\ Len(crimes) \in Nat
        BY <4>1
      <4> QED
        BY <2>2, <4>1, <4>2
    <3>2. crimes[case.crime].victim \in Agents \cup {NoOne}
      BY <3>1 DEF CrimesHold, IsCrime
    <3> QED
      BY <2>2, <3>2 DEF Owners
  <2> QED
    BY <2>1, <2>2
<1> HIDE DEF a, victim, costs
<1>5. IsAward(a[1]) /\ IsAward(a[2])
  BY <1>1, <1>2, <1>3 DEF IsAward
<1>6. IsAward(a[3])
  BY <1>1, <1>2, <1>4 DEF IsAward
<1>7. IsAward(a[4])
  BY <1>1, <1>3 DEF IsAward
<1>8. \A i \in 1..4 : i = 1 \/ i = 2 \/ i = 3 \/ i = 4
  OBVIOUS
<1> QED
  BY <1>5, <1>6, <1>7, <1>8 DEF a

\* No case was filed or closed in the future, and what it is about is on the register of crimes.
CasesHold ==
  /\ tick \in Nat
  /\ IsFiniteSet(DOMAIN cases)
  /\ \A k \in DOMAIN cases :
       /\ IsCase(cases[k])
       /\ cases[k].filed \in 0..tick
       /\ cases[k].resolved \in -1..tick
       /\ cases[k].crime \in 0..Len(crimes)

Charges(k, c) == cases[k].type = "criminal" /\ cases[k].crime = c

\* Where nobody charges by hand, a crime with a charge was investigated, and has no other.
ChargesHold ==
  ~HandCharges => \A c \in DOMAIN crimes : \A k \in DOMAIN cases :
    Charges(k, c) => /\ crimes[c].investigated
                     /\ \A l \in DOMAIN cases : Charges(l, c) => l = k

\* Criminal cases are about crimes of the register.
ChargesKnown ==
  ~HandCharges => \A k \in DOMAIN cases : cases[k].type = "criminal" => cases[k].crime \in DOMAIN crimes

IInv ==
  /\ CasesHold
  /\ CrimesHold
  /\ MoneyHold
  /\ ChargesHold
  /\ ChargesKnown
  /\ OldestFirst

-----------------------------------------------------------------------------
(* The register of crimes *)

\* Crime c keeps what was found out about it.
Persists(c) ==
  /\ c \in DOMAIN crimes'
  /\ crimes[c].investigated => crimes'[c].investigated
  /\ crimes'[c].victim = crimes[c].victim

\* Appending keeps a sequence, and its entries.
LEMMA Appended ==
  ASSUME NEW s, s \in Seq(Range(s)), NEW e
  PROVE  /\ Append(s, e) \in Seq(Range(Append(s, e)))
         /\ DOMAIN s \subseteq DOMAIN Append(s, e)
         /\ \A i \in DOMAIN s : Append(s, e)[i] = s[i]
         /\ \A i \in DOMAIN Append(s, e) : i \in DOMAIN s \/ Append(s, e)[i] = e
<1> DEFINE S == Range(s) \cup {e}
           t == Append(s, e)
           n == Len(s)
<1>1. s \in Seq(S) /\ e \in S /\ n \in Nat
  <2>1. Range(s) \subseteq S
    OBVIOUS
  <2> HIDE DEF S
  <2>2. s \in Seq(S)
    BY <2>1
  <2> QED
    BY <2>2 DEF S
<1> HIDE DEF S
<1>2. /\ t \in Seq(S) /\ Len(t) = n + 1 /\ DOMAIN t = 1..(n+1) /\ DOMAIN s = 1..n
      /\ \A i \in 1..n : t[i] = s[i]
      /\ t[n+1] = e
  BY <1>1
<1> HIDE DEF t
<1>3. t \in [1..(n+1) -> Range(t)]
  BY <1>1, <1>2 DEF Range
<1>4. t \in Seq(Range(t))
  BY <1>1, <1>3
<1>5. \A i \in 1..(n+1) : i \in 1..n \/ i = n+1
  BY <1>1
<1>6. 1..n \subseteq 1..(n+1)
  BY <1>1
<1> QED
  BY <1>2, <1>4, <1>5, <1>6 DEF t

\* A theft takes no more than was intended, and than the victim has.
LEMMA StolenHolds ==
  ASSUME MoneyHold, NEW type, NEW p, NEW v \in Agents \cup {NoOne}, NEW cents \in Nat
  PROVE  /\ Stolen(type, p, v, cents) \in Nat /\ Stolen(type, p, v, cents) <= cents
         /\ Stolen(type, p, v, cents) > 0 =>
              /\ type = "theft" /\ v \in Owners
              /\ Stolen(type, p, v, cents) <= compatible_balance(money, v, p)
<1>1. CASE type = "theft" /\ v # NoOne
  <2>1. v \in Owners /\ money \in [Owners -> Nat]
    BY <1>1 DEF Owners, MoneyHold
  <2>2. compatible_balance(money, v, p) \in Nat
    BY <2>1, BalanceHolds
  <2> QED
    BY <1>1, <2>1, <2>2 DEF Stolen, Least
<1>2. CASE ~(type = "theft" /\ v # NoOne)
  BY <1>2 DEF Stolen
<1> QED
  BY <1>1, <1>2

\* An offence adds to the register and changes none of its entries.
LEMMA RecordedKeeps ==
  ASSUME CrimesHold, NEW type \in CrimeTypes, NEW p \in Agents, NEW v \in Agents \cup {NoOne},
         NEW cents \in Nat, crimes' = Recorded(type, p, v, cents)
  PROVE  CrimesHold' /\ \A c \in DOMAIN crimes : Persists(c)
<1> DEFINE e == [type |-> type, tick |-> tick, perpetrator |-> p, victim |-> v,
                 amount |-> cents, detected |-> FALSE, reported |-> FALSE,
                 investigated |-> FALSE]
<1>1. crimes' = Append(crimes, e) /\ IsCrime(e)
  BY DEF Recorded, CrimeFields, IsCrime
<1> HIDE DEF e
<1>2. crimes \in Seq(Range(crimes))
  BY DEF CrimesHold
<1>3. /\ crimes' \in Seq(Range(crimes'))
      /\ DOMAIN crimes \subseteq DOMAIN crimes'
      /\ \A i \in DOMAIN crimes : crimes'[i] = crimes[i]
      /\ \A i \in DOMAIN crimes' : i \in DOMAIN crimes \/ crimes'[i] = e
  BY <1>1, <1>2, Appended
<1> QED
  BY <1>1, <1>3 DEF CrimesHold, Persists

\* A change of the entries that closes or opens no file.
LEMMA EntriesKeep ==
  ASSUME CrimesHold, crimes' \in [DOMAIN crimes -> Range(crimes')],
         \A c \in DOMAIN crimes : /\ IsCrime(crimes'[c])
                                  /\ crimes[c].investigated => crimes'[c].investigated
                                  /\ crimes'[c].victim = crimes[c].victim
  PROVE  CrimesHold' /\ \A c \in DOMAIN crimes : Persists(c)
<1>1. DOMAIN crimes = 1..Len(crimes) /\ Len(crimes) \in Nat
  BY DEF CrimesHold
<1>2. crimes' \in Seq(Range(crimes'))
  BY <1>1
<1>3. DOMAIN crimes' = DOMAIN crimes
  OBVIOUS
<1> QED
  BY <1>2, <1>3 DEF CrimesHold, Persists

\* A hearing closes one case, with what was found; nothing else of the docket changes.
LEMMA HearKeeps ==
  ASSUME NEW k, NEW case, NEW m, NEW t, Hear(k, case, m, t)
  PROVE  /\ crimes' = crimes /\ tick' = tick
         /\ \E j \in Decisions(WithEvidence(case)) : cases' = [cases EXCEPT ![k] = [WithEvidence(case) EXCEPT
                               !.status = "resolved", !.resolved = tick, !.judgment = {j}]]
<1>1. PICK heard \in {WithEvidence(case)} : \E j \in Decisions(heard) :
        /\ cases' = [cases EXCEPT ![k] = [heard EXCEPT !.status = "resolved", !.resolved = tick,
                                                       !.judgment = {j}]]
        /\ tick' = tick /\ crimes' = crimes
  BY DEF Hear
<1> QED
  BY <1>1

\* No step forgets a crime, its victim, or that its file was closed.
LEMMA CrimesStep ==
  ASSUME CrimesHold, MoneyHold, Next
  PROVE  CrimesHold' /\ \A c \in DOMAIN crimes : Persists(c)
<1>1. CASE \E o \in Offences : CommitCrime(o)
  <2>1. PICK o \in Offences : CommitCrime(o)
    BY <1>1
  <2> DEFINE taken == Stolen(o[2], o[1], o[3], o[4])
             cents == IF taken > 0 THEN taken ELSE o[4]
  <2>2. o[1] \in Agents /\ o[2] \in CrimeTypes /\ o[3] \in Agents \cup {NoOne} /\ o[4] \in Nat
    BY InputAssumption
  <2>3. taken \in Nat
    BY <2>2, StolenHolds
  <2>4. crimes' = Recorded(o[2], o[1], o[3], cents) /\ cents \in Nat
    BY <2>1, <2>2, <2>3 DEF CommitCrime
  <2> HIDE DEF cents
  <2> QED
    BY <2>2, <2>4, RecordedKeeps
<1>2. CASE (\E t \in Trades : TradeInside(t)) \/ \E a \in Agents : DefaultFunded(a)
  <2>1. PICK type \in CrimeTypes, p \in Agents, v \in Agents \cup {NoOne}, cents \in Nat :
          crimes' = Recorded(type, p, v, cents)
    <3>1. CASE \E t \in Trades : TradeInside(t)
      <4>1. PICK t \in Trades : crimes' = Recorded("insider_trading", t[1], NoOne, 0)
        BY <3>1 DEF TradeInside, Offend
      <4>2. t[1] \in Agents
        BY InputAssumption
      <4> QED
        BY <4>1, <4>2 DEF CrimeTypes
    <3>2. CASE \E a \in Agents : DefaultFunded(a)
      <4>1. PICK a \in Agents, o \in Obligations :
              crimes' = Recorded("contract_breach", a, o.creditor, o.amount)
        BY <3>2 DEF DefaultFunded, Missed, Offend
      <4>2. o.creditor \in Agents /\ o.amount \in Nat
        BY InputAssumption
      <4> QED
        BY <4>1, <4>2 DEF CrimeTypes
    <3> QED
      BY <1>2, <3>1, <3>2
  <2> QED
    BY <2>1, RecordedKeeps
<1>3. CASE \E k \in DOMAIN cases, w \in Testimony : Testify(w[1], k, w[2])
  <2>1. PICK k \in DOMAIN cases, w \in Testimony : Testify(w[1], k, w[2])
    BY <1>3
  <2>2. CASE w[2]
    <3>1. crimes' = Recorded("perjury", w[1], NoOne, 0)
      BY <2>1, <2>2 DEF Testify, Offend
    <3>2. w[1] \in Agents /\ "perjury" \in CrimeTypes /\ NoOne \in Agents \cup {NoOne} /\ 0 \in Nat
      BY InputAssumption DEF CrimeTypes
    <3> QED
      BY <3>1, <3>2, RecordedKeeps
  <2>3. CASE ~w[2]
    BY <2>1, <2>3 DEF Testify, CrimesHold, Persists
  <2> QED
    BY <2>2, <2>3
<1>4. CASE \E c \in DOMAIN crimes, r \in Agents : Report(r, c)
  <2>1. PICK c \in DOMAIN crimes : crimes' = [crimes EXCEPT ![c].reported = TRUE]
    BY <1>4 DEF Report
  <2>2. /\ crimes' \in [DOMAIN crimes -> Range(crimes')]
        /\ \A d \in DOMAIN crimes : crimes'[d] = IF d = c THEN [crimes[d] EXCEPT !.reported = TRUE]
                                                 ELSE crimes[d]
    BY <2>1 DEF Range
  <2>3. \A d \in DOMAIN crimes : /\ IsCrime(crimes'[d])
                                 /\ crimes[d].investigated => crimes'[d].investigated
                                 /\ crimes'[d].victim = crimes[d].victim
    BY <2>2 DEF CrimesHold, CrimeFields, IsCrime
  <2> QED
    BY <2>2, <2>3, EntriesKeep
<1>5. CASE run_hazard
  <2>1. PICK found \in SUBSET Detectable : crimes' = DetectedIn(crimes, found)
    BY <1>5 DEF run_hazard
  <2>2. /\ crimes' \in [DOMAIN crimes -> Range(crimes')]
        /\ \A d \in DOMAIN crimes : crimes'[d] = IF d \in found
                                                 THEN [crimes[d] EXCEPT !.detected = TRUE]
                                                 ELSE crimes[d]
    <3>1. crimes' = [d \in DOMAIN crimes |-> IF d \in found THEN [crimes[d] EXCEPT !.detected = TRUE]
                                           ELSE crimes[d]]
      BY <2>1 DEF DetectedIn
    <3> QED
      BY <3>1 DEF Range
  <2>3. \A d \in DOMAIN crimes : /\ IsCrime(crimes'[d])
                                 /\ crimes[d].investigated => crimes'[d].investigated
                                 /\ crimes'[d].victim = crimes[d].victim
    BY <2>2 DEF CrimesHold, CrimeFields, IsCrime
  <2> QED
    BY <2>2, <2>3, EntriesKeep
<1>6. CASE \E c \in DOMAIN crimes : Investigate(c)
  <2>1. PICK c \in DOMAIN crimes : crimes' = [crimes EXCEPT ![c].investigated = TRUE]
    BY <1>6 DEF Investigate, CloseFile
  <2>2. /\ crimes' \in [DOMAIN crimes -> Range(crimes')]
        /\ \A d \in DOMAIN crimes : crimes'[d] = IF d = c
                                                 THEN [crimes[d] EXCEPT !.investigated = TRUE]
                                                 ELSE crimes[d]
    BY <2>1 DEF Range
  <2>3. \A d \in DOMAIN crimes : /\ IsCrime(crimes'[d])
                                 /\ crimes[d].investigated => crimes'[d].investigated
                                 /\ crimes'[d].victim = crimes[d].victim
    BY <2>2 DEF CrimesHold, CrimeFields, IsCrime
  <2> QED
    BY <2>2, <2>3, EntriesKeep
<1>7. CASE crimes' = crimes
  BY <1>7 DEF CrimesHold, Persists
<1>8. ASSUME \/ \E s \in Suits : FileSuit(s)
             \/ \E k \in DOMAIN cases, l \in DOMAIN Lawyers, a \in Clients : Retain(a, k, l)
             \/ \E k \in DOMAIN cases, o \in Offers : Settle(o[1], k, o[2])
             \/ \E i \in Incomes : PayAndGarnish(i[1], i[2])
             \/ EndActions \/ EndQueue \/ release_due
             \/ HearWithoutDefender \/ HearWithDefender \/ DefenderUnpaid
             \/ EndSession \/ NextTick \/ Ended
      PROVE  crimes' = crimes
  <2>1. CASE HearWithoutDefender \/ HearWithDefender
    BY <2>1, HearKeeps DEF HearWithoutDefender, HearWithDefender
  <2>2. CASE \/ \E s \in Suits : FileSuit(s)
             \/ \E k \in DOMAIN cases, l \in DOMAIN Lawyers, a \in Clients : Retain(a, k, l)
             \/ \E k \in DOMAIN cases, o \in Offers : Settle(o[1], k, o[2])
             \/ \E i \in Incomes : PayAndGarnish(i[1], i[2])
    BY <2>2 DEF FileSuit, Retain, Settle, PayAndGarnish
  <2>3. CASE EndActions \/ EndQueue \/ release_due \/ DefenderUnpaid \/ EndSession \/ NextTick
             \/ Ended
    BY <2>3 DEF EndActions, EndQueue, release_due, DefenderUnpaid, EndSession, NextTick, Ended,
       vars
  <2> QED
    BY <1>8, <2>1, <2>2, <2>3
<1> QED
  BY <1>1, <1>2, <1>3, <1>4, <1>5, <1>6, <1>7, <1>8 DEF Next

-----------------------------------------------------------------------------
(* The docket *)

\* What a case is about.
Same(r, s) ==
  /\ r.type = s.type /\ r.crime = s.crime /\ r.filed = s.filed
  /\ r.plaintiff = s.plaintiff /\ r.defendant = s.defendant

Hearing == HearWithoutDefender \/ HearWithDefender

\* Case k keeps what it is about, and is closed only now, if at all: settled, or judged in its turn.
Keeps(k) ==
  /\ k \in DOMAIN cases' /\ IsCase(cases'[k]) /\ Same(cases'[k], cases[k])
  /\ \/ /\ cases'[k].status = cases[k].status /\ cases'[k].resolved = cases[k].resolved
        /\ cases'[k].judgment = cases[k].judgment
     \/ /\ cases[k].status = "open" /\ cases'[k].resolved = tick
        /\ \/ cases'[k].status = "settled"
           \/ cases'[k].status = "resolved" /\ k \in NextOnDocket /\ Hearing

\* Case k was filed in this step; a charge closes the file of a crime not yet investigated.
IsNew(k) ==
  /\ IsCase(cases'[k])
  /\ cases'[k].filed = tick /\ cases'[k].status = "open" /\ cases'[k].crime \in 0..Len(crimes)
  /\ ~HandCharges /\ cases'[k].type = "criminal" =>
       /\ cases'[k].crime \in DOMAIN crimes
       /\ ~crimes[cases'[k].crime].investigated
       /\ crimes'[cases'[k].crime].investigated

DocketSteps ==
  /\ IsFiniteSet(DOMAIN cases')
  /\ \A k \in DOMAIN cases : Keeps(k)
  /\ \A k \in DOMAIN cases' \ DOMAIN cases :
       IsNew(k) /\ \A l \in DOMAIN cases' \ DOMAIN cases : l = k

\* A step that leaves the docket alone.
LEMMA Untouched ==
  ASSUME CasesHold, cases' = cases
  PROVE  DocketSteps
BY DEF DocketSteps, Keeps, CasesHold, Same

\* A step that changes one case.
LEMMA OneChanged ==
  ASSUME CasesHold, NEW k \in DOMAIN cases, NEW r, IsCase(r), Same(r, cases[k]),
         cases' = [cases EXCEPT ![k] = r],
         \/ /\ r.status = cases[k].status /\ r.resolved = cases[k].resolved
            /\ r.judgment = cases[k].judgment
         \/ /\ cases[k].status = "open" /\ r.resolved = tick
            /\ \/ r.status = "settled"
               \/ r.status = "resolved" /\ k \in NextOnDocket /\ Hearing
  PROVE  DocketSteps
<1>1. DOMAIN cases' = DOMAIN cases /\ \A l \in DOMAIN cases : cases'[l] = IF l = k THEN r ELSE cases[l]
  OBVIOUS
<1>2. ASSUME NEW l \in DOMAIN cases
      PROVE  Keeps(l)
  <2>1. CASE l = k
    BY <1>1, <2>1 DEF Keeps
  <2>2. CASE l # k
    <3>1. cases'[l] = cases[l] /\ IsCase(cases[l])
      BY <1>1, <2>2 DEF CasesHold
    <3> QED
      BY <1>1, <3>1 DEF Keeps, Same
  <2> QED
    BY <2>1, <2>2
<1> QED
  BY <1>1, <1>2 DEF DocketSteps, CasesHold

\* The evidence does not change what a case is about.
LEMMA EvidenceHolds ==
  ASSUME NEW case, Triable(case)
  PROVE  /\ Triable(WithEvidence(case)) /\ Same(WithEvidence(case), case)
<1>1. DOMAIN case = CaseFields /\ case.strength \in Int /\ IsFiniteSet(case.evidence)
  BY DEF Triable
<1>2. CASE WithEvidence(case) = case
  BY <1>2 DEF Same
<1>3. CASE \E a : \E s \in Int : WithEvidence(case) = [case EXCEPT !.admitted = a, !.strength = s]
  <2>1. PICK a : \E s \in Int : WithEvidence(case) = [case EXCEPT !.admitted = a, !.strength = s]
    BY <1>3
  <2>3. PICK s \in Int : WithEvidence(case) = [case EXCEPT !.admitted = a, !.strength = s]
    BY <2>1
  <2> DEFINE w == WithEvidence(case)
  <2>2. /\ DOMAIN w = CaseFields /\ w.strength = s /\ w.evidence = case.evidence
        /\ w.type = case.type /\ w.crime = case.crime /\ w.filed = case.filed
        /\ w.plaintiff = case.plaintiff /\ w.defendant = case.defendant /\ w.claim = case.claim
    BY <1>1, <2>3 DEF CaseFields
  <2> HIDE DEF w
  <2>4. Triable(w) /\ Same(w, case)
    BY <2>2 DEF Triable, Same
  <2> QED
    BY <2>4 DEF w
<1> QED
  BY <1>1, <1>2, <1>3, EvidenceKeeps

LEMMA CasesTriable ==
  ASSUME CasesHold, NEW k \in DOMAIN cases
  PROVE  Triable(cases[k])
BY DEF CasesHold, IsCase, Triable

\* Counsel does not change what a case is about.
LEMMA RetainedKeeps ==
  ASSUME NEW k, NEW client, NEW counsel, IsCase(cases[k])
  PROVE  LET r == Retained(k, client, counsel)
         IN  /\ IsCase(r) /\ Same(r, cases[k])
             /\ r.claim = cases[k].claim /\ r.strength = cases[k].strength
             /\ r.evidence = cases[k].evidence
             /\ r.status = cases[k].status /\ r.resolved = cases[k].resolved
             /\ r.judgment = cases[k].judgment
<1> DEFINE r == Retained(k, client, counsel)
           s == cases[k]
<1>1. DOMAIN s = CaseFields
  BY DEF IsCase
<1>2. r = [s EXCEPT !.defence = counsel] \/ r = [s EXCEPT !.counsel = counsel]
  BY DEF Retained
<1> HIDE DEF r
<1>3. /\ DOMAIN r = CaseFields
      /\ r.type = s.type /\ r.crime = s.crime /\ r.filed = s.filed
      /\ r.plaintiff = s.plaintiff /\ r.defendant = s.defendant
      /\ r.claim = s.claim /\ r.strength = s.strength /\ r.evidence = s.evidence
      /\ r.status = s.status /\ r.resolved = s.resolved /\ r.judgment = s.judgment
  BY <1>1, <1>2 DEF CaseFields
<1>4. IsCase(s)
  OBVIOUS
<1> HIDE DEF s
<1>5. IsCase(r) /\ Same(r, s)
  BY <1>3, <1>4 DEF IsCase, Same
<1> QED
  BY <1>3, <1>5 DEF r, s

\* What a judgment makes the defendant pay, given the register of crimes.
Penal(all, case) ==
  LET j == CHOOSE j \in case.judgment : TRUE
      victim == IF case.crime = 0 THEN NoOne ELSE all[case.crime].victim
      costs == Cfg.loser_pays /\ j.verdict \in {"guilty", "liable"}
  IN  j.fine + j.damages + (IF victim = NoOne THEN 0 ELSE j.restitution)
        + (IF costs THEN Cfg.filing_fee ELSE 0)

\* What d has paid on judgments and still owes.
Balance(d) == paid[d] + OwedBy(receivables, d)

\* A session hears case k, with or without a defender.
HearingOf(k, case, m, t) ==
  /\ k \in NextOnDocket /\ Triable(case) /\ Same(case, cases[k]) /\ m \in [Owners -> Nat]
  /\ Hear(k, case, m, t)
  /\ \/ case = cases[k] /\ t = tables
     \/ \E l : /\ case = Retained(k, cases[k].defendant, l)
               /\ t = CounselRow(k, cases[k].defendant, l)

\* A session hears one case of the docket.
LEMMA HearingIs ==
  ASSUME CasesHold, MoneyHold, Hearing
  PROVE  stage = "court" /\ \E k, case, m, t : HearingOf(k, case, m, t)
<1>1. CASE HearWithoutDefender
  <2>1. PICK k \in NextOnDocket : Hear(k, cases[k], money, tables) /\ stage = "court"
    BY <1>1 DEF HearWithoutDefender
  <2>2. Triable(cases[k]) /\ Same(cases[k], cases[k])
    BY CasesTriable DEF NextOnDocket, OpenCases, Same
  <2>3. HearingOf(k, cases[k], money, tables)
    BY <2>1, <2>2 DEF HearingOf, MoneyHold
  <2> QED
    BY <2>1, <2>3
<1>2. CASE HearWithDefender
  <2>1. PICK k \in NextOnDocket, l \in DOMAIN Lawyers :
          /\ compatible_balance(money, Government, l) >= Lawyers[l].fee
          /\ Hear(k, Retained(k, cases[k].defendant, l),
               Transfer(money, Government, l, Lawyers[l].fee),
               CounselRow(k, cases[k].defendant, l))
          /\ stage = "court"
    BY <1>2 DEF HearWithDefender, Defenders
  <2>2. IsCase(cases[k]) /\ Triable(cases[k])
    BY CasesTriable DEF CasesHold, NextOnDocket, OpenCases
  <2> DEFINE r == Retained(k, cases[k].defendant, l)
             m == Transfer(money, Government, l, Lawyers[l].fee)
             t == CounselRow(k, cases[k].defendant, l)
  <2>3. Triable(r) /\ Same(r, cases[k])
    <3>1. /\ IsCase(r) /\ Same(r, cases[k])
          /\ r.claim = cases[k].claim /\ r.strength = cases[k].strength
          /\ r.evidence = cases[k].evidence
      BY <2>2, RetainedKeeps
    <3> QED
      BY <2>2, <3>1 DEF IsCase, Triable, Same
  <2>4. Hear(k, r, m, t)
    BY <2>1
  <2>5. m \in [Owners -> Nat]
    <3>1. money \in [Owners -> Nat] /\ Government \in Owners /\ Lawyers[l].fee \in Nat
      BY LawAssumption DEF MoneyHold, Owners
    <3>2. Lawyers[l].fee <= money[Government]
      <4>1. /\ compatible_balance(money, Government, l) \in Nat /\ money[Government] \in Nat
            /\ compatible_balance(money, Government, l) <= money[Government]
        BY <3>1, BalanceHolds
      <4> QED
        BY <2>1, <3>1, <4>1
    <3> QED
      BY <3>1, <3>2, TransferHolds
  <2>6. \E c : /\ r = Retained(k, cases[k].defendant, c)
               /\ t = CounselRow(k, cases[k].defendant, c)
    OBVIOUS
  <2> HIDE DEF r, m, t
  <2>7. HearingOf(k, r, m, t)
    BY <2>3, <2>4, <2>5, <2>6 DEF HearingOf
  <2> QED
    BY <2>1, <2>7
<1> QED
  BY <1>1, <1>2 DEF Hearing

\* Case k becomes r, with judgment j and its penalties.
VerdictOf(k, case, t, j, r) ==
  /\ k \in DOMAIN cases /\ cases[k].status = "open"
  /\ IsJudgment(j) /\ IsCase(r) /\ Same(r, cases[k])
  /\ r = [WithEvidence(case) EXCEPT !.status = "resolved", !.resolved = tick, !.judgment = {j}]
  /\ r.status = "resolved" /\ r.resolved = tick /\ r.judgment = {j}
  /\ cases' = [cases EXCEPT ![k] = r]
  /\ MoneyHold'
  /\ \A d \in Agents :
       paid'[d] + OwedBy(receivables', d)
         = Balance(d) + (IF d = r.defendant THEN Penal(crimes, r) ELSE 0)
  /\ Penal(crimes, r) \in Nat
  /\ tables' = JudgedRows(t, k, WithEvidence(case), j)
  /\ Convicted(r.defendant, j) /\ Jailed(r.defendant, j)
  /\ UNCHANGED <<tick, stage, inputs, crimes>>

\* A hearing ends in a judgment, and its penalties are paid or owed.
LEMMA VerdictIs ==
  ASSUME CasesHold, CrimesHold, MoneyHold, NEW k, NEW case, NEW m, NEW t,
         HearingOf(k, case, m, t)
  PROVE  \E j, r : VerdictOf(k, case, t, j, r)
<1> DEFINE w == WithEvidence(case)
           debtor == case.defendant
           start == [money |-> m, paid |-> paid[debtor], due |-> receivables]
<1>1. /\ k \in NextOnDocket /\ Triable(case) /\ Same(case, cases[k]) /\ m \in [Owners -> Nat]
      /\ Hear(k, case, m, t)
  BY DEF HearingOf
<1>2. PICK j \in Decisions(w) :
        /\ \E end \in {Penalised(start, debtor, Awards(w, j))} :
             money' = end.money /\ paid' = [paid EXCEPT ![debtor] = end.paid]
             /\ receivables' = end.due
        /\ cases' = [cases EXCEPT ![k] = [w EXCEPT !.status = "resolved", !.resolved = tick,
                                                       !.judgment = {j}]]
        /\ tables' = JudgedRows(t, k, w, j)
        /\ Convicted(debtor, j) /\ Jailed(debtor, j)
        /\ UNCHANGED <<tick, stage, inputs, crimes>>
  <2>1. PICK heard \in {w} : \E o \in Decisions(heard) :
        /\ \E end \in {Penalised(start, debtor, Awards(heard, o))} :
             money' = end.money /\ paid' = [paid EXCEPT ![debtor] = end.paid]
             /\ receivables' = end.due
        /\ cases' = [cases EXCEPT ![k] = [heard EXCEPT !.status = "resolved", !.resolved = tick,
                                                       !.judgment = {o}]]
        /\ tables' = JudgedRows(t, k, heard, o)
        /\ Convicted(debtor, o) /\ Jailed(debtor, o)
        /\ UNCHANGED <<tick, stage, inputs, crimes>>
    BY <1>1 DEF Hear
  <2>2. heard = w
    OBVIOUS
  <2> HIDE DEF w, start, debtor
  <2> QED
    BY <2>1, <2>2
<1>3. Triable(w) /\ Same(w, case)
  BY <1>1, EvidenceHolds
<1>4. IsJudgment(j)
  BY <1>3, DecisionsHold
<1>5. debtor \in Agents /\ w.defendant = debtor
  BY <1>1, <1>3 DEF Triable, Same
<1> HIDE DEF w
<1> DEFINE r == [w EXCEPT !.status = "resolved", !.resolved = tick, !.judgment = {j}]
<1>6. /\ DOMAIN r = CaseFields /\ r.type = w.type /\ r.crime = w.crime /\ r.filed = w.filed
      /\ r.plaintiff = w.plaintiff /\ r.defendant = w.defendant
      /\ r.claim = w.claim /\ r.strength = w.strength /\ r.evidence = w.evidence
      /\ r.status = "resolved" /\ r.resolved = tick /\ r.judgment = {j}
  BY <1>3 DEF CaseFields, Triable
<1>7. k \in DOMAIN cases /\ cases[k].status = "open" /\ cases' = [cases EXCEPT ![k] = r]
  BY <1>1, <1>2 DEF NextOnDocket, OpenCases
<1>8. r = [w EXCEPT !.status = "resolved", !.resolved = tick, !.judgment = {j}]
  OBVIOUS
<1> HIDE DEF r
<1>9. Same(r, cases[k])
  BY <1>1, <1>3, <1>6 DEF Same
<1>10. IsCase(r)
  <2>1. w.crime \in Nat
    <3>1. Len(crimes) \in Nat
      BY DEF CrimesHold
    <3> QED
      BY <1>3, <3>1 DEF Triable
  <2>2. r.filed <= r.resolved
    <3>1. r.filed \in 0..tick /\ tick \in Nat
      BY <1>7, <1>9 DEF Same, CasesHold
    <3> QED
      BY <1>6, <3>1
  <2> QED
    BY <1>3, <1>4, <1>6, <2>1, <2>2 DEF Triable, IsCase
<1> DEFINE end == Penalised(start, debtor, Awards(w, j))
           awards == Awards(w, j)
<1>11. /\ money' = end.money /\ paid' = [paid EXCEPT ![debtor] = end.paid]
       /\ receivables' = end.due
  BY <1>2
<1>12. /\ Payable(start) /\ start.paid = paid[debtor] /\ start.due = receivables
  <2>1. debtor \in Owners /\ paid[debtor] \in Nat /\ IsDue(receivables)
    BY <1>5 DEF Owners, MoneyHold
  <2> HIDE DEF debtor
  <2> QED
    BY <1>1, <2>1 DEF Payable
<1>13. \A i \in 1..4 : IsAward(awards[i])
  BY <1>3, <1>4, AwardsHold
<1>14. awards[1][2] + awards[2][2] + awards[3][2] + awards[4][2] = Penal(crimes, r)
  <2> DEFINE victim == IF w.crime = 0 THEN NoOne ELSE crimes[w.crime].victim
             costs == Cfg.loser_pays /\ j.verdict \in {"guilty", "liable"}
  <2>1. /\ awards[1][2] = j.fine /\ awards[2][2] = j.damages
        /\ awards[3][2] = (IF victim = NoOne THEN 0 ELSE j.restitution)
        /\ awards[4][2] = (IF costs THEN Cfg.filing_fee ELSE 0)
    BY DEF Awards
  <2>2. (CHOOSE o \in r.judgment : TRUE) = j
    BY <1>6
  <2>3. Penal(crimes, r) = j.fine + j.damages + (IF victim = NoOne THEN 0 ELSE j.restitution)
                             + (IF costs THEN Cfg.filing_fee ELSE 0)
    BY <1>6, <2>2 DEF Penal
  <2> QED
    BY <2>1, <2>3
<1> HIDE DEF awards, start
<1>15. /\ Payable(end)
       /\ end.paid + OwedBy(end.due, debtor) = paid[debtor] + OwedBy(receivables, debtor)
                                                 + Penal(crimes, r)
       /\ \A d : d # debtor => OwedBy(end.due, d) = OwedBy(receivables, d)
  <2>1. end = Penalised(start, debtor, awards)
    BY DEF awards
  <2> HIDE DEF end, debtor
  <2>2. /\ Payable(end)
        /\ end.paid + OwedBy(end.due, debtor)
             = start.paid + OwedBy(start.due, debtor)
                 + (awards[1][2] + awards[2][2] + awards[3][2] + awards[4][2])
        /\ \A d : d # debtor => OwedBy(end.due, d) = OwedBy(start.due, d)
    <3> DEFINE q == Penalised(start, debtor, awards)
    <3>1. debtor \in Agents /\ Payable(start) /\ \A i \in 1..4 : IsAward(awards[i])
      BY <1>5, <1>12, <1>13
    <3>2. /\ Payable(q)
          /\ q.paid + OwedBy(q.due, debtor)
               = start.paid + OwedBy(start.due, debtor)
                   + (awards[1][2] + awards[2][2] + awards[3][2] + awards[4][2])
          /\ \A d : d # debtor => OwedBy(q.due, d) = OwedBy(start.due, d)
      BY <3>1, PenalisedAdds
    <3>3. q = end
      BY <2>1
    <3> HIDE DEF q
    <3> QED
      BY <3>2, <3>3
  <2> QED
    BY <1>12, <1>14, <2>2
<1> HIDE DEF end, debtor
<1>16. MoneyHold'
  <2>1. debtor \in Owners /\ paid \in [Owners -> Nat] /\ end.paid \in Nat
    BY <1>5, <1>15 DEF Owners, MoneyHold, Payable
  <2>2. paid' \in [Owners -> Nat]
    BY <1>11, <2>1
  <2> QED
    BY <1>11, <1>15, <2>2 DEF MoneyHold, Payable
<1>17. ASSUME NEW d \in Agents
       PROVE  paid'[d] + OwedBy(receivables', d)
                = Balance(d) + (IF d = r.defendant THEN Penal(crimes, r) ELSE 0)
  <2>1. d \in Owners /\ paid \in [Owners -> Nat]
    BY DEF Owners, MoneyHold
  <2>2. CASE d = debtor
    <3>1. paid'[d] = end.paid
      BY <1>11, <2>1, <2>2
    <3> QED
      BY <1>5, <1>6, <1>11, <1>15, <2>2, <3>1 DEF Balance
  <2>3. CASE d # debtor
    <3>1. paid'[d] = paid[d] /\ OwedBy(receivables', d) = OwedBy(receivables, d)
      BY <1>11, <1>15, <2>1, <2>3
    <3>2. paid[d] \in Nat /\ OwedBy(receivables, d) \in Int
      <4>1. IsSummable([s \in Debts(receivables, d) |-> receivables[s].outstanding])
        BY DebtsSummable DEF MoneyHold
      <4> QED
        BY <2>1, <4>1, SumIsInt DEF OwedBy
    <3> QED
      BY <1>5, <1>6, <2>3, <3>1, <3>2 DEF Balance
  <2> QED
    BY <2>2, <2>3
<1>18. Penal(crimes, r) \in Nat
  <2>1. /\ awards[1][2] \in Nat /\ awards[2][2] \in Nat /\ awards[3][2] \in Nat
        /\ awards[4][2] \in Nat
    BY <1>13 DEF IsAward
  <2> QED
    BY <1>14, <2>1
<1>19. Convicted(r.defendant, j) /\ Jailed(r.defendant, j) /\ UNCHANGED <<tick, stage, inputs, crimes>>
       /\ tables' = JudgedRows(t, k, w, j)
  <2>1. r.defendant = debtor
    BY <1>5, <1>6
  <2> QED
    BY <1>2, <2>1
<1>20. VerdictOf(k, case, t, j, r)
  BY <1>4, <1>6, <1>7, <1>8, <1>9, <1>10, <1>16, <1>17, <1>18, <1>19 DEF VerdictOf, w
<1> QED
  BY <1>20

LEMMA HearingSteps ==
  ASSUME CasesHold, CrimesHold, MoneyHold, Hearing
  PROVE  DocketSteps /\ MoneyHold' /\ tick' = tick
<1>1. PICK k, case, m, t : HearingOf(k, case, m, t)
  BY HearingIs
<1>2. PICK j, r : VerdictOf(k, case, t, j, r)
  BY <1>1, VerdictIs
<1>3. k \in DOMAIN cases /\ k \in NextOnDocket
  BY <1>1, <1>2 DEF HearingOf, VerdictOf
<1> QED
  BY <1>2, <1>3, OneChanged DEF VerdictOf

\* Filing adds one case, or none where its id is taken.
LEMMA FiledSteps ==
  ASSUME CasesHold, NEW type, NEW filer \in Owners, NEW defendant \in Agents,
         NEW crime \in 0..Len(crimes), NEW cause, NEW claim \in Nat,
         NEW evidence, IsFiniteSet(evidence), crimes \in Seq(Range(crimes)),
         ~HandCharges /\ type = "criminal" =>
                              /\ crime \in DOMAIN crimes /\ ~crimes[crime].investigated
                              /\ crimes'[crime].investigated,
         \/ cases' = Filed(type, filer, defendant, crime, cause, claim, evidence)
         \/ \E strength \in Int : cases' =
              [Filed(type, filer, defendant, crime, cause, claim, evidence)
                 EXCEPT ![CaseKey(filer, defendant)].strength = strength]
  PROVE  DocketSteps
<1> DEFINE f == Filed(type, filer, defendant, crime, cause, claim, evidence)
           key == CaseKey(filer, defendant)
           new == [type |-> type, plaintiff |-> filer, defendant |-> defendant, crime |-> crime,
                   cause |-> cause, claim |-> claim, filed |-> tick, evidence |-> evidence,
                   counsel |-> NoOne, defence |-> NoOne, witnesses |-> {}, admitted |-> {},
                   strength |-> 0, status |-> "open", resolved |-> -1, judgment |-> {}]
<1>1. f = [k \in DOMAIN cases \cup {key} |-> IF k \in DOMAIN cases THEN cases[k] ELSE new]
  BY DEF Filed
<1>2. /\ IsCase(new) /\ new.filed = tick /\ new.status = "open"
      /\ new.type = type /\ new.crime = crime
  <2>1. crime \in Nat
    OBVIOUS
  <2> QED
    BY <2>1 DEF CaseFields, IsCase
<1>3. \A k \in DOMAIN f : IsCase(f[k])
  BY <1>1, <1>2 DEF CasesHold
<1> HIDE DEF f, key, new
<1>4. /\ DOMAIN cases' = DOMAIN cases \cup {key}
      /\ \A k \in DOMAIN cases' : \/ cases'[k] = f[k]
                                  \/ \E strength \in Int : cases'[k] = [f[k] EXCEPT !.strength = strength]
  <2>1. CASE cases' = f
    BY <1>1, <2>1
  <2>2. CASE \E strength \in Int : cases' = [f EXCEPT ![key].strength = strength]
    <3>1. PICK strength \in Int : cases' = [f EXCEPT ![key].strength = strength]
      BY <2>2
    <3> QED
      BY <1>1, <3>1
  <2> QED
    BY <2>1, <2>2 DEF f, key
<1>5. ASSUME NEW k \in DOMAIN cases'
      PROVE  /\ IsCase(cases'[k]) /\ Same(cases'[k], f[k])
             /\ cases'[k].status = f[k].status
             /\ cases'[k].resolved = f[k].resolved /\ cases'[k].judgment = f[k].judgment
  <2>1. IsCase(f[k])
    BY <1>1, <1>3, <1>4
  <2> DEFINE g == f[k]
             c == cases'[k]
  <2>2. c = g \/ \E strength \in Int : c = [g EXCEPT !.strength = strength]
    BY <1>4
  <2>3. IsCase(g)
    BY <2>1
  <2> HIDE DEF g, c
  <2>4. CASE c = g
    BY <2>3, <2>4 DEF Same, g, c
  <2>5. CASE \E strength \in Int : c = [g EXCEPT !.strength = strength]
    <3>1. PICK strength \in Int : c = [g EXCEPT !.strength = strength]
      BY <2>5
    <3>2. DOMAIN g = CaseFields
      BY <2>3 DEF IsCase
    <3>3. /\ DOMAIN c = CaseFields
          /\ c.type = g.type /\ c.crime = g.crime /\ c.filed = g.filed
          /\ c.plaintiff = g.plaintiff /\ c.defendant = g.defendant
          /\ c.claim = g.claim /\ c.strength = strength /\ c.evidence = g.evidence
          /\ c.status = g.status /\ c.resolved = g.resolved /\ c.judgment = g.judgment
      BY <3>1, <3>2 DEF CaseFields
    <3>4. IsCase(c) /\ Same(c, g)
      BY <2>3, <3>3 DEF IsCase, Same
    <3> QED
      BY <3>3, <3>4 DEF g, c
  <2> QED
    BY <2>2, <2>4, <2>5
<1>6. ASSUME NEW k \in DOMAIN cases
      PROVE  Keeps(k)
  <2>1. k \in DOMAIN cases' /\ f[k] = cases[k]
    BY <1>1, <1>4
  <2> QED
    BY <1>5, <2>1 DEF Keeps
<1>7. ASSUME NEW k \in DOMAIN cases' \ DOMAIN cases
      PROVE  IsNew(k) /\ k = key
  <2>1. f[k] = new /\ k = key
    BY <1>1, <1>4
  <2>2. /\ IsCase(cases'[k]) /\ cases'[k].type = type /\ cases'[k].crime = crime
        /\ cases'[k].filed = tick /\ cases'[k].status = "open"
    BY <1>2, <1>5, <2>1 DEF Same
  <2> QED
    BY <2>1, <2>2 DEF IsNew
<1>8. IsFiniteSet(DOMAIN cases')
  BY <1>4, FS_AddElement DEF CasesHold
<1> QED
  BY <1>6, <1>7, <1>8 DEF DocketSteps

LEMMA StrengthHolds ==
  ASSUME NEW E, IsFiniteSet(E)
  PROVE  StrengthOf(E) \in Int
<1> DEFINE f == [e \in E |-> Directness(e)]
           n == Cardinality(E)
           corroboration == 10 + 2 * (IF n = 0 THEN 0 ELSE n - 1)
           x == SumOf(f) * corroboration
           d == 10 * Cfg.strength_norm
<1>1. \A e \in E : Directness(e) \in Int
  BY DEF Directness
<1>2. SumOf(f) \in Int
  <2>1. IsSummable(f)
    BY <1>1 DEF IsSummable
  <2> QED
    BY <2>1, SumIsInt
<1>3. n \in Nat
  BY FS_CardinalityType
<1>4. StrengthOf(E) = Least(10, x \div d)
  BY DEF StrengthOf
<1>5. x \in Int
  <2>1. corroboration \in Int
    BY <1>3
  <2> HIDE DEF corroboration, f
  <2> QED
    BY <1>2, <2>1
<1>6. d \in Nat \ {0}
  BY SettingsAssumption
<1> HIDE DEF x, d
<1>7. x \div d \in Int
  BY <1>5, <1>6
<1> QED
  BY <1>4, <1>7 DEF Least

LEMMA EvidenceOfHolds ==
  ASSUME NEW c
  PROVE  IsFiniteSet(EvidenceOf(c)) /\ StrengthOf(EvidenceOf(c)) \in Int
<1>1. IsFiniteSet(DOMAIN Evidence)
  <2>1. Evidence \in Seq(ToSet(Evidence))
    BY LawAssumption
  <2>2. DOMAIN Evidence = 1..Len(Evidence) /\ Len(Evidence) \in Nat
    BY <2>1
  <2>3. IsFiniteSet(1..Len(Evidence))
    BY <2>2, FS_Interval
  <2> QED
    BY <2>2, <2>3
<1>2. EvidenceOf(c) \subseteq DOMAIN Evidence
  BY DEF EvidenceOf
<1>3. IsFiniteSet(EvidenceOf(c))
  BY <1>1, <1>2, FS_Subset
<1> QED
  BY <1>3, StrengthHolds

\* No step changes what a case is about or closes one twice, and at most one is new.
LEMMA CaseStep ==
  ASSUME CasesHold, CrimesHold, MoneyHold, Next
  PROVE  DocketSteps /\ tick' \in {tick, tick + 1}
<1>1. CASE cases' = cases
  <2>1. tick' \in {tick, tick + 1}
    <3>1. CASE HearWithoutDefender \/ HearWithDefender
      BY <3>1, HearKeeps DEF HearWithoutDefender, HearWithDefender
    <3>2. CASE ~(HearWithoutDefender \/ HearWithDefender)
      BY <3>2 DEF Next, CommitCrime, TradeInside, DefaultFunded, Report, FileSuit, Retain, Testify,
         Settle, PayAndGarnish, EndActions, run_hazard, Investigate, EndQueue, release_due,
         DefenderUnpaid, EndSession, NextTick, Ended, Acts, vars
    <3> QED
      BY <3>1, <3>2
  <2> QED
    BY <1>1, <2>1, Untouched
<1>2. CASE \E s \in Suits : FileSuit(s)
  <2>1. PICK s \in Suits : FileSuit(s)
    BY <1>2
  <2>2. /\ cases' = Filed(s[7], s[1], s[2], s[5], s[3], s[4], s[6]) /\ tick' = tick
        /\ s[7] = "criminal" => s[1] = Chief
    BY <2>1 DEF FileSuit, File, Acts
  <2>3. ~HandCharges => s[7] # "criminal"
    BY <2>2 DEF HandCharges
  <2>4. /\ s[1] \in Owners /\ s[2] \in Agents /\ s[4] \in Nat /\ s[5] \in Nat
        /\ IsFiniteSet(s[6])
    BY InputAssumption DEF Owners
  <2>5. s[5] \in 0..Len(crimes) /\ crimes \in Seq(Range(crimes))
    <3>1. s[5] <= Len(crimes)
      BY <2>1 DEF FileSuit
    <3>2. crimes \in Seq(Range(crimes))
      BY DEF CrimesHold
    <3>3. Len(crimes) \in Nat
      BY <3>2
    <3> QED
      BY <2>4, <3>1, <3>2, <3>3
  <2> QED
    BY <2>2, <2>3, <2>4, <2>5, FiledSteps
<1>3. CASE \E k \in DOMAIN cases, l \in DOMAIN Lawyers, a \in Clients : Retain(a, k, l)
  <2>1. PICK k \in DOMAIN cases, l \in DOMAIN Lawyers, a \in Clients : Retain(a, k, l)
    BY <1>3
  <2>2. cases' = [cases EXCEPT ![k] = Retained(k, a, l)] /\ tick' = tick
    BY <2>1 DEF Retain, Acts
  <2>3. IsCase(cases[k])
    BY DEF CasesHold
  <2> QED
    BY <2>2, <2>3, RetainedKeeps, OneChanged
<1>4. CASE \E k \in DOMAIN cases, w \in Testimony : Testify(w[1], k, w[2])
  <2>1. PICK k \in DOMAIN cases, w \in Testimony : Testify(w[1], k, w[2])
    BY <1>4
  <2> DEFINE r == [cases[k] EXCEPT !.witnesses = @ \cup {w[1]}]
  <2>2. cases' = [cases EXCEPT ![k] = r] /\ tick' = tick
    BY <2>1 DEF Testify, Acts
  <2>3. IsCase(cases[k])
    BY DEF CasesHold
  <2>4. /\ IsCase(r) /\ Same(r, cases[k]) /\ r.status = cases[k].status
        /\ r.resolved = cases[k].resolved /\ r.judgment = cases[k].judgment
    BY <2>3 DEF CaseFields, IsCase, Same
  <2> HIDE DEF r
  <2> QED
    BY <2>2, <2>4, OneChanged
<1>5. CASE \E k \in DOMAIN cases, o \in Offers : Settle(o[1], k, o[2])
  <2>1. PICK k \in DOMAIN cases, o \in Offers : Settle(o[1], k, o[2])
    BY <1>5
  <2> DEFINE r == [cases[k] EXCEPT !.status = "settled", !.resolved = tick]
  <2>2. cases' = [cases EXCEPT ![k] = r] /\ tick' = tick /\ cases[k].status = "open"
    BY <2>1 DEF Settle, Acts
  <2>3. IsCase(cases[k]) /\ cases[k].filed \in 0..tick /\ tick \in Nat
    BY DEF CasesHold
  <2>4. /\ IsCase(r) /\ Same(r, cases[k]) /\ r.status = "settled" /\ r.resolved = tick
    BY <2>2, <2>3 DEF CaseFields, IsCase, Same
  <2> HIDE DEF r
  <2> QED
    BY <2>2, <2>4, OneChanged
<1>6. CASE \E c \in DOMAIN crimes : Investigate(c)
  <2>1. PICK c \in DOMAIN crimes : Investigate(c)
    BY <1>6
  <2>2. CASE cases' = cases
    BY <1>1, <2>2
  <2>3. CASE cases' # cases
    <3>1. PICK strength \in Int : FileCriminal(c, EvidenceOf(c), strength)
      BY <2>1, <2>3, EvidenceOfHolds DEF Investigate
    <3>2. cases' = [Filed("criminal", Chief, crimes[c].perpetrator, c, crimes[c].type,
                          crimes[c].amount, EvidenceOf(c))
                      EXCEPT ![CaseKey(Chief, crimes[c].perpetrator)].strength = strength]
      BY <3>1 DEF FileCriminal
    <3>3. tick' = tick /\ ~crimes[c].investigated /\ crimes' = [crimes EXCEPT ![c].investigated = TRUE]
      BY <2>1 DEF Investigate, Queue, CloseFile
    <3>4. crimes'[c].investigated
      BY <3>3 DEF CrimesHold, IsCrime, CrimeFields
    <3>5. /\ Chief \in Owners /\ crimes[c].perpetrator \in Agents /\ crimes[c].amount \in Nat
          /\ IsFiniteSet(EvidenceOf(c))
      BY LawAssumption, EvidenceOfHolds DEF CrimesHold, IsCrime
    <3>6. c \in 0..Len(crimes) /\ crimes \in Seq(Range(crimes))
      <4>1. crimes \in Seq(Range(crimes))
        BY DEF CrimesHold
      <4>2. DOMAIN crimes = 1..Len(crimes)
        BY <4>1
      <4> QED
        BY <4>1, <4>2
    <3> QED
      BY <3>2, <3>3, <3>4, <3>5, <3>6, FiledSteps
  <2> QED
    BY <2>2, <2>3
<1>7. CASE Hearing
  BY <1>7, HearingSteps
<1> QED
  BY <1>1, <1>2, <1>3, <1>4, <1>5, <1>6, <1>7 DEF Next, Hearing, CommitCrime, TradeInside,
     DefaultFunded, Report, PayAndGarnish, EndActions, run_hazard, EndQueue, release_due,
     DefenderUnpaid, EndSession, NextTick, Ended, vars

-----------------------------------------------------------------------------
(* The accounts *)

Balanced == \A d \in Agents : paid'[d] + OwedBy(receivables', d) = Balance(d)

LEMMA PaidOff ==
  ASSUME MoneyHold, NEW payer \in Owners, NEW payee, NEW cents \in Nat,
         cents <= compatible_balance(money, payer, payee),
         money' = Transfer(money, payer, payee, cents), paid' = paid, receivables' = receivables
  PROVE  MoneyHold' /\ Balanced
<1>1. money \in [Owners -> Nat]
  BY DEF MoneyHold
<1>2. /\ compatible_balance(money, payer, payee) \in Nat /\ money[payer] \in Nat
      /\ compatible_balance(money, payer, payee) <= money[payer]
  BY <1>1, BalanceHolds
<1>3. cents <= money[payer]
  BY <1>2
<1>4. Transfer(money, payer, payee, cents) \in [Owners -> Nat]
  BY <1>1, <1>3, TransferHolds
<1> QED
  BY <1>4 DEF MoneyHold, Balanced, Balance

LEMMA NothingPaid ==
  ASSUME MoneyHold, money' = money, paid' = paid, receivables' = receivables
  PROVE  MoneyHold' /\ Balanced
BY DEF MoneyHold, Balanced, Balance

\* The payroll pays off what it garnishes.
LEMMA GarnishmentPays ==
  ASSUME MoneyHold, NEW a \in Agents, NEW income \in Nat, PayAndGarnish(a, income)
  PROVE  MoneyHold' /\ Balanced
<1> DEFINE owed == {r \in DOMAIN receivables :
                      receivables[r].debtor = a /\ receivables[r].outstanding > 0}
           start == [money |-> [money EXCEPT ![a] = @ + income], due |-> receivables,
                     cap |-> GarnishCap(income), paid |-> paid[a]]
           mine == {r \in DOMAIN start.due : start.due[r].debtor = a}
<1>1. PICK order \in SetToSeqs(owed) :
        \E end \in {Garnished(start, order)} :
          money' = end.money /\ receivables' = end.due /\ paid' = [paid EXCEPT ![a] = end.paid]
  BY DEF PayAndGarnish
<1> DEFINE end == Garnished(start, order)
           n == Cardinality(owed)
<1>2. money' = end.money /\ receivables' = end.due /\ paid' = [paid EXCEPT ![a] = end.paid]
  BY <1>1
<1>3. order \in [1..n -> owed]
  BY DEF SetToSeqs
<1>4. n \in Nat
  <2>1. DOMAIN receivables = 1..Len(receivables) /\ Len(receivables) \in Nat
    BY DebtsSummable DEF MoneyHold
  <2>2. IsFiniteSet(1..Len(receivables))
    BY <2>1, FS_Interval
  <2>3. owed \subseteq 1..Len(receivables)
    BY <2>1
  <2> HIDE DEF owed
  <2> QED
    BY <2>2, <2>3, FS_Subset, FS_CardinalityType
<1>5. order \in [1..n -> mine]
  <2>1. owed \subseteq mine
    OBVIOUS
  <2> HIDE DEF owed, mine, n
  <2> QED
    BY <1>3, <2>1
<1>6. Garnishing(start, start, a)
  <2>1. a \in Owners /\ money \in [Owners -> Nat] /\ paid[a] \in Nat /\ IsDue(receivables)
    BY DEF MoneyHold, Owners
  <2>2. [money EXCEPT ![a] = @ + income] \in [Owners -> Nat]
    BY <2>1
  <2>3. GarnishCap(income) \in Nat
    <3> DEFINE x == income * Cfg.garnishment_tenths
    <3>1. x \in Nat
      BY SettingsAssumption
    <3>2. GarnishCap(income) = (x + 5) \div 10
      BY DEF GarnishCap
    <3> HIDE DEF x
    <3> QED
      BY <3>1, <3>2
  <2>4. Payable(start) /\ start.cap \in Nat
    BY <2>1, <2>2, <2>3 DEF Payable
  <2>5. DOMAIN start = {"money", "due", "cap", "paid"}
    OBVIOUS
  <2> HIDE DEF start
  <2> QED
    BY <2>4, <2>5 DEF Garnishing
<1>7. start.due = receivables /\ start.paid = paid[a]
  OBVIOUS
<1> HIDE DEF start, n
<1>8. Garnishing(end, start, a)
  <2> HIDE DEF mine, end
  <2>1. Garnishing(Garnished(start, order), start, a)
    BY <1>4, <1>5, <1>6, GarnishedKeeps DEF mine
  <2> QED
    BY <2>1 DEF end
<1> HIDE DEF end
<1>9. /\ end.money \in [Owners -> Nat] /\ IsDue(end.due) /\ end.paid \in Nat
      /\ end.paid + OwedBy(end.due, a) = paid[a] + OwedBy(receivables, a)
      /\ \A d : d # a => OwedBy(end.due, d) = OwedBy(receivables, d)
  BY <1>7, <1>8 DEF Garnishing, Payable
<1>10. a \in Owners /\ paid \in [Owners -> Nat]
  BY DEF Owners, MoneyHold
<1>11. MoneyHold'
  BY <1>2, <1>9, <1>10 DEF MoneyHold
<1>12. ASSUME NEW d \in Agents
       PROVE  paid'[d] + OwedBy(receivables', d) = Balance(d)
  <2>1. d \in Owners
    BY DEF Owners
  <2>2. CASE d = a
    BY <1>2, <1>9, <1>10, <2>1, <2>2 DEF Balance
  <2>3. CASE d # a
    BY <1>2, <1>9, <1>10, <2>1, <2>3 DEF Balance
  <2> QED
    BY <2>2, <2>3
<1> QED
  BY <1>11, <1>12 DEF Balanced

\* Outside of the hearings, what is paid and owed together stays.
LEMMA MoneyStep ==
  ASSUME CasesHold, CrimesHold, MoneyHold, Next
  PROVE  MoneyHold' /\ (Hearing \/ Balanced)
<1>1. CASE Hearing
  BY <1>1, HearingSteps
<1>2. CASE \E o \in Offences : CommitCrime(o)
  <2>1. PICK o \in Offences : CommitCrime(o)
    BY <1>2
  <2> DEFINE taken == Stolen(o[2], o[1], o[3], o[4])
  <2>2. o[3] \in Agents \cup {NoOne} /\ o[4] \in Nat
    BY InputAssumption
  <2>3. /\ taken \in Nat
        /\ taken > 0 => o[3] \in Owners /\ taken <= compatible_balance(money, o[3], o[1])
    BY <2>2, StolenHolds
  <2>4. /\ money' = IF taken > 0 THEN Transfer(money, o[3], o[1], taken) ELSE money
        /\ paid' = paid /\ receivables' = receivables
    BY <2>1 DEF CommitCrime, debtVars
  <2> HIDE DEF taken
  <2>5. CASE taken > 0
    BY <2>3, <2>4, <2>5, PaidOff
  <2>6. CASE ~(taken > 0)
    BY <2>4, <2>6, NothingPaid
  <2> QED
    BY <2>5, <2>6
<1>3. CASE \E s \in Suits : FileSuit(s)
  <2>1. PICK s \in Suits : FileSuit(s)
    BY <1>3
  <2> DEFINE fee == IF s[7] = "criminal" THEN 0 ELSE FilingFee(s[1])
  <2>2. s[1] \in Owners
    BY InputAssumption DEF Owners
  <2>3. fee \in Nat
    BY SettingsAssumption DEF FilingFee
  <2>4. /\ fee > 0 => compatible_balance(money, s[1], Government) >= fee
        /\ money' = Transfer(money, s[1], Government, fee)
        /\ paid' = paid /\ receivables' = receivables
    BY <2>1 DEF FileSuit, can_pay, debtVars
  <2> HIDE DEF fee
  <2>5. fee <= compatible_balance(money, s[1], Government)
    <3>1. compatible_balance(money, s[1], Government) \in Nat
      BY <2>2, BalanceHolds DEF MoneyHold
    <3> QED
      BY <2>3, <2>4, <3>1
  <2> QED
    BY <2>2, <2>3, <2>4, <2>5, PaidOff
<1>4. CASE \E k \in DOMAIN cases, l \in DOMAIN Lawyers, a \in Clients : Retain(a, k, l)
  <2>1. PICK k \in DOMAIN cases, l \in DOMAIN Lawyers, a \in Clients : Retain(a, k, l)
    BY <1>4
  <2>2. a \in Owners /\ Lawyers[l].fee \in Nat
    BY InputAssumption, LawAssumption DEF Owners
  <2>3. /\ compatible_balance(money, a, l) >= Lawyers[l].fee
        /\ money' = Transfer(money, a, l, Lawyers[l].fee)
        /\ paid' = paid /\ receivables' = receivables
    BY <2>1 DEF Retain, can_pay, debtVars
  <2>4. Lawyers[l].fee <= compatible_balance(money, a, l)
    <3>1. compatible_balance(money, a, l) \in Nat
      BY <2>2, BalanceHolds DEF MoneyHold
    <3> QED
      BY <2>2, <2>3, <3>1
  <2> QED
    BY <2>2, <2>3, <2>4, PaidOff
<1>5. CASE \E k \in DOMAIN cases, o \in Offers : Settle(o[1], k, o[2])
  <2>1. PICK k \in DOMAIN cases, o \in Offers : Settle(o[1], k, o[2])
    BY <1>5
  <2> DEFINE amount == Least(o[2], cases[k].claim)
  <2>2. o[1] \in Owners /\ o[2] \in Nat /\ cases[k].claim \in Nat
    BY InputAssumption DEF Owners, CasesHold, IsCase
  <2>3. /\ compatible_balance(money, o[1], cases[k].plaintiff) >= o[2]
        /\ money' = Transfer(money, o[1], cases[k].plaintiff, amount)
        /\ paid' = paid /\ receivables' = receivables
    BY <2>1 DEF Settle, can_pay, debtVars
  <2>4. amount \in Nat /\ amount <= o[2]
    BY <2>2 DEF Least
  <2> HIDE DEF amount
  <2>5. amount <= compatible_balance(money, o[1], cases[k].plaintiff)
    <3>1. compatible_balance(money, o[1], cases[k].plaintiff) \in Nat
      BY <2>2, BalanceHolds DEF MoneyHold
    <3> QED
      BY <2>2, <2>3, <2>4, <3>1
  <2> QED
    BY <2>2, <2>3, <2>4, <2>5, PaidOff
<1>6. CASE \E i \in Incomes : PayAndGarnish(i[1], i[2])
  <2>1. PICK i \in Incomes : PayAndGarnish(i[1], i[2])
    BY <1>6
  <2>2. i[1] \in Agents /\ i[2] \in Nat
    BY InputAssumption
  <2> QED
    BY <2>1, <2>2, GarnishmentPays
<1>7. ASSUME \/ \E t \in Trades : TradeInside(t)
             \/ \E a \in Agents : DefaultFunded(a)
             \/ \E c \in DOMAIN crimes, r \in Agents : Report(r, c)
             \/ \E k \in DOMAIN cases, w \in Testimony : Testify(w[1], k, w[2])
             \/ EndActions \/ run_hazard \/ (\E c \in DOMAIN crimes : Investigate(c))
             \/ EndQueue \/ release_due \/ DefenderUnpaid \/ EndSession \/ NextTick \/ Ended
      PROVE  money' = money /\ paid' = paid /\ receivables' = receivables
  BY <1>7 DEF TradeInside, DefaultFunded, Report, Testify, EndActions, run_hazard, Investigate,
     EndQueue, release_due, DefenderUnpaid, EndSession, NextTick, Ended, debtVars, vars
<1> QED
  BY <1>1, <1>2, <1>3, <1>4, <1>5, <1>6, <1>7, NothingPaid DEF Next, Hearing

-----------------------------------------------------------------------------
(* The invariant *)

LEMMA CasesStayHeld ==
  ASSUME IInv, Next
  PROVE  CasesHold'
<1>1. DocketSteps /\ tick \in Nat /\ tick' \in {tick, tick + 1}
  BY CaseStep DEF IInv, CasesHold
<1>3. Len(crimes) \in Nat /\ Len(crimes') \in Nat /\ Len(crimes) <= Len(crimes')
  <2>1. CrimesHold' /\ \A c \in DOMAIN crimes : Persists(c)
    BY CrimesStep DEF IInv
  <2>2. crimes \in Seq(Range(crimes)) /\ crimes' \in Seq(Range(crimes'))
    BY <2>1 DEF IInv, CrimesHold
  <2>3. /\ Len(crimes) \in Nat /\ DOMAIN crimes = 1..Len(crimes)
        /\ Len(crimes') \in Nat /\ DOMAIN crimes' = 1..Len(crimes')
    BY <2>2
  <2>4. Len(crimes) > 0 => Len(crimes) \in DOMAIN crimes'
    BY <2>1, <2>3 DEF Persists
  <2> QED
    BY <2>3, <2>4
<1>2. ASSUME NEW k \in DOMAIN cases'
      PROVE  /\ IsCase(cases'[k]) /\ cases'[k].filed \in 0..tick'
             /\ cases'[k].resolved \in -1..tick' /\ cases'[k].crime \in 0..Len(crimes')
  <2>1. CASE k \in DOMAIN cases
    <3>1. /\ Keeps(k) /\ cases[k].filed \in 0..tick /\ cases[k].resolved \in -1..tick
          /\ cases[k].crime \in 0..Len(crimes)
      BY <1>1, <2>1 DEF DocketSteps, IInv, CasesHold
    <3>2. cases'[k].crime \in 0..Len(crimes')
      BY <1>3, <3>1 DEF Keeps, Same
    <3> QED
      BY <1>1, <3>1, <3>2 DEF Keeps, Same
  <2>2. CASE k \notin DOMAIN cases
    <3>1. IsNew(k)
      BY <1>1, <2>2 DEF DocketSteps
    <3>2. cases'[k].resolved = -1
      BY <3>1 DEF IsNew, IsCase
    <3>3. cases'[k].crime \in 0..Len(crimes')
      BY <1>3, <3>1 DEF IsNew
    <3> QED
      BY <1>1, <3>1, <3>2, <3>3 DEF IsNew
  <2> QED
    BY <2>1, <2>2
<1> QED
  BY <1>1, <1>2 DEF CasesHold, DocketSteps

LEMMA ChargesStayHeld ==
  ASSUME IInv, Next
  PROVE  ChargesHold' /\ ChargesKnown'
<1> SUFFICES ASSUME ~HandCharges
             PROVE  ChargesHold' /\ ChargesKnown'
  BY DEF ChargesHold, ChargesKnown, HandCharges
<1>1. DocketSteps /\ \A c \in DOMAIN crimes : Persists(c)
  BY CaseStep, CrimesStep DEF IInv
<1> DEFINE Charged(k, c) == cases'[k].type = "criminal" /\ cases'[k].crime = c
<1>2. ASSUME NEW k \in DOMAIN cases', NEW c, Charged(k, c)
      PROVE  /\ c \in DOMAIN crimes /\ c \in DOMAIN crimes' /\ crimes'[c].investigated
             /\ k \in DOMAIN cases => Charges(k, c) /\ crimes[c].investigated
             /\ k \notin DOMAIN cases => ~crimes[c].investigated
  <2>1. CASE k \in DOMAIN cases
    <3>1. Charges(k, c)
      BY <1>1, <1>2, <2>1 DEF DocketSteps, Keeps, Charges, Same
    <3>2. c \in DOMAIN crimes
      BY <2>1, <3>1 DEF IInv, ChargesKnown, Charges
    <3>3. crimes[c].investigated
      BY <2>1, <3>1, <3>2 DEF IInv, ChargesHold
    <3> QED
      BY <1>1, <2>1, <3>1, <3>2, <3>3 DEF Persists
  <2>2. CASE k \notin DOMAIN cases
    <3>1. IsNew(k)
      BY <1>1, <2>2 DEF DocketSteps
    <3>2. c \in DOMAIN crimes /\ ~crimes[c].investigated /\ crimes'[c].investigated
      BY <1>2, <3>1 DEF IsNew
    <3> QED
      BY <1>1, <2>2, <3>2 DEF Persists
  <2> QED
    BY <2>1, <2>2
<1>3. ASSUME NEW k \in DOMAIN cases', NEW l \in DOMAIN cases', NEW c,
             Charged(k, c), Charged(l, c)
      PROVE  l = k
  <2>1. c \in DOMAIN crimes
    BY <1>2, <1>3
  <2>2. CASE k \in DOMAIN cases /\ l \in DOMAIN cases
    <3>1. Charges(k, c) /\ Charges(l, c)
      BY <1>2, <1>3, <2>2
    <3> QED
      BY <2>1, <2>2, <3>1 DEF IInv, ChargesHold
  <2>3. CASE k \notin DOMAIN cases /\ l \notin DOMAIN cases
    BY <1>1, <2>3 DEF DocketSteps
  <2>4. CASE k \in DOMAIN cases /\ l \notin DOMAIN cases
    BY <1>2, <1>3, <2>4
  <2>5. CASE k \notin DOMAIN cases /\ l \in DOMAIN cases
    BY <1>2, <1>3, <2>5
  <2> QED
    BY <2>2, <2>3, <2>4, <2>5
<1>4. ChargesHold'
  BY <1>2, <1>3 DEF ChargesHold, Charges
<1>5. ChargesKnown'
  BY <1>2 DEF ChargesKnown
<1> QED
  BY <1>4, <1>5

LEMMA OrderStays ==
  ASSUME IInv, Next
  PROVE  OldestFirst'
<1>1. DocketSteps /\ tick \in Nat /\ CasesHold
  BY CaseStep DEF IInv, CasesHold
<1>2. ASSUME NEW k \in DOMAIN cases', cases'[k].status = "open",
             NEW o \in DOMAIN cases', cases'[o].status = "resolved",
             cases'[o].resolved >= cases'[k].filed
      PROVE  cases'[o].filed <= cases'[k].filed
  <2>1. o \in DOMAIN cases /\ Keeps(o) /\ cases[o].filed \in 0..tick /\ cases[o].resolved \in -1..tick
    BY <1>1, <1>2 DEF DocketSteps, IsNew, CasesHold
  <2>2. CASE k \notin DOMAIN cases
    <3>1. cases'[k].filed = tick /\ cases'[o].filed = cases[o].filed
      BY <1>1, <2>1, <2>2 DEF DocketSteps, IsNew, Keeps, Same
    <3> QED
      BY <1>1, <2>1, <3>1
  <2>3. CASE k \in DOMAIN cases
    <3>1. Keeps(k) /\ cases[k].filed \in 0..tick
      BY <1>1, <2>3 DEF DocketSteps, CasesHold
    <3>2. k \in OpenCases /\ cases'[k].filed = cases[k].filed
      BY <1>2, <2>3, <3>1 DEF Keeps, OpenCases, Same
    <3>3. CASE cases[o].status = "resolved"
      <4>1. cases'[o].resolved = cases[o].resolved /\ cases'[o].filed = cases[o].filed
        BY <2>1, <3>3 DEF Keeps, Same
      <4>2. cases[o].resolved >= cases[k].filed
        BY <1>2, <3>2, <4>1
      <4>3. cases[o].filed <= cases[k].filed
        BY <2>1, <3>2, <3>3, <4>2 DEF IInv, OldestFirst
      <4> QED
        BY <3>2, <4>1, <4>3
    <3>4. CASE cases[o].status # "resolved"
      <4>1. o \in NextOnDocket /\ cases'[o].filed = cases[o].filed
        BY <1>2, <2>1, <3>4 DEF Keeps, Same
      <4>2. cases[o].filed <= cases[k].filed
        BY <3>2, <4>1 DEF NextOnDocket
      <4> QED
        BY <3>2, <4>1, <4>2
    <3> QED
      BY <3>3, <3>4
  <2> QED
    BY <2>2, <2>3
<1> QED
  BY <1>2 DEF OldestFirst, OpenCases

LEMMA DocketOpens ==
  ASSUME Init
  PROVE  IInv
<1>1. CasesHold
  BY FS_EmptySet DEF Init, CasesHold
<1>2. CrimesHold /\ ChargesHold /\ ChargesKnown /\ OldestFirst
  BY DEF Init, CrimesHold, ChargesHold, ChargesKnown, OldestFirst, OpenCases, Range
<1>3. MoneyHold
  BY LawAssumption DEF Init, MoneyHold, IsDue
<1> QED
  BY <1>1, <1>2, <1>3 DEF IInv

LEMMA DocketStays ==
  ASSUME IInv, [Next]_vars
  PROVE  IInv'
<1>1. CASE Next
  BY <1>1, CasesStayHeld, ChargesStayHeld, OrderStays, CrimesStep, MoneyStep DEF IInv
<1>2. CASE UNCHANGED vars
  BY <1>2 DEF IInv, CasesHold, CrimesHold, MoneyHold, ChargesHold, Charges, ChargesKnown,
     OldestFirst, OpenCases, vars
<1> QED
  BY <1>1, <1>2

LEMMA InvariantHolds == Spec => []IInv
BY DocketOpens, DocketStays, PTL DEF Spec

\* The courts work their backlog off in the order of filing, and the police charges a crime at
\* most once, whatever is filed, settled or testified in between (hold_session, process_queue).
THEOREM DocketStaysInOrder == Spec => []DocketInOrder
<1>1. IInv => DocketInOrder
  <2> SUFFICES ASSUME IInv
               PROVE  ChargedOnce
    BY DEF DocketInOrder, IInv
  <2> SUFFICES ASSUME ~HandCharges
               PROVE  ChargedOnce
    BY DEF ChargedOnce
  <2> SUFFICES ASSUME NEW c \in DOMAIN crimes
               PROVE  Cardinality({k \in DOMAIN cases : cases[k].type = "criminal"
                                                        /\ cases[k].crime = c}) <= 1
    BY DEF ChargedOnce
  <2> DEFINE K == {k \in DOMAIN cases : cases[k].type = "criminal" /\ cases[k].crime = c}
  <2>1. \A k, l \in K : l = k
    BY DEF IInv, ChargesHold, Charges
  <2> HIDE DEF K
  <2>2. CASE K = {}
    <3>1. Cardinality(K) = 0
      BY <2>2, FS_EmptySet
    <3> QED
      BY <3>1 DEF K
  <2>3. CASE K # {}
    <3>1. PICK k : k \in K
      BY <2>3
    <3>3. K = {k}
      BY <2>1, <3>1
    <3>2. Cardinality(K) = 1
      BY <3>3, FS_Singleton
    <3> QED
      BY <3>2 DEF K
  <2> QED
    BY <2>2, <2>3
<1> QED
  BY <1>1, InvariantHolds, PTL

\* What was settled or judged is neither tried again nor settled again (settle, hold_session),
\* also where a later case is given the id of a closed one (file).
THEOREM ClosedCasesStay == Spec => ClosedIsFinal
<1>1. ASSUME IInv, [Next]_vars
      PROVE  [\A k \in DOMAIN cases : cases[k].status # "open" =>
                /\ cases'[k].status = cases[k].status
                /\ cases'[k].judgment = cases[k].judgment]_vars
  <2>1. CASE UNCHANGED vars
    BY <2>1
  <2>2. CASE Next
    <3>1. DocketSteps
      BY <1>1, <2>2, CaseStep DEF IInv
    <3> QED
      BY <3>1 DEF DocketSteps, Keeps
  <2> QED
    BY <1>1, <2>1, <2>2
<1> QED
  BY <1>1, InvariantHolds, PTL DEF Spec, ClosedIsFinal

-----------------------------------------------------------------------------
(* Penalties and records *)

LEMMA PenaltyIs ==
  ASSUME NEW case
  PROVE  Penalty(case) = Penal(crimes, case)
<1> DEFINE j == CHOOSE j \in case.judgment : TRUE
           a == Awards(case, j)
           victim == IF case.crime = 0 THEN NoOne ELSE crimes[case.crime].victim
           costs == Cfg.loser_pays /\ j.verdict \in {"guilty", "liable"}
<1>1. /\ a[1][2] = j.fine /\ a[2][2] = j.damages
      /\ a[3][2] = (IF victim = NoOne THEN 0 ELSE j.restitution)
      /\ a[4][2] = (IF costs THEN Cfg.filing_fee ELSE 0)
  BY DEF Awards
<1>2. Penalty(case) = a[1][2] + a[2][2] + a[3][2] + a[4][2]
  BY DEF Penalty
<1>3. Penal(crimes, case) = j.fine + j.damages + (IF victim = NoOne THEN 0 ELSE j.restitution)
                              + (IF costs THEN Cfg.filing_fee ELSE 0)
  BY DEF Penal
<1> QED
  BY <1>1, <1>2, <1>3

LEMMA PenalHolds ==
  ASSUME NEW case, IsCase(case), case.status = "resolved", NEW all
  PROVE  Penal(all, case) \in Nat
<1>1. PICK j : case.judgment = {j} /\ IsJudgment(j)
  BY DEF IsCase
<1> DEFINE o == CHOOSE o \in case.judgment : TRUE
           victim == IF case.crime = 0 THEN NoOne ELSE all[case.crime].victim
           costs == Cfg.loser_pays /\ o.verdict \in {"guilty", "liable"}
<1>2. o = j
  BY <1>1
<1>3. Penal(all, case) = o.fine + o.damages + (IF victim = NoOne THEN 0 ELSE o.restitution)
                           + (IF costs THEN Cfg.filing_fee ELSE 0)
  BY DEF Penal
<1> HIDE DEF o, victim, costs
<1>4. o.fine \in Nat /\ o.damages \in Nat /\ o.restitution \in Nat /\ Cfg.filing_fee \in Nat
  BY <1>1, <1>2, SettingsAssumption DEF IsJudgment
<1> QED
  BY <1>3, <1>4

\* The convictions of a.
Convictions(a) ==
  {k \in DOMAIN cases : cases[k].defendant = a /\ \E j \in cases[k].judgment : j.verdict = "guilty"}

\* A judgment once rendered costs what it costs.
LEMMA PenalStays ==
  ASSUME IInv, Next, NEW k \in DOMAIN cases, cases[k].status = "resolved"
  PROVE  Penal(crimes', cases'[k]) = Penal(crimes, cases[k])
<1>1. Keeps(k) /\ \A c \in DOMAIN crimes : Persists(c)
  BY CaseStep, CrimesStep DEF IInv, DocketSteps
<1> DEFINE r == cases'[k]
           s == cases[k]
<1>2. r.judgment = s.judgment /\ r.crime = s.crime
  BY <1>1 DEF Keeps, Same
<1>3. s.crime = 0 \/ s.crime \in DOMAIN crimes
  <2>1. crimes \in Seq(Range(crimes)) /\ s.crime \in 0..Len(crimes)
    BY DEF IInv, CrimesHold, CasesHold
  <2>2. DOMAIN crimes = 1..Len(crimes) /\ Len(crimes) \in Nat
    BY <2>1
  <2> QED
    BY <2>1, <2>2
<1>4. s.crime # 0 => crimes'[s.crime].victim = crimes[s.crime].victim
  BY <1>1, <1>3 DEF Persists
<1> HIDE DEF r, s
<1>5. Penal(crimes', r) = Penal(crimes, s)
  BY <1>2, <1>4 DEF Penal
<1> QED
  BY <1>5 DEF r, s

LEMMA JudgedTyped ==
  ASSUME IInv, NEW d
  PROVE  /\ IsFiniteSet(JudgedAgainst(d)) /\ JudgedAgainst(d) \subseteq DOMAIN cases
         /\ IsSummable([k \in JudgedAgainst(d) |-> Penal(crimes, cases[k])])
<1>1. IsFiniteSet(DOMAIN cases) /\ \A k \in DOMAIN cases : IsCase(cases[k])
  BY DEF IInv, CasesHold
<1>2. JudgedAgainst(d) \subseteq DOMAIN cases
  BY DEF JudgedAgainst
<1>3. IsFiniteSet(JudgedAgainst(d))
  BY <1>1, <1>2, FS_Subset
<1>4. \A k \in JudgedAgainst(d) : Penal(crimes, cases[k]) \in Int
  <2>1. \A k \in JudgedAgainst(d) : IsCase(cases[k]) /\ cases[k].status = "resolved"
    BY <1>1 DEF JudgedAgainst
  <2>2. \A k \in JudgedAgainst(d) : Penal(crimes, cases[k]) \in Nat
    BY <2>1, PenalHolds
  <2> QED
    BY <2>2
<1> QED
  BY <1>2, <1>3, <1>4 DEF IsSummable

\* What a verdict does to the docket.
LEMMA VerdictChanges ==
  ASSUME IInv, NEW k, NEW case, NEW t, NEW j, NEW r, VerdictOf(k, case, t, j, r)
  PROVE  /\ k \in DOMAIN cases /\ cases[k].status = "open" /\ cases[k].judgment = {}
         /\ DOMAIN cases' = DOMAIN cases
         /\ cases'[k] = r /\ \A l \in DOMAIN cases : l # k => cases'[l] = cases[l]
         /\ r.status = "resolved" /\ r.judgment = {j} /\ r.defendant \in Agents
         /\ r.defendant = cases[k].defendant /\ crimes' = crimes
<1>1. k \in DOMAIN cases /\ cases[k].status = "open" /\ IsCase(r) /\ Same(r, cases[k])
      /\ cases' = [cases EXCEPT ![k] = r] /\ r.status = "resolved" /\ r.judgment = {j}
      /\ crimes' = crimes
  BY DEF VerdictOf
<1>2. IsCase(cases[k])
  BY <1>1 DEF IInv, CasesHold
<1> QED
  BY <1>1, <1>2 DEF IsCase, Same

PenaltiesSum(d) == SumOf([k \in JudgedAgainst(d) |-> Penal(crimes, cases[k])])

\* What a defendant was judged to pay stays what it has paid and owes.
LEMMA PenaltiesStep ==
  ASSUME IInv, Next, NEW d \in Agents, PenaltiesSum(d) = Balance(d)
  PROVE  PenaltiesSum(d)' = Balance(d)'
<1> DEFINE J == JudgedAgainst(d)
           K == JudgedAgainst(d)'
           f == [k \in J |-> Penal(crimes, cases[k])]
           g == [k \in K |-> Penal(crimes', cases'[k])]
<1>1. CASE ~Hearing
  <2>1. DocketSteps /\ Balanced
    BY <1>1, CaseStep, MoneyStep DEF IInv
  <2>2. K = J
    <3>1. \A k \in DOMAIN cases : /\ k \in DOMAIN cases'
                                  /\ cases'[k].defendant = cases[k].defendant
                                  /\ cases'[k].status = "resolved" <=> cases[k].status = "resolved"
      BY <1>1, <2>1 DEF DocketSteps, Keeps, Same
    <3>2. \A k \in DOMAIN cases' \ DOMAIN cases : cases'[k].status # "resolved"
      BY <2>1 DEF DocketSteps, IsNew
    <3> QED
      BY <3>1, <3>2 DEF JudgedAgainst
  <2>3. \A k \in J : Penal(crimes', cases'[k]) = Penal(crimes, cases[k])
    BY PenalStays DEF JudgedAgainst
  <2>4. g = f
    BY <2>2, <2>3
  <2>5. PenaltiesSum(d)' = SumOf(g) /\ PenaltiesSum(d) = SumOf(f)
    BY DEF PenaltiesSum
  <2> QED
    BY <2>1, <2>4, <2>5 DEF Balanced, Balance
<1>2. CASE Hearing
  <2>1. CasesHold /\ CrimesHold /\ MoneyHold
    BY DEF IInv
  <2>2. PICK k, case, m, t : HearingOf(k, case, m, t)
    BY <1>2, <2>1, HearingIs
  <2>3. PICK j, r : VerdictOf(k, case, t, j, r)
    BY <2>1, <2>2, VerdictIs
  <2>4. /\ k \in DOMAIN cases /\ cases[k].status = "open" /\ DOMAIN cases' = DOMAIN cases
        /\ cases'[k] = r /\ \A l \in DOMAIN cases : l # k => cases'[l] = cases[l]
        /\ r.status = "resolved" /\ r.defendant = cases[k].defendant /\ crimes' = crimes
    BY <2>3, VerdictChanges
  <2>5. /\ Balance(d)' = Balance(d) + (IF d = r.defendant THEN Penal(crimes, r) ELSE 0)
        /\ Penal(crimes, r) \in Nat
    BY <2>3 DEF VerdictOf, Balance
  <2>6. IsSummable(f) /\ k \notin J
    BY <2>4, JudgedTyped DEF JudgedAgainst
  <2>7. PenaltiesSum(d)' = SumOf(g) /\ PenaltiesSum(d) = SumOf(f)
    BY DEF PenaltiesSum
  <2>8. DOMAIN f = J /\ DOMAIN g = K
    OBVIOUS
  <2>9. \A l \in J : l \in DOMAIN cases /\ l # k
    BY <2>6 DEF JudgedAgainst
  <2>10. CASE d = r.defendant
    <3>1. K = J \cup {k}
      BY <2>4, <2>10 DEF JudgedAgainst
    <3>2. g[k] = Penal(crimes, r)
      BY <2>4, <3>1
    <3>3. \A l \in J : g[l] = f[l]
      BY <2>4, <2>9, <3>1
    <3> HIDE DEF f, g, J, K
    <3>4. DOMAIN g = DOMAIN f \cup {k} /\ k \notin DOMAIN f /\ g[k] \in Int
          /\ \A l \in DOMAIN f : g[l] = f[l]
      BY <2>5, <2>6, <2>8, <3>1, <3>2, <3>3
    <3>5. SumOf(g) = SumOf(f) + g[k]
      BY <2>6, <3>4, SumAdded
    <3> QED
      BY <2>5, <2>7, <2>10, <3>2, <3>5
  <2>11. CASE d # r.defendant
    <3>1. K = J
      BY <2>4, <2>11 DEF JudgedAgainst
    <3>2. \A l \in J : g[l] = f[l]
      BY <2>4, <2>9, <3>1
    <3>3. g = f
      BY <3>1, <3>2
    <3>4. SumOf(f) \in Int
      BY <2>6, SumIsInt
    <3> HIDE DEF f, g, J, K
    <3> QED
      BY <2>5, <2>7, <2>11, <3>3, <3>4
  <2> QED
    BY <2>10, <2>11
<1> QED
  BY <1>1, <1>2

\* The record of every agent counts its convictions.
RecordsHold ==
  /\ DOMAIN records = Agents
  /\ \A a \in Agents : records[a] = Cardinality(Convictions(a))

\* A conviction is recorded with its judgment.
LEMMA RecordsStep ==
  ASSUME IInv, Next, RecordsHold
  PROVE  RecordsHold'
<1>1. CASE ~Hearing
  <2>1. DocketSteps
    BY CaseStep DEF IInv
  <2>2. records' = records
    BY <1>1 DEF Next, Hearing, CommitCrime, TradeInside, DefaultFunded, Report, FileSuit, Retain,
       Testify, Settle, PayAndGarnish, EndActions, run_hazard, Investigate, EndQueue, release_due,
       DefenderUnpaid, EndSession, NextTick, Ended, custodyVars, vars
  <2>3. ASSUME NEW a
        PROVE  Convictions(a)' = Convictions(a)
    <3>1. ASSUME NEW k \in DOMAIN cases
          PROVE  /\ k \in DOMAIN cases' /\ cases'[k].defendant = cases[k].defendant
                 /\ cases'[k].judgment = cases[k].judgment
      <4>1. Keeps(k) /\ IsCase(cases[k])
        BY <2>1 DEF DocketSteps, IInv, CasesHold
      <4>2. IsCase(cases'[k])
        BY <4>1 DEF Keeps
      <4>3. cases'[k].judgment = cases[k].judgment
        BY <1>1, <4>1, <4>2 DEF Keeps, IsCase
      <4> QED
        BY <4>1, <4>3 DEF Keeps, Same
    <3>2. \A k \in DOMAIN cases' \ DOMAIN cases : cases'[k].judgment = {}
      BY <2>1 DEF DocketSteps, IsNew, IsCase
    <3> QED
      BY <3>1, <3>2 DEF Convictions
  <2> QED
    BY <2>2, <2>3 DEF RecordsHold
<1>2. CASE Hearing
  <2>1. CasesHold /\ CrimesHold /\ MoneyHold
    BY DEF IInv
  <2>2. PICK k, case, m, t : HearingOf(k, case, m, t)
    BY <1>2, <2>1, HearingIs
  <2>3. PICK j, r : VerdictOf(k, case, t, j, r)
    BY <2>1, <2>2, VerdictIs
  <2>4. /\ k \in DOMAIN cases /\ cases[k].judgment = {} /\ DOMAIN cases' = DOMAIN cases
        /\ cases'[k] = r /\ \A l \in DOMAIN cases : l # k => cases'[l] = cases[l]
        /\ r.judgment = {j} /\ r.defendant = cases[k].defendant /\ r.defendant \in Agents
    BY <2>3, VerdictChanges
  <2>5. records' = [records EXCEPT ![r.defendant] = @ + (IF j.verdict = "guilty" THEN 1 ELSE 0)]
    BY <2>3 DEF VerdictOf, Convicted
  <2>6. ASSUME NEW a \in Agents
        PROVE  records'[a] = Cardinality(Convictions(a)')
    <3>1. IsFiniteSet(Convictions(a)) /\ Cardinality(Convictions(a)) \in Nat
      <4>1. Convictions(a) \subseteq DOMAIN cases /\ IsFiniteSet(DOMAIN cases)
        BY <2>1 DEF Convictions, CasesHold
      <4> QED
        BY <4>1, FS_Subset, FS_CardinalityType
    <3>2. k \notin Convictions(a)
      BY <2>4 DEF Convictions
    <3>3. CASE a = r.defendant /\ j.verdict = "guilty"
      <4>1. Convictions(a)' = Convictions(a) \cup {k}
        BY <2>4, <3>3 DEF Convictions
      <4>2. Cardinality(Convictions(a) \cup {k}) = Cardinality(Convictions(a)) + 1
        BY <3>1, <3>2, FS_AddElement
      <4>3. records'[a] = records[a] + 1
        BY <2>5, <3>3 DEF RecordsHold
      <4> QED
        BY <4>1, <4>2, <4>3 DEF RecordsHold
    <3>4. CASE ~(a = r.defendant /\ j.verdict = "guilty")
      <4>1. Convictions(a)' = Convictions(a)
        BY <2>4, <3>4 DEF Convictions
      <4>2. records[a] = Cardinality(Convictions(a))
        BY DEF RecordsHold
      <4>3. records'[a] = records[a]
        BY <2>5, <3>1, <3>4, <4>2 DEF RecordsHold
      <4> QED
        BY <4>1, <4>2, <4>3
    <3> QED
      BY <3>3, <3>4
  <2>7. DOMAIN records' = Agents
    BY <2>5 DEF RecordsHold
  <2> QED
    BY <2>6, <2>7 DEF RecordsHold
<1> QED
  BY <1>1, <1>2

-----------------------------------------------------------------------------
(* The prison *)

Places == {Home[a] : a \in Agents} \cup ToSet(Prisons)

\* The sentenced are in prison, no more than it holds, and on a new day none has served its
\* sentence; of those with a home, nobody else is in prison.
CustodyHold ==
  /\ IsFiniteSet(DOMAIN sentences) /\ DOMAIN sentences \subseteq Agents
  /\ Cardinality(DOMAIN sentences) <= Cfg.prison_capacity
  /\ location \in [Agents -> Places]
  /\ \A a \in DOMAIN sentences : /\ sentences[a].prior \in Places /\ sentences[a].release \in Nat
                                 /\ location[a] \in ToSet(Prisons)
  /\ \A a \in Homed : location[a] \in ToSet(Prisons) => a \in DOMAIN sentences
  /\ stage \in {"court", "night"} /\ StartsDay => \A a \in DOMAIN sentences : sentences[a].release > tick

LEMMA PlaceFound ==
  ASSUME Prisons # <<>>, NEW n \in Nat
  PROVE  Prisons[(n % Len(Prisons)) + 1] \in ToSet(Prisons)
<1> DEFINE m == Len(Prisons)
           i == n % m
<1>1. Prisons \in Seq(ToSet(Prisons))
  BY LawAssumption
<1>2. DOMAIN Prisons = 1..m /\ m \in Nat /\ m # 0
  BY <1>1
<1> HIDE DEF m
<1>3. i \in 0..(m-1)
  BY <1>2
<1> HIDE DEF i
<1>4. i + 1 \in DOMAIN Prisons
  BY <1>2, <1>3
<1>5. Prisons[i + 1] \in ToSet(Prisons)
  BY <1>4 DEF ToSet
<1> QED
  BY <1>5 DEF i, m

\* A sentence is served in prison, or not at all.
LEMMA JailedHolds ==
  ASSUME CustodyHold, tick \in Nat, NEW d \in Agents, NEW j, IsJudgment(j), Jailed(d, j),
         tick' = tick, stage' = stage
  PROVE  CustodyHold'
<1> DEFINE occupied == Cardinality(DOMAIN sentences)
           place == Prisons[(occupied % Len(Prisons)) + 1]
           sentence == [started |-> tick, release |-> tick + j.sentence, prior |-> location[d]]
<1>1. CASE UNCHANGED <<sentences, location>>
  BY <1>1 DEF CustodyHold, StartsDay, Homed, Places
<1>2. CASE ~UNCHANGED <<sentences, location>>
  <2>1. /\ j.sentence # 0 /\ Prisons # <<>> /\ ~(occupied >= Cfg.prison_capacity)
        /\ sentences' = [b \in DOMAIN sentences \cup {d} |->
                              IF b = d THEN sentence ELSE sentences[b]]
        /\ location' = [location EXCEPT ![d] = place]
    BY <1>2 DEF Jailed
  <2>2. occupied \in Nat /\ Cfg.prison_capacity \in Nat /\ IsFiniteSet(DOMAIN sentences)
    BY SettingsAssumption, FS_CardinalityType DEF CustodyHold
  <2>3. place \in ToSet(Prisons)
    BY <2>1, <2>2, PlaceFound
  <2>4. /\ sentence.release \in Nat /\ sentence.release > tick /\ sentence.prior = location[d]
        /\ location[d] \in Places
    <3>1. j.sentence \in Nat
      BY DEF IsJudgment
    <3> QED
      BY <2>1, <3>1 DEF CustodyHold
  <2>5. /\ IsFiniteSet(DOMAIN sentences \cup {d})
        /\ Cardinality(DOMAIN sentences \cup {d}) <= Cfg.prison_capacity
    <3>1. Cardinality(DOMAIN sentences \cup {d}) = occupied \/ Cardinality(DOMAIN sentences \cup {d}) = occupied + 1
      BY <2>2, FS_AddElement
    <3> HIDE DEF occupied
    <3> QED
      BY <2>1, <2>2, <3>1, FS_AddElement
  <2> HIDE DEF place, sentence, occupied
  <2>6. DOMAIN sentences' = DOMAIN sentences \cup {d}
    BY <2>1
  <2>7. location' \in [Agents -> Places]
    <3>1. place \in Places
      BY <2>3 DEF Places
    <3> QED
      BY <2>1, <3>1 DEF CustodyHold
  <2>8. \A a \in DOMAIN sentences' : /\ sentences'[a].prior \in Places
                                     /\ sentences'[a].release \in Nat
                                     /\ location'[a] \in ToSet(Prisons)
    <3> TAKE a \in DOMAIN sentences'
    <3>1. CASE a = d
      <4>1. sentences'[a] = sentence /\ location'[a] = place
        BY <2>1, <3>1 DEF CustodyHold
      <4> QED
        BY <2>3, <2>4, <4>1
    <3>2. CASE a # d
      <4>1. a \in DOMAIN sentences /\ a \in Agents
        BY <2>6, <3>2 DEF CustodyHold
      <4>2. sentences'[a] = sentences[a] /\ location'[a] = location[a]
        BY <2>1, <3>2, <4>1 DEF CustodyHold
      <4> QED
        BY <4>1, <4>2 DEF CustodyHold
    <3> QED
      BY <3>1, <3>2
  <2>9. \A a \in Homed : location'[a] \in ToSet(Prisons) => a \in DOMAIN sentences'
    BY <2>1, <2>6 DEF CustodyHold, Homed
  <2>10. stage \in {"court", "night"} /\ StartsDay => \A a \in DOMAIN sentences' : sentences'[a].release > tick
    <3> SUFFICES ASSUME stage \in {"court", "night"} /\ StartsDay, NEW a \in DOMAIN sentences'
                 PROVE  sentences'[a].release > tick
      OBVIOUS
    <3>1. CASE a = d
      BY <2>1, <2>4, <3>1
    <3>2. CASE a # d
      BY <2>1, <2>6, <3>2 DEF CustodyHold
    <3> QED
      BY <3>1, <3>2
  <2>11. DOMAIN sentences' \subseteq Agents
    BY <2>6 DEF CustodyHold
  <2> QED
    BY <2>5, <2>6, <2>7, <2>8, <2>9, <2>10, <2>11 DEF CustodyHold, StartsDay, Homed, Places
<1> QED
  BY <1>1, <1>2

\* Who has served its sentence leaves.
LEMMA ReleaseHolds ==
  ASSUME CustodyHold, tick \in Nat, release_due
  PROVE  CustodyHold'
<1> DEFINE due == {a \in DOMAIN sentences : sentences[a].release <= tick}
<1>1. /\ location' = [a \in Agents |-> IF a \notin due THEN location[a]
                       ELSE IF Home[a] # NoOne THEN Home[a]
                       ELSE IF sentences[a].prior # NoOne THEN sentences[a].prior
                       ELSE location[a]]
      /\ sentences' = [a \in DOMAIN sentences \ due |-> sentences[a]]
      /\ tick' = tick
  BY DEF release_due, ReleasedTo
<1>2. \A a \in DOMAIN sentences \ due : sentences[a].release > tick
  BY DEF CustodyHold
<1>3. due \subseteq DOMAIN sentences
  OBVIOUS
<1> HIDE DEF due
<1>4. DOMAIN sentences' = DOMAIN sentences \ due /\ \A a \in DOMAIN sentences' : sentences'[a] = sentences[a]
  BY <1>1
<1>5. IsFiniteSet(DOMAIN sentences') /\ Cardinality(DOMAIN sentences') <= Cfg.prison_capacity
  <2>1. DOMAIN sentences' \subseteq DOMAIN sentences /\ IsFiniteSet(DOMAIN sentences)
    BY <1>4 DEF CustodyHold
  <2>2. IsFiniteSet(DOMAIN sentences') /\ Cardinality(DOMAIN sentences') <= Cardinality(DOMAIN sentences)
    BY <2>1, FS_Subset
  <2>3. Cardinality(DOMAIN sentences') \in Nat /\ Cardinality(DOMAIN sentences) \in Nat
    BY <2>1, <2>2, FS_CardinalityType
  <2> QED
    BY <2>2, <2>3, SettingsAssumption DEF CustodyHold
<1>6. location' \in [Agents -> Places]
  <2>1. \A a \in Agents : Home[a] \in Places /\ location[a] \in Places
    BY DEF Places, CustodyHold
  <2>2. \A a \in due : sentences[a].prior \in Places
    BY <1>3 DEF CustodyHold
  <2> QED
    BY <1>1, <2>1, <2>2
<1>7. \A a \in DOMAIN sentences' : location'[a] = location[a] /\ a \in DOMAIN sentences
  BY <1>1, <1>4 DEF CustodyHold
<1>8. ASSUME NEW a \in Homed, location'[a] \in ToSet(Prisons)
      PROVE  a \in DOMAIN sentences'
  <2>1. CASE a \in due
    BY <1>1, <1>8, <2>1 DEF Homed
  <2>2. CASE a \notin due
    BY <1>1, <1>4, <1>8, <2>2 DEF CustodyHold, Homed
  <2> QED
    BY <2>1, <2>2
<1>9. DOMAIN sentences' \subseteq Agents
  BY <1>4 DEF CustodyHold
<1>10. \A a \in DOMAIN sentences' : /\ sentences'[a].prior \in Places
                                    /\ sentences'[a].release \in Nat
                                    /\ location'[a] \in ToSet(Prisons)
                                    /\ sentences'[a].release > tick'
  BY <1>1, <1>2, <1>4, <1>7 DEF CustodyHold
<1>11. \A a \in Homed : location'[a] \in ToSet(Prisons) => a \in DOMAIN sentences'
  BY <1>8
<1> QED
  BY <1>5, <1>6, <1>9, <1>10, <1>11 DEF CustodyHold, Homed, Places

LEMMA CustodyStep ==
  ASSUME IInv, Next, CustodyHold
  PROVE  CustodyHold'
<1>1. CASE Hearing
  <2>1. CasesHold /\ CrimesHold /\ MoneyHold /\ tick \in Nat
    BY DEF IInv, CasesHold
  <2>2. PICK k, case, m, t : HearingOf(k, case, m, t)
    BY <1>1, <2>1, HearingIs
  <2>3. PICK j, r : VerdictOf(k, case, t, j, r)
    BY <2>1, <2>2, VerdictIs
  <2>4. r.defendant \in Agents /\ IsJudgment(j) /\ Jailed(r.defendant, j) /\ tick' = tick /\ stage' = stage
    BY <2>3 DEF VerdictOf, IsCase
  <2> QED
    BY <2>1, <2>4, JailedHolds
<1>2. CASE release_due
  BY <1>2, ReleaseHolds DEF IInv, CasesHold
<1>3. CASE ~Hearing /\ ~release_due
  <2>1. /\ sentences' = sentences /\ location' = location
        /\ stage' \in {"court", "night"} => stage \in {"court", "night"} \/ ~StartsDay
        /\ stage' \in {"court", "night"} => tick' = tick
    <3>1. CASE \/ \E o \in Offences : CommitCrime(o)
               \/ \E t \in Trades : TradeInside(t)
               \/ \E a \in Agents : DefaultFunded(a)
               \/ \E c \in DOMAIN crimes, r \in Agents : Report(r, c)
               \/ \E s \in Suits : FileSuit(s)
               \/ \E k \in DOMAIN cases, l \in DOMAIN Lawyers, a \in Clients : Retain(a, k, l)
               \/ \E k \in DOMAIN cases, w \in Testimony : Testify(w[1], k, w[2])
               \/ \E k \in DOMAIN cases, o \in Offers : Settle(o[1], k, o[2])
               \/ \E i \in Incomes : PayAndGarnish(i[1], i[2])
      BY <3>1 DEF CommitCrime, TradeInside, DefaultFunded, Report, FileSuit, Retain, Testify, Settle,
         PayAndGarnish, Acts, custodyVars
    <3>2. CASE \/ EndActions \/ run_hazard \/ (\E c \in DOMAIN crimes : Investigate(c))
               \/ EndQueue \/ DefenderUnpaid \/ EndSession \/ NextTick \/ Ended
      BY <3>2 DEF EndActions, run_hazard, Investigate, EndQueue, DefenderUnpaid, EndSession, NextTick,
         Ended, custodyVars, vars
    <3> QED
      BY <1>3, <3>1, <3>2 DEF Next, Hearing
  <2>2. stage' \in {"court", "night"} /\ StartsDay' =>
          \A a \in DOMAIN sentences' : sentences'[a].release > tick'
    BY <2>1 DEF CustodyHold, StartsDay
  <2> QED
    BY <2>1, <2>2 DEF CustodyHold, Homed, Places
<1> QED
  BY <1>1, <1>2, <1>3

-----------------------------------------------------------------------------
(* The tables *)

\* A row of a crime: the amount of a theft may be what was intended.
CrimeShown(row, crime) ==
  /\ DOMAIN row = CrimeFields \ {"investigated"}
  /\ row.type = crime.type /\ row.tick = crime.tick /\ row.perpetrator = crime.perpetrator
  /\ row.victim = crime.victim /\ row.detected = crime.detected /\ row.reported = crime.reported
  /\ row.amount = crime.amount \/ (crime.type = "theft" /\ row.amount > crime.amount)

CrimeRowsHold ==
  /\ tables.crimes \in Seq(Range(tables.crimes))
  /\ DOMAIN tables.crimes = DOMAIN crimes
  /\ \A c \in DOMAIN crimes : CrimeShown(tables.crimes[c], crimes[c])

\* A row of a case, but for its state and its claim.
Shown(row, case) ==
  /\ DOMAIN row = CaseFields \ {"witnesses", "strength"}
  /\ row.type = case.type /\ row.plaintiff = case.plaintiff /\ row.defendant = case.defendant
  /\ row.filed = case.filed /\ row.counsel = case.counsel /\ row.defence = case.defence
  /\ row.admitted = case.admitted /\ row.judgment = case.judgment

StateShown(row, case) ==
  \/ row.status = case.status /\ row.resolved = case.resolved
  \/ case.status = "settled" /\ case.resolved = case.filed /\ row.status = "open"

ClaimShown(row, case) ==
  /\ row.crime = case.crime /\ row.cause = case.cause
  /\ row.claim = case.claim /\ row.evidence = case.evidence

SettledIn(all, n) == \E o \in DOMAIN all : all[o].status = "settled" /\ all[o].resolved = n

CaseRowsHold ==
  /\ DOMAIN tables.cases = DOMAIN cases
  /\ \A k \in DOMAIN cases :
       /\ Shown(tables.cases[k], cases[k]) /\ StateShown(tables.cases[k], cases[k])
       /\ ClaimShown(tables.cases[k], cases[k]) \/ SettledIn(cases, cases[k].filed)

\* Ids count up while nothing is settled, and before the session nothing is judged on the tick.
IdsHold ==
  /\ \A k \in DOMAIN cases : k[3] = cases[k].filed /\ k[4] \in Nat
  /\ stage \in {"actions", "hazard", "queue"} /\ ~SettledIn(cases, tick) =>
       \A k \in DOMAIN cases : cases[k].filed = tick => k[4] < Cardinality(OpenCases)
  /\ stage \in {"actions", "hazard", "queue", "release"} =>
       \A k \in DOMAIN cases : cases[k].status = "resolved" => cases[k].resolved < tick

TablesHold ==
  /\ DOMAIN tables = {"crimes", "cases", "records"}
  /\ tables.records = records
  /\ CrimeRowsHold
  /\ CaseRowsHold
  /\ IdsHold

LEMMA RowAppended ==
  ASSUME CrimesHold, CrimeRowsHold, NEW e, NEW row, CrimeShown(row, e),
         crimes' = Append(crimes, e), tables'.crimes = Append(tables.crimes, row)
  PROVE  CrimeRowsHold'
<1> DEFINE s == crimes
           t == tables.crimes
           n == Len(crimes)
<1>1. s \in Seq(Range(s)) /\ t \in Seq(Range(t)) /\ DOMAIN t = DOMAIN s
  BY DEF CrimesHold, CrimeRowsHold
<1>2. \A c \in DOMAIN s : CrimeShown(t[c], s[c])
  BY DEF CrimeRowsHold
<1>3. /\ crimes' = Append(s, e) /\ tables'.crimes = Append(t, row)
  OBVIOUS
<1> HIDE DEF s, t
<1>4. Append(t, row) \in Seq(Range(Append(t, row)))
  BY <1>1, Appended
<1>5. /\ Len(s) \in Nat /\ DOMAIN s = 1..Len(s) /\ Len(t) \in Nat /\ DOMAIN t = 1..Len(t)
  BY <1>1
<1>6. Len(s) = Len(t)
  BY <1>1, <1>5
<1>7. /\ DOMAIN Append(s, e) = 1..(Len(s) + 1) /\ DOMAIN Append(t, row) = 1..(Len(s) + 1)
      /\ \A c \in DOMAIN s : Append(s, e)[c] = s[c] /\ Append(t, row)[c] = t[c]
      /\ Append(s, e)[Len(s) + 1] = e /\ Append(t, row)[Len(s) + 1] = row
  BY <1>1, <1>5, <1>6
<1>8. \A c \in 1..(Len(s) + 1) : c \in DOMAIN s \/ c = Len(s) + 1
  BY <1>5
<1>9. \A c \in DOMAIN Append(s, e) : CrimeShown(Append(t, row)[c], Append(s, e)[c])
  BY <1>2, <1>7, <1>8
<1> QED
  BY <1>3, <1>4, <1>7, <1>9 DEF CrimeRowsHold

LEMMA RowsUpdated ==
  ASSUME CrimesHold, CrimeRowsHold, DOMAIN crimes' = DOMAIN crimes,
         tables'.crimes \in [DOMAIN crimes -> Range(tables'.crimes)],
         \A c \in DOMAIN crimes : CrimeShown(tables'.crimes[c], crimes'[c])
  PROVE  CrimeRowsHold'
<1>1. DOMAIN crimes = 1..Len(crimes) /\ Len(crimes) \in Nat
  BY DEF CrimesHold
<1>2. tables'.crimes \in Seq(Range(tables'.crimes)) /\ DOMAIN tables'.crimes = DOMAIN crimes'
  BY <1>1
<1> QED
  BY <1>2 DEF CrimeRowsHold

LEMMA OffenceShown ==
  ASSUME CrimesHold, TablesHold, NEW type, NEW p, NEW v, NEW cents, NEW written,
         cents = written \/ (type = "theft" /\ written > cents),
         crimes' = Recorded(type, p, v, cents),
         tables' = [tables EXCEPT !.crimes = Append(@, CrimeRow(type, p, v, written))]
  PROVE  CrimeRowsHold'
<1> DEFINE e == [type |-> type, tick |-> tick, perpetrator |-> p, victim |-> v,
                 amount |-> cents, detected |-> FALSE, reported |-> FALSE,
                 investigated |-> FALSE]
           row == CrimeRow(type, p, v, written)
<1>1. CrimeShown(row, e)
  BY DEF CrimeRow, CrimeShown, CrimeFields
<1>2. crimes' = Append(crimes, e) /\ tables'.crimes = Append(tables.crimes, row)
  BY DEF Recorded, TablesHold
<1> HIDE DEF e, row
<1> QED
  BY <1>1, <1>2, RowAppended DEF TablesHold

\* The rows of the crimes follow the register.
LEMMA CrimeRowsStep ==
  ASSUME IInv, Next, TablesHold
  PROVE  CrimeRowsHold'
<1>0. CrimesHold /\ MoneyHold /\ CrimeRowsHold /\ DOMAIN tables = {"crimes", "cases", "records"}
  BY DEF IInv, TablesHold
<1>1. CASE \E o \in Offences : CommitCrime(o)
  <2>1. PICK o \in Offences : CommitCrime(o)
    BY <1>1
  <2> DEFINE taken == Stolen(o[2], o[1], o[3], o[4])
             cents == IF taken > 0 THEN taken ELSE o[4]
  <2>2. o[3] \in Agents \cup {NoOne} /\ o[4] \in Nat
    BY InputAssumption
  <2>3. /\ taken \in Nat /\ taken <= o[4]
        /\ taken > 0 => o[2] = "theft"
    BY <1>0, <2>2, StolenHolds
  <2>4. crimes' = Recorded(o[2], o[1], o[3], cents)
        /\ tables' = [tables EXCEPT !.crimes = Append(@, CrimeRow(o[2], o[1], o[3], o[4]))]
    BY <2>1 DEF CommitCrime
  <2>5. cents = o[4] \/ (o[2] = "theft" /\ o[4] > cents)
    BY <2>2, <2>3
  <2> HIDE DEF cents
  <2> QED
    BY <1>0, <2>4, <2>5, OffenceShown
<1>2. CASE \E t \in Trades : TradeInside(t)
  BY <1>0, <1>2, OffenceShown DEF TradeInside, Offend
<1>3. CASE \E a \in Agents : DefaultFunded(a)
  BY <1>0, <1>3, OffenceShown DEF DefaultFunded, Offend
<1>4. CASE \E k \in DOMAIN cases, w \in Testimony : Testify(w[1], k, w[2])
  <2>1. PICK k \in DOMAIN cases, w \in Testimony : Testify(w[1], k, w[2])
    BY <1>4
  <2>2. CASE w[2]
    <3>1. /\ crimes' = Recorded("perjury", w[1], NoOne, 0)
          /\ tables' = [tables EXCEPT !.crimes = Append(@, CrimeRow("perjury", w[1], NoOne, 0))]
      BY <2>1, <2>2 DEF Testify, Offend
    <3> QED
      BY <1>0, <3>1, OffenceShown
  <2>3. CASE ~w[2]
    BY <1>0, <2>1, <2>3 DEF Testify, CrimeRowsHold
  <2> QED
    BY <2>2, <2>3
<1>5. CASE \E c \in DOMAIN crimes, r \in Agents : Report(r, c)
  <2>1. PICK c \in DOMAIN crimes : /\ crimes' = [crimes EXCEPT ![c].reported = TRUE]
                                   /\ tables' = [tables EXCEPT !.crimes[c].reported = TRUE]
    BY <1>5 DEF Report
  <2>2. tables'.crimes = [tables.crimes EXCEPT ![c].reported = TRUE]
    BY <1>0, <2>1
  <2>3. /\ tables'.crimes \in [DOMAIN crimes -> Range(tables'.crimes)]
        /\ \A d \in DOMAIN crimes : tables'.crimes[d] = IF d = c
                                      THEN [tables.crimes[d] EXCEPT !.reported = TRUE]
                                      ELSE tables.crimes[d]
    BY <1>0, <2>2 DEF CrimeRowsHold, Range
  <2>4. /\ DOMAIN crimes' = DOMAIN crimes
        /\ \A d \in DOMAIN crimes : crimes'[d] = IF d = c THEN [crimes[d] EXCEPT !.reported = TRUE]
                                                 ELSE crimes[d]
    BY <2>1
  <2>5. \A d \in DOMAIN crimes : CrimeShown(tables'.crimes[d], crimes'[d])
    <3> TAKE d \in DOMAIN crimes
    <3>1. CrimeShown(tables.crimes[d], crimes[d]) /\ DOMAIN crimes[d] = CrimeFields
      BY <1>0 DEF CrimeRowsHold, CrimesHold, IsCrime
    <3>2. CASE d = c
      <4>1. /\ tables'.crimes[d] = [tables.crimes[d] EXCEPT !.reported = TRUE]
            /\ crimes'[d] = [crimes[d] EXCEPT !.reported = TRUE]
        BY <2>3, <2>4, <3>2
      <4> QED
        BY <3>1, <4>1 DEF CrimeShown, CrimeFields
    <3>3. CASE d # c
      BY <2>3, <2>4, <3>1, <3>3
    <3> QED
      BY <3>2, <3>3
  <2> QED
    BY <1>0, <2>3, <2>4, <2>5, RowsUpdated
<1>6. CASE run_hazard
  <2>1. PICK found \in SUBSET Detectable :
          /\ crimes' = DetectedIn(crimes, found)
          /\ tables' = [tables EXCEPT !.crimes = DetectedIn(@, found)]
    BY <1>6 DEF run_hazard
  <2>2. tables'.crimes = DetectedIn(tables.crimes, found)
    BY <1>0, <2>1
  <2>3. /\ tables'.crimes \in [DOMAIN crimes -> Range(tables'.crimes)]
        /\ \A d \in DOMAIN crimes : tables'.crimes[d] = IF d \in found
                                      THEN [tables.crimes[d] EXCEPT !.detected = TRUE]
                                      ELSE tables.crimes[d]
    <3>1. tables'.crimes = [c \in DOMAIN crimes |->
                              IF c \in found THEN [tables.crimes[c] EXCEPT !.detected = TRUE]
                              ELSE tables.crimes[c]]
      BY <1>0, <2>2 DEF DetectedIn, CrimeRowsHold
    <3> QED
      BY <3>1 DEF Range
  <2>4. /\ DOMAIN crimes' = DOMAIN crimes
        /\ \A d \in DOMAIN crimes : crimes'[d] = IF d \in found
                                                 THEN [crimes[d] EXCEPT !.detected = TRUE]
                                                 ELSE crimes[d]
    BY <2>1 DEF DetectedIn
  <2>5. \A d \in DOMAIN crimes : CrimeShown(tables'.crimes[d], crimes'[d])
    <3> TAKE d \in DOMAIN crimes
    <3>1. CrimeShown(tables.crimes[d], crimes[d]) /\ DOMAIN crimes[d] = CrimeFields
      BY <1>0 DEF CrimeRowsHold, CrimesHold, IsCrime
    <3>2. CASE d \in found
      <4>1. /\ tables'.crimes[d] = [tables.crimes[d] EXCEPT !.detected = TRUE]
            /\ crimes'[d] = [crimes[d] EXCEPT !.detected = TRUE]
        BY <2>3, <2>4, <3>2
      <4> QED
        BY <3>1, <4>1 DEF CrimeShown, CrimeFields
    <3>3. CASE d \notin found
      BY <2>3, <2>4, <3>1, <3>3
    <3> QED
      BY <3>2, <3>3
  <2> QED
    BY <1>0, <2>3, <2>4, <2>5, RowsUpdated
<1>7. CASE \E c \in DOMAIN crimes : Investigate(c)
  <2>1. PICK c \in DOMAIN crimes : Investigate(c)
    BY <1>7
  <2>2. crimes' = [crimes EXCEPT ![c].investigated = TRUE]
    BY <2>1 DEF Investigate, CloseFile
  <2>3. tables'.crimes = tables.crimes
    BY <1>0, <2>1 DEF Investigate, FileCriminal
  <2>4. \A d \in DOMAIN crimes : CrimeShown(tables'.crimes[d], crimes'[d])
    <3> TAKE d \in DOMAIN crimes
    <3>1. CrimeShown(tables.crimes[d], crimes[d]) /\ DOMAIN crimes[d] = CrimeFields
      BY <1>0 DEF CrimeRowsHold, CrimesHold, IsCrime
    <3>2. crimes'[d] = crimes[d] \/ crimes'[d] = [crimes[d] EXCEPT !.investigated = TRUE]
      BY <2>2
    <3> QED
      BY <2>3, <3>1, <3>2 DEF CrimeShown, CrimeFields
  <2> QED
    BY <1>0, <2>2, <2>3, <2>4 DEF CrimeRowsHold
<1>8. CASE Hearing
  <2>1. CasesHold /\ CrimesHold /\ MoneyHold
    BY DEF IInv
  <2>2. PICK k, case, m, t : HearingOf(k, case, m, t)
    BY <1>8, <2>1, HearingIs
  <2>3. PICK j, r : VerdictOf(k, case, t, j, r)
    BY <2>1, <2>2, VerdictIs
  <2>4. t.crimes = tables.crimes /\ DOMAIN t = {"crimes", "cases", "records"}
    BY <1>0, <2>2 DEF HearingOf, CounselRow
  <2>5. tables'.crimes = tables.crimes /\ crimes' = crimes
    BY <2>3, <2>4 DEF VerdictOf, JudgedRows
  <2> QED
    BY <1>0, <2>5 DEF CrimeRowsHold
<1>9. CASE \/ \E s \in Suits : FileSuit(s)
           \/ \E k \in DOMAIN cases, l \in DOMAIN Lawyers, a \in Clients : Retain(a, k, l)
           \/ \E k \in DOMAIN cases, o \in Offers : Settle(o[1], k, o[2])
  <2>1. tables'.crimes = tables.crimes /\ crimes' = crimes
    <3>1. CASE \E s \in Suits : FileSuit(s)
      BY <1>0, <3>1 DEF FileSuit, File
    <3>2. CASE \E k \in DOMAIN cases, l \in DOMAIN Lawyers, a \in Clients : Retain(a, k, l)
      BY <1>0, <3>2 DEF Retain, CounselRow
    <3>3. CASE \E k \in DOMAIN cases, o \in Offers : Settle(o[1], k, o[2])
      BY <1>0, <3>3 DEF Settle
    <3> QED
      BY <1>9, <3>1, <3>2, <3>3
  <2> QED
    BY <1>0, <2>1 DEF CrimeRowsHold
<1>10. ASSUME \/ \E i \in Incomes : PayAndGarnish(i[1], i[2])
              \/ EndActions \/ EndQueue \/ release_due \/ DefenderUnpaid \/ EndSession \/ NextTick
              \/ Ended
       PROVE  tables' = tables /\ crimes' = crimes
  BY <1>10 DEF PayAndGarnish, EndActions, EndQueue, release_due, DefenderUnpaid, EndSession,
     NextTick, Ended, vars
<1>11. CASE tables' = tables /\ crimes' = crimes
  BY <1>0, <1>11 DEF CrimeRowsHold
<1> QED
  BY <1>1, <1>2, <1>3, <1>4, <1>5, <1>6, <1>7, <1>8, <1>9, <1>10, <1>11 DEF Next, Hearing

-----------------------------------------------------------------------------
(* The rows of the cases *)

\* What was settled stays settled.
LEMMA SettledStays ==
  ASSUME DocketSteps, NEW n, SettledIn(cases, n)
  PROVE  SettledIn(cases', n)
<1>1. PICK o \in DOMAIN cases : cases[o].status = "settled" /\ cases[o].resolved = n
  BY DEF SettledIn
<1>2. o \in DOMAIN cases' /\ cases'[o].status = "settled" /\ cases'[o].resolved = n
  BY <1>1 DEF DocketSteps, Keeps
<1> QED
  BY <1>2 DEF SettledIn

LEMMA RowsStay ==
  ASSUME CaseRowsHold, cases' = cases, tables'.cases = tables.cases
  PROVE  CaseRowsHold'
BY DEF CaseRowsHold

\* One case and its row change, and still agree.
LEMMA RowChanged ==
  ASSUME CaseRowsHold, DocketSteps, NEW k \in DOMAIN cases, NEW r, NEW row,
         cases' = [cases EXCEPT ![k] = r],
         tables'.cases = [tables.cases EXCEPT ![k] = row],
         Shown(row, r), StateShown(row, r), ClaimShown(row, r) \/ SettledIn(cases, r.filed)
  PROVE  CaseRowsHold'
<1>1. DOMAIN tables.cases = DOMAIN cases
  BY DEF CaseRowsHold
<1>2. DOMAIN tables'.cases = DOMAIN cases' /\ DOMAIN cases' = DOMAIN cases
  BY <1>1
<1>3. ASSUME NEW l \in DOMAIN cases'
      PROVE  /\ Shown(tables'.cases[l], cases'[l]) /\ StateShown(tables'.cases[l], cases'[l])
             /\ ClaimShown(tables'.cases[l], cases'[l]) \/ SettledIn(cases', cases'[l].filed)
  <2>1. CASE l = k
    <3>1. tables'.cases[l] = row /\ cases'[l] = r
      BY <1>1, <1>2, <2>1
    <3>2. SettledIn(cases, r.filed) => SettledIn(cases', r.filed)
      BY SettledStays
    <3> QED
      BY <3>1, <3>2
  <2>2. CASE l # k
    <3>1. tables'.cases[l] = tables.cases[l] /\ cases'[l] = cases[l] /\ l \in DOMAIN cases
      BY <1>1, <1>2, <2>2
    <3>2. SettledIn(cases, cases[l].filed) => SettledIn(cases', cases[l].filed)
      BY SettledStays
    <3> QED
      BY <3>1, <3>2 DEF CaseRowsHold
  <2> QED
    BY <2>1, <2>2
<1> QED
  BY <1>2, <1>3 DEF CaseRowsHold

LEMMA StageSteps ==
  ASSUME IInv, Next
  PROVE  \/ tick' = tick + 1 /\ cases' = cases
         \/ /\ tick' = tick
            /\ stage' \in {"actions", "hazard", "queue"} => stage \in {"actions", "hazard", "queue"}
            /\ stage' \in {"actions", "hazard", "queue", "release"} =>
                 stage \in {"actions", "hazard", "queue", "release"}
<1>1. CASE Hearing
  <2>1. CasesHold /\ CrimesHold /\ MoneyHold
    BY DEF IInv
  <2>2. PICK k, case, m, t : HearingOf(k, case, m, t)
    BY <1>1, <2>1, HearingIs
  <2>3. PICK j, r : VerdictOf(k, case, t, j, r)
    BY <2>1, <2>2, VerdictIs
  <2> QED
    BY <2>3 DEF VerdictOf
<1>2. CASE \/ \E o \in Offences : CommitCrime(o)
           \/ \E t \in Trades : TradeInside(t)
           \/ \E a \in Agents : DefaultFunded(a)
           \/ \E c \in DOMAIN crimes, r \in Agents : Report(r, c)
           \/ \E s \in Suits : FileSuit(s)
           \/ \E k \in DOMAIN cases, l \in DOMAIN Lawyers, a \in Clients : Retain(a, k, l)
           \/ \E k \in DOMAIN cases, w \in Testimony : Testify(w[1], k, w[2])
           \/ \E k \in DOMAIN cases, o \in Offers : Settle(o[1], k, o[2])
           \/ \E i \in Incomes : PayAndGarnish(i[1], i[2])
  BY <1>2 DEF CommitCrime, TradeInside, DefaultFunded, Report, FileSuit, Retain, Testify, Settle,
     PayAndGarnish, Acts
<1>3. CASE \/ EndActions \/ run_hazard \/ (\E c \in DOMAIN crimes : Investigate(c))
           \/ EndQueue \/ release_due \/ DefenderUnpaid \/ EndSession \/ NextTick \/ Ended
  BY <1>3 DEF EndActions, run_hazard, Investigate, EndQueue, release_due, DefenderUnpaid, EndSession,
     NextTick, Ended, vars
<1> QED
  BY <1>1, <1>2, <1>3 DEF Next, Hearing

\* The id of a new case counts the open cases.
LEMMA NewId ==
  ASSUME IInv, Next, NEW k \in DOMAIN cases' \ DOMAIN cases
  PROVE  k[3] = tick /\ k[4] = Cardinality(OpenCases)
<1>1. CASE \E s \in Suits : FileSuit(s)
  BY <1>1 DEF FileSuit, File, Filed, CaseKey
<1>2. CASE \E c \in DOMAIN crimes : Investigate(c)
  <2>1. PICK c \in DOMAIN crimes : Investigate(c)
    BY <1>2
  <2>2. PICK strength : FileCriminal(c, EvidenceOf(c), strength)
    BY <2>1 DEF Investigate
  <2> DEFINE f == Filed("criminal", Chief, crimes[c].perpetrator, c, crimes[c].type,
                        crimes[c].amount, EvidenceOf(c))
             key == CaseKey(Chief, crimes[c].perpetrator)
  <2>3. DOMAIN f = DOMAIN cases \cup {key}
    BY DEF Filed
  <2>4. cases' = [f EXCEPT ![key].strength = strength]
    BY <2>2 DEF FileCriminal
  <2> HIDE DEF f
  <2>5. k = key
    BY <2>3, <2>4
  <2> QED
    BY <2>5 DEF CaseKey
<1>3. CASE ~(\E s \in Suits : FileSuit(s)) /\ ~(\E c \in DOMAIN crimes : Investigate(c))
  <2>1. DOMAIN cases' = DOMAIN cases
    <3>1. CASE Hearing
      <4>1. CasesHold /\ CrimesHold /\ MoneyHold
        BY DEF IInv
      <4>2. PICK l, case, m, t : HearingOf(l, case, m, t)
        BY <3>1, <4>1, HearingIs
      <4>3. PICK j, r : VerdictOf(l, case, t, j, r)
        BY <4>1, <4>2, VerdictIs
      <4> QED
        BY <4>3 DEF VerdictOf
    <3>2. CASE ~Hearing
      BY <1>3, <3>2 DEF Next, Hearing, CommitCrime, TradeInside, DefaultFunded, Report, Retain,
         Testify, Settle, PayAndGarnish, EndActions, run_hazard, EndQueue, release_due,
         DefenderUnpaid, EndSession, NextTick, Ended, vars
    <3> QED
      BY <3>1, <3>2
  <2> QED
    BY <2>1
<1> QED
  BY <1>1, <1>2, <1>3

\* Ids go on counting the open cases.
LEMMA IdsStep ==
  ASSUME IInv, Next, IdsHold
  PROVE  IdsHold'
<1>0. CasesHold /\ CrimesHold /\ MoneyHold
  BY DEF IInv
<1>1. DocketSteps
  BY <1>0, CaseStep
<1>2. IsFiniteSet(OpenCases) /\ Cardinality(OpenCases) \in Nat
  <2>1. OpenCases \subseteq DOMAIN cases /\ IsFiniteSet(DOMAIN cases)
    BY <1>0 DEF OpenCases, CasesHold
  <2> QED
    BY <2>1, FS_Subset, FS_CardinalityType
<1>3. \A k \in DOMAIN cases' : k[3] = cases'[k].filed /\ k[4] \in Nat
  <2> TAKE k \in DOMAIN cases'
  <2>1. CASE k \in DOMAIN cases
    <3>1. cases'[k].filed = cases[k].filed
      BY <1>1, <2>1 DEF DocketSteps, Keeps, Same
    <3> QED
      BY <2>1, <3>1 DEF IdsHold
  <2>2. CASE k \notin DOMAIN cases
    <3>1. cases'[k].filed = tick
      BY <1>1, <2>2 DEF DocketSteps, IsNew
    <3> QED
      BY <1>2, <2>2, <3>1, NewId
  <2> QED
    BY <2>1, <2>2
<1>4. ASSUME tick' = tick + 1, cases' = cases
      PROVE  IdsHold'
  <2>1. tick \in Nat /\ \A k \in DOMAIN cases : cases[k].filed \in 0..tick /\ cases[k].resolved \in -1..tick
    BY <1>0 DEF CasesHold
  <2>2. \A k \in DOMAIN cases : cases[k].filed # tick + 1 /\ cases[k].resolved < tick + 1
    BY <2>1
  <2> QED
    BY <1>3, <1>4, <2>2 DEF IdsHold
<1>5. ASSUME tick' = tick,
             stage' \in {"actions", "hazard", "queue"} => stage \in {"actions", "hazard", "queue"},
             stage' \in {"actions", "hazard", "queue", "release"} =>
                 stage \in {"actions", "hazard", "queue", "release"}
      PROVE  IdsHold'
  <2>1. Hearing => stage = "court"
    BY <1>0, HearingIs
  <2>2. ASSUME stage' \in {"actions", "hazard", "queue", "release"}, NEW k \in DOMAIN cases',
               cases'[k].status = "resolved"
        PROVE  cases'[k].resolved < tick'
    <3>1. k \in DOMAIN cases /\ cases[k].status = "resolved" /\ cases'[k].resolved = cases[k].resolved
      BY <1>1, <1>5, <2>1, <2>2 DEF DocketSteps, Keeps, IsNew
    <3> QED
      BY <1>5, <2>2, <3>1 DEF IdsHold
  <2>3. ASSUME stage' \in {"actions", "hazard", "queue"}, ~SettledIn(cases', tick'), NEW k \in DOMAIN cases',
               cases'[k].filed = tick'
        PROVE  k[4] < Cardinality(OpenCases')
    <3>1. ~SettledIn(cases, tick)
      <4>1. SettledIn(cases, tick) => SettledIn(cases', tick)
        BY <1>1, SettledStays
      <4> QED
        BY <1>5, <2>3, <4>1
    <3>2. \A l \in DOMAIN cases : cases'[l].status = cases[l].status /\ l \in DOMAIN cases'
      <4> TAKE l \in DOMAIN cases
      <4>1. Keeps(l) /\ ~Hearing
        BY <1>1, <1>5, <2>1, <2>3 DEF DocketSteps
      <4>2. ~(cases'[l].status = "settled" /\ cases'[l].resolved = tick)
        BY <1>5, <2>3, <4>1 DEF SettledIn, Keeps
      <4> QED
        BY <4>1, <4>2 DEF Keeps
    <3>3. OpenCases \subseteq OpenCases'
      BY <3>2 DEF OpenCases
    <3>4. IsFiniteSet(OpenCases') /\ Cardinality(OpenCases') \in Nat
      <4>1. OpenCases' \subseteq DOMAIN cases' /\ IsFiniteSet(DOMAIN cases')
        BY <1>1 DEF OpenCases, DocketSteps
      <4> QED
        BY <4>1, FS_Subset, FS_CardinalityType
    <3>5. CASE k \in DOMAIN cases
      <4>1. cases[k].filed = tick
        BY <1>1, <1>5, <2>3, <3>5 DEF DocketSteps, Keeps, Same
      <4>2. k[4] < Cardinality(OpenCases) /\ k[4] \in Nat
        BY <1>5, <2>3, <3>1, <3>5, <4>1 DEF IdsHold
      <4>3. Cardinality(OpenCases) <= Cardinality(OpenCases')
        BY <3>3, <3>4, FS_Subset
      <4> QED
        BY <1>2, <3>4, <4>2, <4>3
    <3>6. CASE k \notin DOMAIN cases
      <4>1. k[4] = Cardinality(OpenCases) /\ k \in OpenCases' /\ k \notin OpenCases
        BY <1>1, <2>3, <3>6, NewId DEF DocketSteps, IsNew, OpenCases
      <4>2. OpenCases \cup {k} \subseteq OpenCases'
        BY <3>3, <4>1
      <4>3. Cardinality(OpenCases \cup {k}) = Cardinality(OpenCases) + 1
        BY <1>2, <4>1, FS_AddElement
      <4>4. Cardinality(OpenCases \cup {k}) <= Cardinality(OpenCases')
        BY <3>4, <4>2, FS_Subset
      <4> QED
        BY <1>2, <3>4, <4>1, <4>3, <4>4
    <3> QED
      BY <3>5, <3>6
  <2> QED
    BY <1>3, <2>2, <2>3 DEF IdsHold
<1> QED
  BY <1>4, <1>5, StageSteps

\* Filing writes the row of the new case, or opens the row of one whose id was taken after a
\* settlement.
LEMMA FilingShown ==
  ASSUME IInv, TablesHold, DocketSteps, tick' = tick, stage \in {"actions", "queue"},
         NEW type, NEW filer, NEW defendant, NEW crime, NEW cause, NEW claim, NEW evidence,
         \/ cases' = Filed(type, filer, defendant, crime, cause, claim, evidence)
         \/ \E strength : cases' =
              [Filed(type, filer, defendant, crime, cause, claim, evidence)
                 EXCEPT ![CaseKey(filer, defendant)].strength = strength],
         tables' = [tables EXCEPT !.cases =
                      CaseRows(type, filer, defendant, crime, cause, claim, evidence)]
  PROVE  CaseRowsHold'
<1> DEFINE key == CaseKey(filer, defendant)
           rows == tables.cases
           new == [type |-> type, plaintiff |-> filer, defendant |-> defendant, crime |-> crime,
                   cause |-> cause, claim |-> claim, filed |-> tick, evidence |-> evidence,
                   counsel |-> NoOne, defence |-> NoOne, witnesses |-> {}, admitted |-> {},
                   strength |-> 0, status |-> "open", resolved |-> -1, judgment |-> {}]
           row == [type |-> type, plaintiff |-> filer, defendant |-> defendant, crime |-> crime,
                   cause |-> cause, claim |-> claim, filed |-> tick, evidence |-> evidence,
                   counsel |-> NoOne, defence |-> NoOne, admitted |-> {}, status |-> "open",
                   resolved |-> -1, judgment |-> {}]
           again == [rows[key] EXCEPT !.crime = crime, !.cause = cause, !.claim = claim,
                                      !.evidence = evidence, !.status = "open", !.resolved = -1]
           f == [k \in DOMAIN cases \cup {key} |-> IF k \in DOMAIN cases THEN cases[k] ELSE new]
           g == [k \in DOMAIN rows \cup {key} |->
                   IF k # key THEN rows[k] ELSE IF key \in DOMAIN rows THEN again ELSE row]
<1>1. f = Filed(type, filer, defendant, crime, cause, claim, evidence)
      /\ g = CaseRows(type, filer, defendant, crime, cause, claim, evidence)
  BY DEF Filed, CaseRows
<1>2. cases' = f \/ \E strength : cases' = [f EXCEPT ![key].strength = strength]
  BY <1>1
<1>3. tables'.cases = g
  BY <1>1 DEF TablesHold
<1>4. DOMAIN rows = DOMAIN cases
  BY DEF TablesHold, CaseRowsHold
<1>5. CaseRowsHold /\ IdsHold /\ CasesHold
  BY DEF TablesHold, IInv
<1>6. key \in DOMAIN cases => /\ SettledIn(cases, tick) /\ cases[key].filed = tick
                              /\ key[4] = Cardinality(OpenCases)
  <2>1. key[3] = tick /\ key[4] = Cardinality(OpenCases)
    BY DEF CaseKey
  <2> HIDE DEF key
  <2>2. ASSUME key \in DOMAIN cases
        PROVE  cases[key].filed = tick /\ key[4] \in Nat
    BY <1>5, <2>1, <2>2 DEF IdsHold
  <2>3. ASSUME key \in DOMAIN cases, ~SettledIn(cases, tick)
        PROVE  key[4] < Cardinality(OpenCases)
    BY <1>5, <2>2, <2>3 DEF IdsHold
  <2> QED
    BY <2>1, <2>2, <2>3
<1>7. key \in DOMAIN rows => Shown(again, cases[key]) /\ again.status = "open" /\ again.resolved = -1
  <2> DEFINE old == rows[key]
             case == cases[key]
  <2>1. key \in DOMAIN rows => Shown(old, case)
    BY <1>4, <1>5 DEF CaseRowsHold
  <2>2. again = [old EXCEPT !.crime = crime, !.cause = cause, !.claim = claim,
                            !.evidence = evidence, !.status = "open", !.resolved = -1]
    OBVIOUS
  <2> HIDE DEF old, case, again, key, rows
  <2>3. ASSUME Shown(old, case)
        PROVE  Shown(again, case) /\ again.status = "open" /\ again.resolved = -1
    <3>1. DOMAIN old = CaseFields \ {"witnesses", "strength"}
      BY <2>3 DEF Shown
    <3>2. /\ DOMAIN again = DOMAIN old /\ again.status = "open" /\ again.resolved = -1
          /\ again.type = old.type /\ again.plaintiff = old.plaintiff
          /\ again.defendant = old.defendant /\ again.filed = old.filed
          /\ again.counsel = old.counsel /\ again.defence = old.defence
          /\ again.admitted = old.admitted /\ again.judgment = old.judgment
      BY <2>2, <3>1 DEF CaseFields
    <3> QED
      BY <2>3, <3>2 DEF Shown
  <2> QED
    BY <2>1, <2>3 DEF case
<1>8. /\ DOMAIN row = CaseFields \ {"witnesses", "strength"} /\ DOMAIN new = CaseFields
      /\ Shown(row, new) /\ StateShown(row, new) /\ ClaimShown(row, new)
  BY DEF Shown, StateShown, ClaimShown, CaseFields
<1> HIDE DEF key, rows, new, row, again
<1>9. DOMAIN f = DOMAIN cases \cup {key} /\ DOMAIN cases' = DOMAIN cases \cup {key}
      /\ DOMAIN g = DOMAIN cases \cup {key}
      /\ \A k \in DOMAIN cases' : \/ cases'[k] = f[k]
                                  \/ k = key /\ \E strength : cases'[k] = [f[k] EXCEPT !.strength = strength]
  <2>1. DOMAIN f = DOMAIN cases \cup {key} /\ DOMAIN g = DOMAIN cases \cup {key}
    BY <1>4
  <2> HIDE DEF f, g
  <2>2. CASE cases' = f
    BY <2>1, <2>2
  <2>3. CASE \E strength : cases' = [f EXCEPT ![key].strength = strength]
    <3>1. PICK strength : cases' = [f EXCEPT ![key].strength = strength]
      BY <2>3
    <3>2. \A k \in DOMAIN f : cases'[k] = IF k = key THEN [f[k] EXCEPT !.strength = strength] ELSE f[k]
      BY <3>1
    <3> QED
      BY <2>1, <3>1, <3>2
  <2> QED
    BY <1>2, <2>1, <2>2, <2>3
<1>10. \A k \in DOMAIN cases : IsCase(cases[k]) /\ cases[k].filed \in 0..tick /\ cases[k].resolved \in -1..tick
  BY <1>5 DEF CasesHold
<1>11. ASSUME NEW k \in DOMAIN cases', k # key
       PROVE  k \in DOMAIN cases /\ cases'[k] = cases[k] /\ g[k] = rows[k]
  BY <1>4, <1>9, <1>11
<1>12. CASE key \notin DOMAIN cases
  <2>1. f[key] = new /\ g[key] = row
    BY <1>4, <1>12
  <2>2. Shown(row, cases'[key]) /\ StateShown(row, cases'[key]) /\ ClaimShown(row, cases'[key])
    <3> DEFINE c == cases'[key]
    <3>1. c = new \/ \E strength : c = [new EXCEPT !.strength = strength]
      BY <1>9, <2>1
    <3> HIDE DEF c
    <3>2. c = new => Shown(row, c) /\ StateShown(row, c) /\ ClaimShown(row, c)
      BY <1>8
    <3>3. ASSUME \E strength : c = [new EXCEPT !.strength = strength]
          PROVE  Shown(row, c) /\ StateShown(row, c) /\ ClaimShown(row, c)
      <4>1. PICK strength : c = [new EXCEPT !.strength = strength]
        BY <3>3
      <4>2. \A x \in CaseFields \ {"strength"} : c[x] = new[x]
        BY <1>8, <4>1 DEF CaseFields
      <4> QED
        BY <1>8, <4>2 DEF Shown, StateShown, ClaimShown, CaseFields
    <3> QED
      BY <3>1, <3>2, <3>3 DEF c
  <2>3. ASSUME NEW k \in DOMAIN cases'
        PROVE  /\ Shown(g[k], cases'[k]) /\ StateShown(g[k], cases'[k])
               /\ ClaimShown(g[k], cases'[k]) \/ SettledIn(cases', cases'[k].filed)
    <3>1. CASE k = key
      BY <2>1, <2>2, <3>1
    <3>2. CASE k # key
      <4>1. k \in DOMAIN cases /\ cases'[k] = cases[k] /\ g[k] = rows[k]
        BY <1>11, <3>2
      <4>2. SettledIn(cases, cases[k].filed) => SettledIn(cases', cases[k].filed)
        BY SettledStays
      <4> HIDE DEF g
      <4> QED
        BY <1>5, <4>1, <4>2 DEF CaseRowsHold, rows
    <3> QED
      BY <3>1, <3>2
  <2> HIDE DEF f, g
  <2> QED
    BY <1>3, <1>9, <2>3 DEF CaseRowsHold
<1>13. CASE key \in DOMAIN cases
  <2>1. f[key] = cases[key] /\ g[key] = again
    BY <1>4, <1>13
  <2>2. SettledIn(cases', tick)
    BY <1>6, <1>13, SettledStays
  <2>3. Shown(again, cases[key]) /\ StateShown(again, cases[key])
    <3>1. IsCase(cases[key]) /\ cases[key].filed = tick /\ cases[key].resolved \in -1..tick /\ tick \in Nat
      BY <1>5, <1>6, <1>10, <1>13 DEF CasesHold
    <3>2. cases[key].status = "resolved" => cases[key].resolved < tick
      BY <1>5, <1>13 DEF IdsHold
    <3>3. cases[key].status # "resolved"
      <4>1. cases[key].status = "resolved" => cases[key].filed <= cases[key].resolved
        BY <3>1 DEF IsCase
      <4> QED
        BY <3>1, <3>2, <4>1
    <3>4. cases[key].status = "settled" => cases[key].resolved = cases[key].filed
      <4>1. cases[key].status = "settled" => cases[key].filed <= cases[key].resolved
        BY <3>1 DEF IsCase
      <4> QED
        BY <3>1, <4>1
    <3>5. cases[key].status = "open" => cases[key].resolved = -1
      BY <3>1 DEF IsCase
    <3>6. cases[key].status \in {"open", "settled", "resolved"}
      BY <3>1 DEF IsCase
    <3> QED
      BY <1>4, <1>7, <1>13, <3>3, <3>4, <3>5, <3>6 DEF StateShown
  <2>4. Shown(again, cases'[key]) /\ StateShown(again, cases'[key]) /\ cases'[key].filed = tick
    <3> DEFINE c == cases'[key]
               b == cases[key]
    <3>1. c = b \/ \E strength : c = [b EXCEPT !.strength = strength]
      BY <1>9, <2>1
    <3>2. DOMAIN b = CaseFields /\ b.filed = tick
      BY <1>6, <1>10, <1>13 DEF IsCase
    <3>3. Shown(again, b) /\ StateShown(again, b)
      BY <2>3
    <3> HIDE DEF c, b
    <3>4. CASE c = b
      BY <3>2, <3>3, <3>4 DEF c
    <3>5. CASE \E strength : c = [b EXCEPT !.strength = strength]
      <4>1. PICK strength : c = [b EXCEPT !.strength = strength]
        BY <3>5
      <4>2. \A x \in CaseFields \ {"strength"} : c[x] = b[x]
        BY <3>2, <4>1 DEF CaseFields
      <4>3. Shown(again, c) /\ StateShown(again, c) /\ c.filed = tick
        BY <3>2, <3>3, <4>2 DEF Shown, StateShown, CaseFields
      <4> QED
        BY <4>3 DEF c
    <3> QED
      BY <3>1, <3>4, <3>5
  <2>5. ASSUME NEW k \in DOMAIN cases'
        PROVE  /\ Shown(g[k], cases'[k]) /\ StateShown(g[k], cases'[k])
               /\ ClaimShown(g[k], cases'[k]) \/ SettledIn(cases', cases'[k].filed)
    <3>1. CASE k = key
      BY <2>1, <2>2, <2>4, <3>1
    <3>2. CASE k # key
      <4>1. k \in DOMAIN cases /\ cases'[k] = cases[k] /\ g[k] = rows[k]
        BY <1>11, <3>2
      <4>2. SettledIn(cases, cases[k].filed) => SettledIn(cases', cases[k].filed)
        BY SettledStays
      <4> HIDE DEF g
      <4> QED
        BY <1>5, <4>1, <4>2 DEF CaseRowsHold, rows
    <3> QED
      BY <3>1, <3>2
  <2> HIDE DEF f, g
  <2> QED
    BY <1>3, <1>9, <2>5 DEF CaseRowsHold
<1> QED
  BY <1>12, <1>13

\* Counsel is written in the field of the side that retained it.
LEMMA CounselShown ==
  ASSUME CaseRowsHold, NEW k \in DOMAIN cases, NEW client, NEW counsel,
         DOMAIN tables = {"crimes", "cases", "records"}, IsCase(cases[k])
  PROVE  LET t == CounselRow(k, client, counsel)
             r == Retained(k, client, counsel)
             row == IF client = cases[k].defendant THEN [tables.cases[k] EXCEPT !.defence = counsel]
                    ELSE [tables.cases[k] EXCEPT !.counsel = counsel]
         IN  /\ t.cases = [tables.cases EXCEPT ![k] = row]
             /\ t.records = tables.records /\ DOMAIN t = DOMAIN tables
             /\ Shown(row, r) /\ StateShown(row, r)
             /\ ClaimShown(tables.cases[k], cases[k]) => ClaimShown(row, r)
             /\ r.filed = cases[k].filed
<1> DEFINE old == tables.cases[k]
           c == cases[k]
           r == Retained(k, client, counsel)
           row == IF client = c.defendant THEN [old EXCEPT !.defence = counsel]
                    ELSE [old EXCEPT !.counsel = counsel]
           t == CounselRow(k, client, counsel)
<1>1. /\ t.cases = [tables.cases EXCEPT ![k] = row]
      /\ t.records = tables.records /\ DOMAIN t = DOMAIN tables
  BY DEF CounselRow
<1>2. r = IF client = c.defendant THEN [c EXCEPT !.defence = counsel]
          ELSE [c EXCEPT !.counsel = counsel]
  BY DEF Retained
<1>3. Shown(old, c) /\ StateShown(old, c) /\ DOMAIN c = CaseFields
  BY DEF CaseRowsHold, IsCase
<1>4. DOMAIN old = CaseFields \ {"witnesses", "strength"}
  BY <1>3 DEF Shown
<1> HIDE DEF old, c, r, t
<1>5. Shown(row, r) /\ StateShown(row, r) /\ (ClaimShown(old, c) => ClaimShown(row, r)) /\ r.filed = c.filed
  <2>1. CASE client = c.defendant
    <3>1. row = [old EXCEPT !.defence = counsel] /\ r = [c EXCEPT !.defence = counsel]
      BY <1>2, <2>1
    <3> HIDE DEF row
    <3>2. /\ DOMAIN row = DOMAIN old /\ row.defence = counsel /\ r.defence = counsel
          /\ \A x \in CaseFields \ {"witnesses", "strength", "defence"} : row[x] = old[x] /\ r[x] = c[x]
      BY <1>3, <1>4, <3>1 DEF CaseFields
    <3> QED
      BY <1>3, <1>4, <3>2 DEF Shown, StateShown, ClaimShown, CaseFields
  <2>2. CASE client # c.defendant
    <3>1. row = [old EXCEPT !.counsel = counsel] /\ r = [c EXCEPT !.counsel = counsel]
      BY <1>2, <2>2
    <3> HIDE DEF row
    <3>2. /\ DOMAIN row = DOMAIN old /\ row.counsel = counsel /\ r.counsel = counsel
          /\ \A x \in CaseFields \ {"witnesses", "strength", "counsel"} : row[x] = old[x] /\ r[x] = c[x]
      BY <1>3, <1>4, <3>1 DEF CaseFields
    <3> QED
      BY <1>3, <1>4, <3>2 DEF Shown, StateShown, ClaimShown, CaseFields
  <2> QED
    BY <2>1, <2>2
<1> HIDE DEF row
<1> QED
  BY <1>1, <1>5 DEF row, old, c, r, t

\* A hearing writes the judgment into the row of its case and counts a conviction.
LEMMA VerdictShown ==
  ASSUME IInv, TablesHold, NEW k, NEW case, NEW m, NEW t, NEW j, NEW r,
         HearingOf(k, case, m, t), VerdictOf(k, case, t, j, r), DocketSteps
  PROVE  CaseRowsHold' /\ DOMAIN tables' = DOMAIN tables /\ tables'.records = records'
<1>1. /\ k \in DOMAIN cases /\ Triable(case) /\ Same(case, cases[k])
      /\ r = [WithEvidence(case) EXCEPT !.status = "resolved", !.resolved = tick, !.judgment = {j}]
      /\ cases' = [cases EXCEPT ![k] = r] /\ Same(r, cases[k])
      /\ tables' = JudgedRows(t, k, WithEvidence(case), j)
      /\ Convicted(r.defendant, j)
      /\ \/ case = cases[k] /\ t = tables
         \/ \E l : /\ case = Retained(k, cases[k].defendant, l)
                   /\ t = CounselRow(k, cases[k].defendant, l)
  BY DEF HearingOf, VerdictOf
<1>2. /\ DOMAIN tables = {"crimes", "cases", "records"} /\ tables.records = records /\ CaseRowsHold
      /\ IsCase(cases[k]) /\ DOMAIN tables.cases = DOMAIN cases
  BY <1>1 DEF TablesHold, CaseRowsHold, IInv, CasesHold
<1>3. PICK old :
        /\ DOMAIN t.cases = DOMAIN tables.cases /\ t.cases[k] = old
        /\ \A l \in DOMAIN cases : l # k => t.cases[l] = tables.cases[l]
        /\ t.records = records /\ DOMAIN t = {"crimes", "cases", "records"}
        /\ Shown(old, case)
        /\ ClaimShown(tables.cases[k], cases[k]) => ClaimShown(old, case)
  <2>1. CASE case = cases[k] /\ t = tables
    BY <1>1, <1>2, <2>1 DEF CaseRowsHold
  <2>2. CASE \E l : /\ case = Retained(k, cases[k].defendant, l)
                    /\ t = CounselRow(k, cases[k].defendant, l)
    <3>1. PICK l : /\ case = Retained(k, cases[k].defendant, l)
                   /\ t = CounselRow(k, cases[k].defendant, l)
      BY <2>2
    <3> DEFINE client == cases[k].defendant
               row == IF client = cases[k].defendant THEN [tables.cases[k] EXCEPT !.defence = l]
                      ELSE [tables.cases[k] EXCEPT !.counsel = l]
    <3>2. /\ CounselRow(k, client, l).cases = [tables.cases EXCEPT ![k] = row]
          /\ CounselRow(k, client, l).records = tables.records
          /\ DOMAIN CounselRow(k, client, l) = DOMAIN tables
          /\ Shown(row, Retained(k, client, l))
          /\ ClaimShown(tables.cases[k], cases[k]) => ClaimShown(row, Retained(k, client, l))
      BY <1>1, <1>2, CounselShown
    <3> HIDE DEF row
    <3>3. /\ DOMAIN t.cases = DOMAIN tables.cases /\ t.cases[k] = row
          /\ \A z \in DOMAIN cases : z # k => t.cases[z] = tables.cases[z]
      BY <1>1, <1>2, <3>1, <3>2
    <3> QED
      BY <1>2, <3>1, <3>2, <3>3
  <2> QED
    BY <1>1, <2>1, <2>2
<1> DEFINE w == WithEvidence(case)
           now == [old EXCEPT !.admitted = w.admitted, !.status = "resolved", !.resolved = tick,
                              !.judgment = {j}]
           guilty == IF j.verdict = "guilty" THEN 1 ELSE 0
<1>4. w = case \/ \E a : \E s \in Int : w = [case EXCEPT !.admitted = a, !.strength = s]
  BY <1>1, EvidenceKeeps DEF Triable
<1>5. t.cases[k] = old
  BY <1>3
<1>6. /\ tables'.cases = [t.cases EXCEPT ![k] = now]
      /\ tables'.records = [t.records EXCEPT ![old.defendant] = @ + guilty]
      /\ DOMAIN tables' = DOMAIN t
  <2>1. tables' = [t EXCEPT !.cases[k].admitted = w.admitted, !.cases[k].status = "resolved",
            !.cases[k].resolved = tick, !.cases[k].judgment = {j},
            !.records[t.cases[k].defendant] = @ + guilty]
    BY <1>1 DEF JudgedRows
  <2> DEFINE x == w.admitted
             all == t.cases
             d == t.cases[k].defendant
  <2>2. /\ tables'.cases = [all EXCEPT ![k].admitted = x, ![k].status = "resolved",
                                        ![k].resolved = tick, ![k].judgment = {j}]
        /\ tables'.records = [t.records EXCEPT ![d] = @ + guilty]
        /\ DOMAIN tables' = DOMAIN t
    <3> HIDE DEF w, guilty
    <3> QED
      BY <1>3, <2>1
  <2>3. d = old.defendant /\ all[k] = old /\ k \in DOMAIN all
    BY <1>1, <1>2, <1>3
  <2> HIDE DEF x, d, guilty
  <2>4. [all EXCEPT ![k].admitted = x, ![k].status = "resolved",
                    ![k].resolved = tick, ![k].judgment = {j}]
          = [all EXCEPT ![k] = [all[k] EXCEPT !.admitted = x, !.status = "resolved",
                                              !.resolved = tick, !.judgment = {j}]]
    BY <2>3
  <2> QED
    BY <2>2, <2>3, <2>4 DEF x
<1>7. tables'.cases = [tables.cases EXCEPT ![k] = now]
  BY <1>1, <1>2, <1>3, <1>6
<1>8. DOMAIN case = CaseFields /\ now = [old EXCEPT !.admitted = w.admitted, !.status = "resolved",
                                          !.resolved = tick, !.judgment = {j}]
      /\ r = [w EXCEPT !.status = "resolved", !.resolved = tick, !.judgment = {j}]
  BY <1>1 DEF Triable
<1> HIDE DEF w, now, guilty
<1>9. /\ Shown(now, r) /\ StateShown(now, r) /\ r.filed = case.filed
      /\ ClaimShown(old, case) => ClaimShown(now, r)
  <2>1. /\ DOMAIN w = CaseFields
        /\ w.type = case.type /\ w.plaintiff = case.plaintiff /\ w.defendant = case.defendant
        /\ w.filed = case.filed /\ w.counsel = case.counsel /\ w.defence = case.defence
        /\ w.crime = case.crime /\ w.cause = case.cause /\ w.claim = case.claim
        /\ w.evidence = case.evidence
    <3>1. CASE w = case
      BY <1>8, <3>1
    <3>2. CASE \E a : \E s \in Int : w = [case EXCEPT !.admitted = a, !.strength = s]
      <4>1. PICK a : \E s \in Int : w = [case EXCEPT !.admitted = a, !.strength = s]
        BY <3>2
      <4>2. PICK s \in Int : w = [case EXCEPT !.admitted = a, !.strength = s]
        BY <4>1
      <4> QED
        BY <1>8, <4>2 DEF CaseFields
    <3> QED
      BY <1>4, <3>1, <3>2
  <2>2. /\ r.type = w.type /\ r.plaintiff = w.plaintiff /\ r.defendant = w.defendant
        /\ r.filed = w.filed /\ r.counsel = w.counsel /\ r.defence = w.defence
        /\ r.crime = w.crime /\ r.cause = w.cause /\ r.claim = w.claim /\ r.evidence = w.evidence
        /\ r.admitted = w.admitted /\ r.status = "resolved" /\ r.resolved = tick /\ r.judgment = {j}
    BY <1>8, <2>1 DEF CaseFields
  <2>3. DOMAIN old = CaseFields \ {"witnesses", "strength"}
    BY <1>3 DEF Shown
  <2>4. /\ DOMAIN now = CaseFields \ {"witnesses", "strength"}
        /\ now.type = old.type /\ now.plaintiff = old.plaintiff /\ now.defendant = old.defendant
        /\ now.filed = old.filed /\ now.counsel = old.counsel /\ now.defence = old.defence
        /\ now.crime = old.crime /\ now.cause = old.cause /\ now.claim = old.claim
        /\ now.evidence = old.evidence
        /\ now.admitted = w.admitted /\ now.status = "resolved" /\ now.resolved = tick
        /\ now.judgment = {j}
    BY <1>8, <2>3 DEF CaseFields
  <2>5. Shown(now, r)
    BY <1>3, <2>1, <2>2, <2>4 DEF Shown
  <2>6. StateShown(now, r)
    BY <2>2, <2>4 DEF StateShown
  <2>7. ClaimShown(old, case) => ClaimShown(now, r)
    BY <2>1, <2>2, <2>4 DEF ClaimShown
  <2> QED
    BY <2>1, <2>2, <2>5, <2>6, <2>7
<1>10. ClaimShown(now, r) \/ SettledIn(cases, r.filed)
  <2>1. ClaimShown(tables.cases[k], cases[k]) \/ SettledIn(cases, cases[k].filed)
    BY <1>1, <1>2 DEF CaseRowsHold
  <2> QED
    BY <1>1, <1>3, <1>9, <2>1 DEF Same
<1>11. CaseRowsHold'
  BY <1>1, <1>2, <1>7, <1>9, <1>10, RowChanged
<1>12. tables'.records = records'
  <2>1. old.defendant = r.defendant
    BY <1>1, <1>3 DEF Shown, Same
  <2>2. records' = [records EXCEPT ![r.defendant] = @ + guilty]
    BY <1>1 DEF Convicted, guilty
  <2> QED
    BY <1>3, <1>6, <2>1, <2>2
<1> QED
  BY <1>2, <1>3, <1>6, <1>11, <1>12

\* The steps that change one case and its row in the same fields.
LEMMA RetainShown ==
  ASSUME IInv, TablesHold, DocketSteps, NEW k \in DOMAIN cases, NEW a, NEW l, Retain(a, k, l)
  PROVE  CaseRowsHold'
<1> DEFINE client == a
           r == Retained(k, client, l)
           row == IF client = cases[k].defendant THEN [tables.cases[k] EXCEPT !.defence = l]
                  ELSE [tables.cases[k] EXCEPT !.counsel = l]
<1>1. /\ CaseRowsHold /\ IsCase(cases[k]) /\ DOMAIN tables = {"crimes", "cases", "records"}
      /\ cases' = [cases EXCEPT ![k] = r] /\ tables' = CounselRow(k, a, l)
  BY DEF IInv, CasesHold, TablesHold, Retain
<1>2. /\ CounselRow(k, client, l).cases = [tables.cases EXCEPT ![k] = row]
      /\ CounselRow(k, client, l).records = tables.records
      /\ DOMAIN CounselRow(k, client, l) = DOMAIN tables
      /\ Shown(row, r) /\ StateShown(row, r)
      /\ ClaimShown(tables.cases[k], cases[k]) => ClaimShown(row, r)
      /\ r.filed = cases[k].filed
  <2>1. CaseRowsHold /\ IsCase(cases[k]) /\ DOMAIN tables = {"crimes", "cases", "records"}
    BY <1>1
  <2> HIDE DEF client
  <2> QED
    BY <2>1, CounselShown
<1> HIDE DEF r, row
<1>3. tables'.cases = [tables.cases EXCEPT ![k] = row]
  BY <1>1, <1>2
<1>4. ClaimShown(row, r) \/ SettledIn(cases, r.filed)
  BY <1>1, <1>2 DEF CaseRowsHold
<1> QED
  BY <1>1, <1>2, <1>3, <1>4, RowChanged

LEMMA TestimonyShown ==
  ASSUME IInv, TablesHold, DocketSteps, NEW k \in DOMAIN cases, NEW w, NEW lies, Testify(w, k, lies)
  PROVE  CaseRowsHold'
<1> DEFINE s == cases[k]
           r == [s EXCEPT !.witnesses = @ \cup {w}]
           row == tables.cases[k]
<1>1. /\ CaseRowsHold /\ IsCase(s) /\ DOMAIN tables = {"crimes", "cases", "records"}
      /\ cases' = [cases EXCEPT ![k] = r] /\ tables'.cases = tables.cases
  BY DEF IInv, CasesHold, TablesHold, Testify, Offend
<1>2. \A f \in CaseFields \ {"witnesses"} : r[f] = s[f]
  BY <1>1 DEF IsCase, CaseFields
<1>3. Shown(row, s) /\ StateShown(row, s) /\ (ClaimShown(row, s) \/ SettledIn(cases, s.filed))
  BY <1>1 DEF CaseRowsHold
<1> HIDE DEF s, r, row
<1>4. /\ Shown(row, r) /\ StateShown(row, r) /\ r.filed = s.filed
      /\ ClaimShown(row, s) => ClaimShown(row, r)
  BY <1>2, <1>3 DEF Shown, StateShown, ClaimShown, CaseFields
<1>5. ASSUME NEW n \in DOMAIN cases'
      PROVE  /\ n \in DOMAIN cases
             /\ Shown(tables'.cases[n], cases'[n]) /\ StateShown(tables'.cases[n], cases'[n])
             /\ ClaimShown(tables'.cases[n], cases'[n]) \/ SettledIn(cases', cases'[n].filed)
  <2>1. n \in DOMAIN cases
    BY <1>1
  <2>2. SettledIn(cases, cases[n].filed) => SettledIn(cases', cases[n].filed)
    BY SettledStays
  <2>3. CASE n = k
    <3>1. cases'[n] = r /\ tables'.cases[n] = row /\ cases[n] = s
      BY <1>1, <2>1, <2>3 DEF row, s
    <3> QED
      BY <1>3, <1>4, <2>1, <2>2, <3>1
  <2>4. CASE n # k
    <3>1. cases'[n] = cases[n] /\ tables'.cases[n] = tables.cases[n]
      BY <1>1, <2>1, <2>4
    <3> QED
      BY <1>1, <2>1, <2>2, <3>1 DEF CaseRowsHold
  <2> QED
    BY <2>3, <2>4
<1> QED
  BY <1>1, <1>5 DEF CaseRowsHold

LEMMA SettlementShown ==
  ASSUME IInv, TablesHold, DocketSteps, NEW k \in DOMAIN cases, NEW a, NEW cents, Settle(a, k, cents)
  PROVE  CaseRowsHold'
<1> DEFINE s == cases[k]
           r == [s EXCEPT !.status = "settled", !.resolved = tick]
           old == tables.cases[k]
           row == [old EXCEPT !.status = "settled", !.resolved = tick]
<1>1. /\ CaseRowsHold /\ IsCase(s) /\ DOMAIN tables = {"crimes", "cases", "records"}
      /\ cases' = [cases EXCEPT ![k].status = "settled", ![k].resolved = tick]
      /\ tables' = [tables EXCEPT !.cases[k].status = "settled", !.cases[k].resolved = tick]
  BY DEF IInv, CasesHold, TablesHold, Settle
<1>2. cases' = [cases EXCEPT ![k] = r]
  BY <1>1
<1>3. tables'.cases = [tables.cases EXCEPT ![k] = row]
  <2> DEFINE all == tables.cases
  <2>1. tables'.cases = [all EXCEPT ![k].status = "settled", ![k].resolved = tick] /\ k \in DOMAIN all
    BY <1>1 DEF CaseRowsHold
  <2> HIDE DEF all
  <2>2. tables'.cases = [all EXCEPT ![k] = [all[k] EXCEPT !.status = "settled", !.resolved = tick]]
    BY <2>1
  <2> QED
    BY <2>2 DEF all
<1>4. Shown(old, s) /\ StateShown(old, s) /\ (ClaimShown(old, s) \/ SettledIn(cases, s.filed))
  BY <1>1 DEF CaseRowsHold
<1>5. DOMAIN s = CaseFields /\ DOMAIN old = CaseFields \ {"witnesses", "strength"}
  BY <1>1, <1>4 DEF IsCase, Shown
<1>6. /\ DOMAIN row = DOMAIN old
      /\ \A f \in CaseFields \ {"witnesses", "strength", "status", "resolved"} : row[f] = old[f] /\ r[f] = s[f]
      /\ row.status = "settled" /\ r.status = "settled" /\ row.resolved = tick /\ r.resolved = tick
  BY <1>5 DEF CaseFields
<1> HIDE DEF s, r, old, row
<1>7. /\ Shown(row, r) /\ StateShown(row, r) /\ r.filed = s.filed
      /\ ClaimShown(old, s) => ClaimShown(row, r)
  BY <1>4, <1>5, <1>6 DEF Shown, StateShown, ClaimShown, CaseFields
<1>8. ClaimShown(row, r) \/ SettledIn(cases, r.filed)
  BY <1>4, <1>7
<1> QED
  BY <1>1, <1>2, <1>3, <1>7, <1>8, RowChanged

\* The tables follow the registers.
LEMMA TablesStep ==
  ASSUME IInv, Next, TablesHold
  PROVE  TablesHold'
<1>0. CasesHold /\ CrimesHold /\ MoneyHold /\ CaseRowsHold /\ DOMAIN tables = {"crimes", "cases", "records"}
      /\ tables.records = records
  BY DEF IInv, TablesHold
<1>1. DocketSteps
  BY <1>0, CaseStep
<1>2. CrimeRowsHold' /\ IdsHold'
  BY CrimeRowsStep, IdsStep DEF TablesHold
<1>3. CaseRowsHold' /\ DOMAIN tables' = DOMAIN tables /\ tables'.records = records'
  <2>1. CASE Hearing
    <3>1. PICK k, case, m, t : HearingOf(k, case, m, t)
      BY <1>0, <2>1, HearingIs
    <3>2. PICK j, r : VerdictOf(k, case, t, j, r)
      BY <1>0, <3>1, VerdictIs
    <3> QED
      BY <1>1, <3>1, <3>2, VerdictShown
  <2>2. CASE \E s \in Suits : FileSuit(s)
    <3>1. PICK s \in Suits : FileSuit(s)
      BY <2>2
    <3>2. /\ cases' = Filed(s[7], s[1], s[2], s[5], s[3], s[4], s[6])
          /\ tables' = [tables EXCEPT !.cases = CaseRows(s[7], s[1], s[2], s[5], s[3], s[4], s[6])]
          /\ tick' = tick /\ stage \in {"actions", "queue"} /\ records' = records
      BY <3>1 DEF FileSuit, File, Acts, custodyVars
    <3>3. CaseRowsHold'
      BY <1>1, <3>2, FilingShown
    <3> QED
      BY <1>0, <3>2, <3>3
  <2>3. CASE \E c \in DOMAIN crimes : Investigate(c)
    <3>1. PICK c \in DOMAIN crimes : Investigate(c)
      BY <2>3
    <3>2. tick' = tick /\ stage \in {"actions", "queue"} /\ records' = records
      BY <3>1 DEF Investigate, custodyVars
    <3>3. CASE cases' = cases /\ tables' = tables
      BY <1>0, <3>2, <3>3, RowsStay
    <3>4. CASE ~(cases' = cases /\ tables' = tables)
      <4>1. PICK strength : FileCriminal(c, EvidenceOf(c), strength)
        BY <3>1, <3>4 DEF Investigate
      <4> DEFINE p == crimes[c].perpetrator
                 type == crimes[c].type
                 amount == crimes[c].amount
                 E == EvidenceOf(c)
      <4>2. /\ cases' = [Filed("criminal", Chief, p, c, type, amount, E)
                           EXCEPT ![CaseKey(Chief, p)].strength = strength]
            /\ tables' = [tables EXCEPT !.cases = CaseRows("criminal", Chief, p, c, type, amount, E)]
        BY <4>1 DEF FileCriminal
      <4> HIDE DEF p, type, amount, E
      <4>3. \E x : cases' = [Filed("criminal", Chief, p, c, type, amount, E)
                               EXCEPT ![CaseKey(Chief, p)].strength = x]
        BY <4>2
      <4>4. CaseRowsHold'
        BY <1>1, <3>2, <4>2, <4>3, FilingShown
      <4> QED
        BY <1>0, <3>2, <4>2, <4>4
    <3> QED
      BY <3>3, <3>4
  <2>4. CASE \E k \in DOMAIN cases, l \in DOMAIN Lawyers, a \in Clients : Retain(a, k, l)
    <3>1. PICK k \in DOMAIN cases, l \in DOMAIN Lawyers, a \in Clients : Retain(a, k, l)
      BY <2>4
    <3>2. CaseRowsHold'
      BY <1>1, <3>1, RetainShown
    <3>3. DOMAIN tables' = DOMAIN tables /\ tables'.records = tables.records /\ records' = records
      BY <1>0, <3>1 DEF Retain, CounselRow, custodyVars
    <3> QED
      BY <1>0, <3>2, <3>3
  <2>5. CASE \E k \in DOMAIN cases, w \in Testimony : Testify(w[1], k, w[2])
    <3>1. PICK k \in DOMAIN cases, w \in Testimony : Testify(w[1], k, w[2])
      BY <2>5
    <3>2. CaseRowsHold'
      BY <1>1, <3>1, TestimonyShown
    <3>3. DOMAIN tables' = DOMAIN tables /\ tables'.records = tables.records /\ records' = records
      BY <1>0, <3>1 DEF Testify, Offend, custodyVars
    <3> QED
      BY <1>0, <3>2, <3>3
  <2>6. CASE \E k \in DOMAIN cases, o \in Offers : Settle(o[1], k, o[2])
    <3>1. PICK k \in DOMAIN cases, o \in Offers : Settle(o[1], k, o[2])
      BY <2>6
    <3>2. CaseRowsHold'
      BY <1>1, <3>1, SettlementShown
    <3>3. DOMAIN tables' = DOMAIN tables /\ tables'.records = tables.records /\ records' = records
      BY <1>0, <3>1 DEF Settle, custodyVars
    <3> QED
      BY <1>0, <3>2, <3>3
  <2>7. CASE \/ \E o \in Offences : CommitCrime(o)
             \/ \E t \in Trades : TradeInside(t)
             \/ \E a \in Agents : DefaultFunded(a)
             \/ \E c \in DOMAIN crimes, r \in Agents : Report(r, c)
             \/ run_hazard
    <3>1. /\ cases' = cases /\ records' = records
          /\ tables'.cases = tables.cases /\ tables'.records = tables.records
          /\ DOMAIN tables' = DOMAIN tables
      BY <1>0, <2>7 DEF CommitCrime, TradeInside, DefaultFunded, Offend, Report, run_hazard, custodyVars
    <3> QED
      BY <1>0, <3>1, RowsStay
  <2>8. CASE \/ \E i \in Incomes : PayAndGarnish(i[1], i[2])
             \/ EndActions \/ EndQueue \/ release_due \/ DefenderUnpaid \/ EndSession \/ NextTick
             \/ Ended
    <3>1. cases' = cases /\ records' = records /\ tables' = tables
      BY <2>8 DEF PayAndGarnish, EndActions, EndQueue, release_due, DefenderUnpaid, EndSession,
         NextTick, Ended, custodyVars, vars
    <3> QED
      BY <1>0, <3>1, RowsStay
  <2> QED
    BY <2>1, <2>2, <2>3, <2>4, <2>5, <2>6, <2>7, <2>8 DEF Next, Hearing
<1> QED
  BY <1>0, <1>2, <1>3 DEF TablesHold

-----------------------------------------------------------------------------
(* The books of the courts *)

\* The clock, the phase and the count of inputs stay within their bounds.
ClockHold ==
  /\ tick \in 0..LastTick /\ inputs \in 0..MaxInputs
  /\ stage \in {"actions", "hazard", "queue", "release", "court", "night", "raised"}

PenaltiesHold == \A d \in Agents : PenaltiesSum(d) = Balance(d)

BooksHold ==
  /\ IInv
  /\ ClockHold
  /\ PenaltiesHold
  /\ RecordsHold
  /\ CustodyHold
  /\ TablesHold

LEMMA ClockStep ==
  ASSUME IInv, Next, ClockHold
  PROVE  ClockHold'
<1>1. CASE Hearing
  <2>1. CasesHold /\ CrimesHold /\ MoneyHold
    BY DEF IInv
  <2>2. PICK k, case, m, t : HearingOf(k, case, m, t)
    BY <1>1, <2>1, HearingIs
  <2>3. PICK j, r : VerdictOf(k, case, t, j, r)
    BY <2>1, <2>2, VerdictIs
  <2> QED
    BY <2>3 DEF VerdictOf, ClockHold
<1>2. CASE \/ \E o \in Offences : CommitCrime(o)
           \/ \E t \in Trades : TradeInside(t)
           \/ \E a \in Agents : DefaultFunded(a)
           \/ \E c \in DOMAIN crimes, r \in Agents : Report(r, c)
           \/ \E s \in Suits : FileSuit(s)
           \/ \E k \in DOMAIN cases, l \in DOMAIN Lawyers, a \in Clients : Retain(a, k, l)
           \/ \E k \in DOMAIN cases, w \in Testimony : Testify(w[1], k, w[2])
           \/ \E k \in DOMAIN cases, o \in Offers : Settle(o[1], k, o[2])
           \/ \E i \in Incomes : PayAndGarnish(i[1], i[2])
  <2>1. tick' = tick /\ stage' = stage /\ inputs < MaxInputs /\ inputs' = inputs + 1
    BY <1>2 DEF CommitCrime, TradeInside, DefaultFunded, Report, FileSuit, Retain, Testify, Settle,
       PayAndGarnish, Acts
  <2> QED
    BY <2>1, LawAssumption DEF ClockHold
<1>3. CASE \/ EndActions \/ run_hazard \/ (\E c \in DOMAIN crimes : Investigate(c))
           \/ EndQueue \/ release_due \/ DefenderUnpaid \/ EndSession \/ NextTick \/ Ended
  <2>1. /\ tick' = tick \/ (tick < LastTick /\ tick' = tick + 1)
        /\ inputs' = inputs
        /\ stage' = stage \/ stage' \in {"actions", "hazard", "queue", "release", "court", "night", "raised"}
    BY <1>3 DEF EndActions, run_hazard, Investigate, EndQueue, release_due, DefenderUnpaid, EndSession,
       NextTick, Ended, vars
  <2> QED
    BY <2>1, LawAssumption DEF ClockHold
<1> QED
  BY <1>1, <1>2, <1>3 DEF Next, Hearing

\* The books hold at the start.
LEMMA BooksOpen ==
  ASSUME Init
  PROVE  BooksHold
<1>1. ClockHold
  BY LawAssumption DEF Init, ClockHold
<1>2. cases = <<>> /\ DOMAIN cases = {} /\ crimes = <<>> /\ receivables = <<>> /\ DOMAIN receivables = {}
      /\ DOMAIN crimes = {}
  BY DEF Init
<1>3. ASSUME NEW d \in Agents
      PROVE  PenaltiesSum(d) = Balance(d)
  <2>1. DOMAIN [k \in JudgedAgainst(d) |-> Penal(crimes, cases[k])] = {}
    BY <1>2 DEF JudgedAgainst
  <2>2. DOMAIN [r \in Debts(receivables, d) |-> receivables[r].outstanding] = {}
    BY <1>2 DEF Debts
  <2>3. PenaltiesSum(d) = 0 /\ OwedBy(receivables, d) = 0
    BY <2>1, <2>2, SumEmpty DEF PenaltiesSum, OwedBy
  <2>4. paid[d] = 0
    BY DEF Init, Owners
  <2> QED
    BY <2>3, <2>4 DEF Balance
<1>4. RecordsHold
  <2>1. \A a \in Agents : Convictions(a) = {}
    BY <1>2 DEF Convictions
  <2> QED
    BY <2>1, FS_EmptySet DEF Init, RecordsHold
<1>5. CustodyHold
  <2>1. sentences = <<>> /\ DOMAIN sentences = {} /\ location = [a \in Agents |-> Home[a]]
        /\ stage = "actions"
    BY DEF Init
  <2>2. IsFiniteSet(DOMAIN sentences) /\ Cardinality(DOMAIN sentences) = 0
    BY <2>1, FS_EmptySet
  <2>3. 0 <= Cfg.prison_capacity
    BY SettingsAssumption
  <2> QED
    BY <2>1, <2>2, <2>3 DEF CustodyHold, Places, Homed
<1>6. TablesHold
  <2>1. tables = [crimes |-> <<>>, cases |-> <<>>, records |-> records]
    BY DEF Init
  <2>2. DOMAIN tables = {"crimes", "cases", "records"} /\ tables.crimes = <<>> /\ tables.cases = <<>>
        /\ tables.records = records
    BY <2>1
  <2>3. CrimeRowsHold
    BY <1>2, <2>2 DEF CrimeRowsHold, Range
  <2>4. CaseRowsHold /\ IdsHold
    BY <1>2, <2>2 DEF CaseRowsHold, IdsHold
  <2> QED
    BY <2>2, <2>3, <2>4 DEF TablesHold
<1> QED
  BY <1>1, <1>3, <1>4, <1>5, <1>6, DocketOpens DEF BooksHold, PenaltiesHold

\* Every step keeps the books.
LEMMA BooksStay ==
  ASSUME BooksHold, [Next]_vars
  PROVE  BooksHold'
<1>1. CASE Next
  <2>1. IInv'
    BY <1>1, DocketStays DEF BooksHold
  <2>2. ASSUME NEW d \in Agents
        PROVE  PenaltiesSum(d)' = Balance(d)'
    BY <1>1, PenaltiesStep DEF BooksHold, PenaltiesHold
  <2>3. ClockHold' /\ RecordsHold' /\ CustodyHold' /\ TablesHold'
    BY <1>1, ClockStep, RecordsStep, CustodyStep, TablesStep DEF BooksHold
  <2> QED
    BY <2>1, <2>2, <2>3 DEF BooksHold, PenaltiesHold
<1>2. CASE UNCHANGED vars
  <2>1. IInv'
    BY <1>2, DocketStays DEF BooksHold
  <2>2. ClockHold' /\ RecordsHold' /\ CustodyHold'
    BY <1>2 DEF BooksHold, ClockHold, RecordsHold, Convictions, CustodyHold, Homed, Places,
       StartsDay, vars
  <2>3. PenaltiesHold'
    BY <1>2 DEF BooksHold, PenaltiesHold, PenaltiesSum, JudgedAgainst, Balance, vars
  <2>4. TablesHold'
    BY <1>2 DEF BooksHold, TablesHold, CrimeRowsHold, CaseRowsHold, IdsHold, OpenCases, vars
  <2> QED
    BY <2>1, <2>2, <2>3, <2>4 DEF BooksHold
<1> QED
  BY <1>1, <1>2

LEMMA BooksAlwaysHold == Spec => []BooksHold
BY BooksOpen, BooksStay, PTL DEF Spec

LEMMA TypesFollow ==
  ASSUME BooksHold
  PROVE  TypeOK
<1>1. IsDue(receivables) /\ money \in [Owners -> Nat]
  BY DEF BooksHold, IInv, MoneyHold
<1>2. \A r \in DOMAIN receivables : receivables[r].outstanding \in Nat
  BY <1>1, DebtsSummable
<1>3. \A k \in DOMAIN cases : cases[k].status \in {"open", "settled", "resolved"}
  BY DEF BooksHold, IInv, CasesHold, IsCase
<1>4. location \in [Agents -> {Home[a] : a \in Agents} \cup ToSet(Prisons)]
  BY DEF BooksHold, CustodyHold, Places
<1> QED
  BY <1>1, <1>2, <1>3, <1>4 DEF BooksHold, ClockHold, TypeOK

LEMMA PenaltiesFollow ==
  ASSUME BooksHold
  PROVE  PenaltiesAccounted /\ RecordCountsConvictions
<1>1. ASSUME NEW d \in Agents
      PROVE  SumOf([k \in JudgedAgainst(d) |-> Penalty(cases[k])])
               = paid[d] + SumOf([r \in DebtsOf(d) |-> receivables[r].outstanding])
  <2>1. [k \in JudgedAgainst(d) |-> Penalty(cases[k])] = [k \in JudgedAgainst(d) |-> Penal(crimes, cases[k])]
    <3>1. \A k \in JudgedAgainst(d) : Penalty(cases[k]) = Penal(crimes, cases[k])
      BY PenaltyIs
    <3> QED
      BY <3>1
  <2>2. DebtsOf(d) = Debts(receivables, d)
    BY DEF DebtsOf, Debts
  <2>3. PenaltiesSum(d) = Balance(d)
    BY DEF BooksHold, PenaltiesHold
  <2> QED
    BY <2>1, <2>2, <2>3 DEF PenaltiesSum, Balance, OwedBy
<1>2. RecordCountsConvictions
  BY DEF BooksHold, RecordsHold, RecordCountsConvictions, Convictions
<1> QED
  BY <1>1, <1>2 DEF PenaltiesAccounted

LEMMA TablesFollow ==
  ASSUME BooksHold
  PROVE  TablesAgree
<1>1. ASSUME NEW c \in DOMAIN crimes
      PROVE  /\ \A f \in DOMAIN crimes[c] \ {"investigated", "amount"} : tables.crimes[c][f] = crimes[c][f]
             /\ \/ tables.crimes[c].amount = crimes[c].amount
                \/ crimes[c].type = "theft" /\ tables.crimes[c].amount > crimes[c].amount
  <2>1. CrimeShown(tables.crimes[c], crimes[c]) /\ DOMAIN crimes[c] = CrimeFields
    BY DEF BooksHold, IInv, CrimesHold, IsCrime, TablesHold, CrimeRowsHold
  <2> QED
    BY <2>1 DEF CrimeShown, CrimeFields
<1>2. ASSUME NEW k \in DOMAIN cases
      PROVE  /\ Shows(k, {"type", "plaintiff", "defendant", "filed", "counsel", "defence", "admitted",
                          "judgment"})
             /\ \/ Shows(k, {"status", "resolved"})
                \/ /\ cases[k].status = "settled" /\ cases[k].resolved = cases[k].filed
                   /\ tables.cases[k].status = "open"
             /\ \/ Shows(k, {"crime", "cause", "claim", "evidence"})
                \/ \E o \in DOMAIN cases : cases[o].status = "settled" /\ cases[o].resolved = cases[k].filed
  <2>1. /\ Shown(tables.cases[k], cases[k]) /\ StateShown(tables.cases[k], cases[k])
        /\ ClaimShown(tables.cases[k], cases[k]) \/ SettledIn(cases, cases[k].filed)
    BY DEF BooksHold, TablesHold, CaseRowsHold
  <2>2. Shows(k, {"type", "plaintiff", "defendant", "filed", "counsel", "defence", "admitted",
                  "judgment"})
    BY <2>1 DEF Shown, Shows
  <2>3. \/ Shows(k, {"status", "resolved"})
        \/ /\ cases[k].status = "settled" /\ cases[k].resolved = cases[k].filed
           /\ tables.cases[k].status = "open"
    BY <2>1 DEF StateShown, Shows
  <2>4. \/ Shows(k, {"crime", "cause", "claim", "evidence"})
        \/ \E o \in DOMAIN cases : cases[o].status = "settled" /\ cases[o].resolved = cases[k].filed
    BY <2>1 DEF ClaimShown, SettledIn, Shows
  <2> QED
    BY <2>2, <2>3, <2>4
<1> QED
  BY <1>1, <1>2 DEF BooksHold, TablesHold, CrimeRowsHold, CaseRowsHold, TablesAgree

LEMMA PrisonFollows ==
  ASSUME BooksHold
  PROVE  PrisonHoldsTheSentenced
BY DEF BooksHold, CustodyHold, PrisonHoldsTheSentenced

\* Whatever is committed, filed, settled, judged or garnished, and in whatever order: every account
\* stays at or above zero, what a defendant was judged to pay is paid or still owed, its record
\* counts its convictions, the sentenced are in prison and nobody else who has a home, and the rows
\* of the projection show the registers (apply, _award, garnish, record_conviction, commit,
\* release_due, LawProjection.apply).
THEOREM JudgmentsAlwaysAccounted == Spec => []JudgmentsAccounted
<1>1. BooksHold => JudgmentsAccounted
  BY TypesFollow, PenaltiesFollow, TablesFollow, PrisonFollows DEF JudgmentsAccounted
<1> QED
  BY <1>1, BooksAlwaysHold, PTL
=============================================================================
