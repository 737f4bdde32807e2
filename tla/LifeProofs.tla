----------------------------- MODULE LifeProofs -----------------------------
(***************************************************************************)
(* Who lives with whom, for every set of agents, households and agendas.   *)
(*                                                                         *)
(* Every operation of HouseholdRegistry moves some agents: from homes that *)
(* house A it makes homes that house A without those who left, or with     *)
(* those who came (HomesOf).  Each lemma on an operation says so, whatever *)
(* the homes; a step of the institution combines two or three of them, and *)
(* IInv says that between two steps the housed are the living.             *)
(***************************************************************************)
EXTENDS Life, FiniteSetTheorems, TLAPS

-----------------------------------------------------------------------------
(* The inductive invariant *)

IsRow(row) == DOMAIN row = {"live", "members", "head", "shelter", "base", "arrears"}

\* The head of a household is one of its members.
Headed(row) ==
  row.head \in row.members \/ (row.head = Nobody /\ (row.members = {} \/ row.shelter))

Shaped(h) ==
  /\ h = [of |-> h.of, rows |-> h.rows]
  /\ h.of = [a \in Pool |-> h.of[a]]
  /\ h.rows = [id \in DOMAIN h.rows |-> h.rows[id]]
  /\ IsFiniteSet(DOMAIN h.rows) /\ DOMAIN h.rows \subseteq Nat /\ DOMAIN h.rows # {}

\* A household lists agents of A, whose household it is.
RowHolds(h, A, id) ==
  /\ IsRow(h.rows[id]) /\ Headed(h.rows[id])
  /\ h.rows[id].members \subseteq A
  /\ \A a \in h.rows[id].members : h.of[a] = id

IsHoused(h, a) ==
  /\ h.of[a] \in DOMAIN h.rows
  /\ h.rows[h.of[a]].live
  /\ a \in h.rows[h.of[a]].members

\* The homes h house the agents A, and nobody else.
HomesOf(h, A) ==
  /\ Shaped(h)
  /\ \A id \in DOMAIN h.rows : RowHolds(h, A, id)
  /\ \A a \in A : IsHoused(h, a)
  /\ \A a \in Pool \ A : h.of[a] = NoHome

PeopleHold ==
  /\ people \in [Pool -> [status : {"unborn", "alive", "dead", "gone"}, age : Nat,
                          mother : Pool \cup {Nobody}, father : Pool \cup {Nobody}]]
  /\ \A a \in Pool : people[a].mother # a /\ people[a].father # a

\* Nobody dies between the gates and the run that takes the actions.
PendingHold ==
  /\ pending \subseteq Menu
  /\ stage = "process" => \A x \in pending : {x[2], x[3]} \subseteq Alive

IInv ==
  /\ PeopleHold
  /\ PendingHold
  /\ HomesOf(homes, Alive)
  /\ UnionsHold

LEMMA PoolFacts == IsFiniteSet(Pool) /\ Pool \subseteq Nat /\ Nobody \notin Pool
BY LifeAssumption DEF Nobody

-----------------------------------------------------------------------------
(* Choosing from a finite set of numbers *)

LEMMA LeastNumber ==
  ASSUME NEW U, U \subseteq Nat, U # {}
  PROVE  Min(U) \in U /\ \A v \in U : Min(U) <= v
<1> DEFINE R == {z \in Nat \X Nat : z[1] < z[2]}
<1>1. OpToRel(<, Nat) = R
  BY DEF OpToRel
<1>2. IsWellFoundedOn(R, Nat)
  BY <1>1, NatLessThanWellFounded
<1> HIDE DEF R
<1>3. PICK u \in U : \A v \in U : ~(<<v, u>> \in R)
  BY <1>2, WFMin
<1>4. \A v \in U : ~(v < u)
  BY <1>3 DEF R
<1>5. u \in U /\ \A v \in U : u <= v
  BY <1>4
<1> QED
  BY <1>5 DEF Min

\* The first of a set by a key, and by the number where the keys are the same.
Leads(S, f, a) == a \in S /\ \A b \in S : f[a] > f[b] \/ (f[a] = f[b] /\ a <= b)

LEMMA LeadsOf ==
  ASSUME NEW S, S \subseteq Int, NEW f, \A y \in S : f[y] \in Int,
         NEW x \in S, NEW a, Leads(S \ {x}, f, a)
  PROVE  \E c : Leads(S, f, c)
<1>1. CASE f[x] > f[a] \/ (f[x] = f[a] /\ x <= a)
  <2>1. Leads(S, f, x)
    BY <1>1 DEF Leads
  <2> QED
    BY <2>1
<1>2. CASE ~(f[x] > f[a] \/ (f[x] = f[a] /\ x <= a))
  <2>1. Leads(S, f, a)
    BY <1>2 DEF Leads
  <2> QED
    BY <2>1
<1> QED
  BY <1>1, <1>2

\* By minimal counterexample: a set without a first has a smaller one without.
LEMMA Foremost ==
  ASSUME NEW S, IsFiniteSet(S), S # {}, S \subseteq Int, NEW f, \A y \in S : f[y] \in Int
  PROVE  \E a : Leads(S, f, a)
<1> DEFINE Bad == {T \in SUBSET S : T # {} /\ ~\E a : Leads(T, f, a)}
           Sizes == {Cardinality(T) : T \in Bad}
<1> SUFFICES ASSUME Bad # {}
             PROVE  FALSE
  OBVIOUS
<1>1. \A T \in SUBSET S : IsFiniteSet(T) /\ Cardinality(T) \in Nat
  BY FS_Subset, FS_CardinalityType
<1>2. Sizes \subseteq Nat /\ Sizes # {}
  BY <1>1
<1>3. PICK T \in Bad : \A U \in Bad : Cardinality(T) <= Cardinality(U)
  <2>1. Min(Sizes) \in Sizes /\ \A v \in Sizes : Min(Sizes) <= v
    <3> HIDE DEF Sizes
    <3> QED
      BY <1>2, LeastNumber
  <2> QED
    BY <2>1
<1>4. PICK x \in T : TRUE
  OBVIOUS
<1>5. Cardinality(T \ {x}) = Cardinality(T) - 1 /\ T \ {x} \in SUBSET S /\ Cardinality(T) \in Nat
  BY <1>1, <1>4, FS_RemoveElement
<1>6. T \ {x} \notin Bad
  BY <1>1, <1>3, <1>5
<1>7. CASE T \ {x} = {}
  <2>1. T = {x}
    BY <1>4, <1>7
  <2>2. Leads(T, f, x)
    BY <2>1 DEF Leads
  <2> QED
    BY <2>2
<1>8. CASE T \ {x} # {}
  <2>1. PICK a : Leads(T \ {x}, f, a)
    BY <1>5, <1>6, <1>8
  <2>2. \E c : Leads(T, f, c)
    BY <1>4, <2>1, LeadsOf
  <2> QED
    BY <2>2
<1> QED
  BY <1>7, <1>8

LEMMA GreatestNumber ==
  ASSUME NEW S, IsFiniteSet(S), S # {}, S \subseteq Nat
  PROVE  Max(S) \in S /\ \A x \in S : x <= Max(S)
<1> DEFINE f == [x \in S |-> x]
<1>1. PICK a : Leads(S, f, a)
  <2>1. S \subseteq Int /\ \A y \in S : f[y] \in Int
    OBVIOUS
  <2> HIDE DEF f
  <2> QED
    BY <2>1, Foremost
<1>2. a \in S /\ \A x \in S : a >= x
  BY <1>1 DEF Leads
<1> QED
  BY <1>2 DEF Max

\* custody_parent and the head of a new household are one of those to choose from.
LEMMA BestPaidOneOf ==
  ASSUME NEW S, S \subseteq Pool, S # {}
  PROVE  BestPaid(S) \in S
<1> DEFINE f == [x \in Pool |-> Income(x)]
<1>1. S \in SUBSET Pool /\ S \subseteq Int
  BY LifeAssumption
<1>2. \A y \in S : f[y] \in Int
  BY LifeAssumption DEF Income
<1>3. PICK a : Leads(S, f, a)
  <2>1. IsFiniteSet(S)
    BY <1>1, PoolFacts, FS_Subset
  <2> HIDE DEF f
  <2> QED
    BY <2>1, <1>1, <1>2, Foremost
<1>4. a \in S /\ \A b \in S : Income(a) > Income(b) \/ (Income(a) = Income(b) /\ a <= b)
  BY <1>3 DEF Leads
<1> QED
  BY <1>4 DEF BestPaid

-----------------------------------------------------------------------------
(* The operations of HouseholdRegistry *)

\* The housed are those that the homes house.
LEMMA TheHoused ==
  ASSUME NEW h, NEW A \in SUBSET Pool, HomesOf(h, A), NEW S \in SUBSET Pool
  PROVE  HousedOf(h, S) = S \cap A
<1>1. \A a \in Pool : h.of[a] # NoHome => a \in A
  BY DEF HomesOf
<1>2. \A a \in A : h.of[a] \in Nat /\ h.rows[h.of[a]].live
  BY DEF HomesOf, IsHoused, Shaped
<1>3. NoHome \notin Nat
  BY DEF NoHome
<1> QED
  BY <1>1, <1>2, <1>3 DEF HousedOf, Housed

\* A household that some members leave has a head among those that stay.
LEMMA WithoutMembersHolds ==
  ASSUME NEW row, IsRow(row), Headed(row), NEW A \in SUBSET Pool, row.members \subseteq A,
         NEW S
  PROVE  /\ IsRow(WithoutMembers(row, S)) /\ Headed(WithoutMembers(row, S))
         /\ WithoutMembers(row, S).members = row.members \ S
         /\ WithoutMembers(row, S).live = row.live
<1> DEFINE rest == row.members \ S
           head == IF row.head \in rest THEN row.head ELSE IF rest = {} THEN Nobody ELSE Min(rest)
           new == WithoutMembers(row, S)
<1>1. /\ IsRow(new) /\ new.members = rest /\ new.head = head
      /\ new.live = row.live /\ new.shelter = row.shelter
  BY DEF WithoutMembers, IsRow
<1>2. head \in rest \/ (head = Nobody /\ rest = {})
  <2>1. rest \subseteq Nat
    BY PoolFacts
  <2>2. rest # {} => Min(rest) \in rest
    <3> HIDE DEF rest
    <3> QED
      BY <2>1, LeastNumber
  <2> QED
    BY <2>2
<1> HIDE DEF head, rest
<1>3. Headed(new)
  BY <1>1, <1>2 DEF Headed
<1> QED
  BY <1>1, <1>3 DEF rest

\* leave: the leavers are housed no more.
LEMMA LeaveHomes ==
  ASSUME NEW h, NEW A \in SUBSET Pool, HomesOf(h, A), NEW S \in SUBSET A
  PROVE  HomesOf(Leave(h, S), A \ S) /\ DOMAIN Leave(h, S).rows = DOMAIN h.rows
<1> DEFINE g == Leave(h, S)
           gone(id) == \E a \in S : h.of[a] = id
<1>1. /\ g = [of |-> g.of, rows |-> g.rows] /\ g.of = [a \in Pool |-> g.of[a]]
      /\ DOMAIN g.rows = DOMAIN h.rows /\ g.rows = [id \in DOMAIN g.rows |-> g.rows[id]]
      /\ \A a \in Pool : g.of[a] = IF a \in S THEN NoHome ELSE h.of[a]
      /\ \A id \in DOMAIN h.rows :
           g.rows[id] = IF gone(id) THEN WithoutMembers(h.rows[id], S) ELSE h.rows[id]
  BY DEF Leave
<1>2. ASSUME NEW id \in DOMAIN h.rows
      PROVE  /\ RowHolds(g, A \ S, id)
             /\ g.rows[id].members = h.rows[id].members \ S
             /\ g.rows[id].live = h.rows[id].live
  <2>1. RowHolds(h, A, id)
    BY DEF HomesOf
  <2>2. CASE gone(id)
    <3>1. /\ IsRow(g.rows[id]) /\ Headed(g.rows[id]) /\ g.rows[id].live = h.rows[id].live
          /\ g.rows[id].members = h.rows[id].members \ S
      BY <1>1, <2>1, <2>2, WithoutMembersHolds DEF RowHolds
    <3> QED
      BY <1>1, <2>1, <3>1 DEF RowHolds
  <2>3. CASE ~gone(id)
    <3>1. g.rows[id] = h.rows[id] /\ h.rows[id].members \ S = h.rows[id].members
      BY <1>1, <2>1, <2>3 DEF RowHolds
    <3> QED
      BY <1>1, <2>1, <3>1 DEF RowHolds
  <2> QED
    BY <2>2, <2>3
<1> HIDE DEF g
<1>3. ASSUME NEW a \in A \ S
      PROVE  IsHoused(g, a)
  <2>1. IsHoused(h, a)
    BY DEF HomesOf
  <2> QED
    BY <1>1, <1>2, <2>1 DEF IsHoused
<1>4. \A a \in Pool \ (A \ S) : g.of[a] = NoHome
  BY <1>1 DEF HomesOf
<1>5. Shaped(g)
  BY <1>1 DEF Shaped, HomesOf
<1>6. HomesOf(g, A \ S)
  BY <1>1, <1>2, <1>3, <1>4, <1>5 DEF HomesOf
<1> QED
  BY <1>1, <1>6 DEF g

\* A household of its own for each of some agents, headed by one of them.
LEMMA HouseholdHolds ==
  ASSUME NEW S, S \subseteq Pool, S # {}, NEW base
  PROVE  LET row == Household(S, BestPaid(S), FALSE, base)
         IN  IsRow(row) /\ Headed(row) /\ row.members = S /\ row.live
<1>1. BestPaid(S) \in S
  BY BestPaidOneOf
<1> QED
  BY <1>1 DEF Household, IsRow, Headed

\* form: the members are housed, wherever they were before.
LEMMA FormHomes ==
  ASSUME NEW h, NEW A \in SUBSET Pool, HomesOf(h, A),
         NEW S, S \subseteq Pool, S # {}, NEW m
  PROVE  HomesOf(Form(h, S, m), A \cup S)
<1> DEFINE g == Form(h, S, m)
           left == Leave(h, S \cap A)
           new == Max(DOMAIN h.rows) + 1
           row == Household(S, BestPaid(S), FALSE, Baseline(S, m))
<1>1. HomesOf(left, A \ S) /\ DOMAIN left.rows = DOMAIN h.rows
  <2>1. A \ (S \cap A) = A \ S
    OBVIOUS
  <2> QED
    BY <2>1, LeaveHomes
<1>2. new \in Nat /\ new \notin DOMAIN h.rows
  <2>1. IsFiniteSet(DOMAIN h.rows) /\ DOMAIN h.rows \subseteq Nat /\ DOMAIN h.rows # {}
    BY DEF HomesOf, Shaped
  <2>2. Max(DOMAIN h.rows) \in DOMAIN h.rows /\ \A x \in DOMAIN h.rows : x <= Max(DOMAIN h.rows)
    BY <2>1, GreatestNumber
  <2> QED
    BY <2>1, <2>2
<1>3. IsRow(row) /\ Headed(row) /\ row.members = S /\ row.live
  BY HouseholdHolds
<1>4. /\ g = [of |-> g.of, rows |-> g.rows] /\ g.of = [a \in Pool |-> g.of[a]]
      /\ DOMAIN g.rows = DOMAIN h.rows \cup {new} /\ g.rows = [id \in DOMAIN g.rows |-> g.rows[id]]
      /\ \A a \in Pool : g.of[a] = IF a \in S THEN new ELSE left.of[a]
      /\ g.rows[new] = row
      /\ \A id \in DOMAIN h.rows : g.rows[id] = left.rows[id]
  <2>1. HousedOf(h, S) = S \cap A
    BY TheHoused
  <2> HIDE DEF row, left
  <2> QED
    BY <1>1, <1>2, <2>1 DEF Form, row, left
<1> HIDE DEF g, left, row, new
<1>5. ASSUME NEW id \in DOMAIN g.rows
      PROVE  RowHolds(g, A \cup S, id)
  <2>1. CASE id = new
    BY <1>3, <1>4, <2>1 DEF RowHolds
  <2>2. CASE id \in DOMAIN h.rows
    <3>1. RowHolds(left, A \ S, id)
      BY <1>1, <2>2 DEF HomesOf
    <3> QED
      BY <1>4, <2>2, <3>1 DEF RowHolds
  <2> QED
    BY <1>4, <2>1, <2>2
<1>6. ASSUME NEW a \in A \cup S
      PROVE  IsHoused(g, a)
  <2>1. CASE a \in S
    BY <1>3, <1>4, <2>1 DEF IsHoused
  <2>2. CASE a \in A \ S
    <3>1. IsHoused(left, a)
      BY <1>1, <2>2 DEF HomesOf
    <3> QED
      BY <1>1, <1>4, <2>2, <3>1 DEF IsHoused
  <2> QED
    BY <2>1, <2>2
<1>7. \A a \in Pool \ (A \cup S) : g.of[a] = NoHome
  BY <1>1, <1>4 DEF HomesOf
<1>8. Shaped(g)
  <2>1. IsFiniteSet(DOMAIN h.rows) /\ DOMAIN h.rows \subseteq Nat
    BY DEF HomesOf, Shaped
  <2>2. IsFiniteSet(DOMAIN h.rows \cup {new})
    BY <2>1, FS_AddElement
  <2> QED
    BY <1>2, <1>4, <2>1, <2>2 DEF Shaped
<1>9. HomesOf(g, A \cup S)
  BY <1>5, <1>6, <1>7, <1>8 DEF HomesOf
<1> QED
  BY <1>9 DEF g

\* join: the joiners are housed, wherever they were before.
LEMMA JoinHomes ==
  ASSUME NEW h, NEW A \in SUBSET Pool, HomesOf(h, A),
         NEW S, S \subseteq Pool, S # {}, NEW m,
         NEW id \in DOMAIN h.rows, h.rows[id].live
  PROVE  HomesOf(Join(h, S, id, m), A \cup S)
<1> DEFINE g == Join(h, S, id, m)
           L == {a \in HousedOf(h, S) : h.of[a] # id}
           left == Leave(h, L)
           row == g.rows[id]
<1>1. L \in SUBSET A /\ L \subseteq S /\ \A a \in A \cap S : a \notin L => h.of[a] = id
  BY TheHoused
<1> HIDE DEF L
<1>2. /\ HomesOf(left, A \ L) /\ DOMAIN left.rows = DOMAIN h.rows
      /\ \A i \in DOMAIN h.rows : left.rows[i].live = h.rows[i].live
  <2>1. L \in SUBSET A
    BY <1>1
  <2>2. HomesOf(left, A \ L) /\ DOMAIN left.rows = DOMAIN h.rows
    BY <2>1, LeaveHomes
  <2>3. ASSUME NEW i \in DOMAIN h.rows
        PROVE  left.rows[i].live = h.rows[i].live
    <3>1. RowHolds(h, A, i)
      BY DEF HomesOf
    <3> QED
      BY <3>1 DEF RowHolds, IsRow, Leave, WithoutMembers
  <2> QED
    BY <2>2, <2>3
<1>3. left.rows[id].live
  <2> HIDE DEF left
  <2> QED
    BY <1>2
<1>4. RowHolds(left, A \ L, id)
  BY <1>2 DEF HomesOf
<1>5. Min(S) \in S
  BY PoolFacts, LeastNumber
<1>6. /\ g = [of |-> g.of, rows |-> g.rows] /\ g.of = [a \in Pool |-> g.of[a]]
      /\ DOMAIN g.rows = DOMAIN h.rows /\ g.rows = [i \in DOMAIN g.rows |-> g.rows[i]]
      /\ \A a \in Pool : g.of[a] = IF a \in S THEN id ELSE left.of[a]
      /\ \A i \in DOMAIN h.rows : i # id => g.rows[i] = left.rows[i]
  <2> HIDE DEF left
  <2>1. left.rows = [i \in DOMAIN left.rows |-> left.rows[i]]
    BY <1>2 DEF HomesOf, Shaped
  <2> QED
    BY <1>2, <2>1 DEF Join, left, L
<1>7. /\ IsRow(row) /\ row.live /\ row.members = left.rows[id].members \cup S
      /\ row.head = IF left.rows[id].head # Nobody \/ left.rows[id].shelter
                    THEN left.rows[id].head ELSE Min(S)
      /\ row.shelter = left.rows[id].shelter
  <2> HIDE DEF left
  <2> QED
    BY <1>2, <1>3, <1>4 DEF Join, left, L, RowHolds, IsRow
<1>8. Headed(row)
  BY <1>4, <1>5, <1>7 DEF RowHolds, Headed
<1> HIDE DEF g, left, row
<1>9. ASSUME NEW i \in DOMAIN g.rows
      PROVE  RowHolds(g, A \cup S, i)
  <2>1. RowHolds(left, A \ L, i)
    BY <1>2, <1>6 DEF HomesOf
  <2>2. CASE i = id
    <3>1. g.rows[i] = row
      BY <2>2 DEF row
    <3> QED
      BY <1>1, <1>6, <1>7, <1>8, <2>1, <2>2, <3>1 DEF RowHolds
  <2>3. CASE i # id
    <3>1. \A a \in left.rows[i].members : a \notin S
      BY <1>1, <1>2, <2>1, <2>3, <1>6 DEF RowHolds, left, Leave
    <3> QED
      BY <1>6, <2>1, <2>3, <3>1 DEF RowHolds
  <2> QED
    BY <2>2, <2>3
<1>10. ASSUME NEW a \in A \cup S
       PROVE  IsHoused(g, a)
  <2>1. CASE a \in S
    BY <1>6, <1>7, <2>1 DEF IsHoused, row
  <2>2. CASE a \in A \ S
    <3>1. IsHoused(left, a)
      BY <1>1, <1>2, <2>2 DEF HomesOf
    <3> QED
      BY <1>2, <1>6, <1>7, <2>2, <3>1 DEF IsHoused, row
  <2> QED
    BY <2>1, <2>2
<1>11. \A a \in Pool \ (A \cup S) : g.of[a] = NoHome
  BY <1>1, <1>2, <1>6 DEF HomesOf
<1>12. Shaped(g)
  BY <1>6 DEF Shaped, HomesOf
<1>13. HomesOf(g, A \cup S)
  BY <1>9, <1>10, <1>11, <1>12 DEF HomesOf
<1> QED
  BY <1>13 DEF g

\* dissolve of a household that has no members left changes nobody's home.
LEMMA DissolveHomes ==
  ASSUME NEW h, NEW A \in SUBSET Pool, HomesOf(h, A),
         NEW id \in DOMAIN h.rows, h.rows[id].members = {}
  PROVE  HomesOf(Dissolve(h, id), A)
<1> DEFINE g == Dissolve(h, id)
<1>1. /\ IsRow(Closed) /\ Headed(Closed) /\ Closed.members = {}
  BY DEF Closed, Household, IsRow, Headed
<1>2. \A a \in Pool : h.of[a] # id
  <2>1. id # NoHome
    BY DEF HomesOf, Shaped, NoHome
  <2>2. \A a \in A : a \in h.rows[h.of[a]].members
    BY DEF HomesOf, IsHoused
  <2> QED
    BY <2>1, <2>2 DEF HomesOf
<1>3. /\ g = [of |-> g.of, rows |-> g.rows] /\ g.of = [a \in Pool |-> g.of[a]]
      /\ DOMAIN g.rows = DOMAIN h.rows /\ g.rows = [i \in DOMAIN g.rows |-> g.rows[i]]
      /\ \A a \in Pool : g.of[a] = h.of[a]
      /\ \A i \in DOMAIN h.rows : g.rows[i] = IF i = id THEN Closed ELSE h.rows[i]
  <2>1. h.rows = [i \in DOMAIN h.rows |-> h.rows[i]]
    BY DEF HomesOf, Shaped
  <2> QED
    BY <1>2, <2>1 DEF Dissolve
<1> HIDE DEF g
<1>4. ASSUME NEW i \in DOMAIN g.rows
      PROVE  RowHolds(g, A, i)
  <2>1. RowHolds(h, A, i)
    BY <1>3 DEF HomesOf
  <2> QED
    BY <1>1, <1>3, <2>1 DEF RowHolds
<1>5. ASSUME NEW a \in A
      PROVE  IsHoused(g, a)
  <2>1. IsHoused(h, a)
    BY DEF HomesOf
  <2> QED
    BY <1>2, <1>3, <2>1 DEF IsHoused
<1>6. Shaped(g)
  BY <1>3 DEF Shaped, HomesOf
<1>7. \A a \in Pool \ A : g.of[a] = NoHome
  BY <1>3 DEF HomesOf
<1>8. HomesOf(g, A)
  BY <1>4, <1>5, <1>6, <1>7 DEF HomesOf
<1> QED
  BY <1>8 DEF g

\* state_household: it exists and lives, and nobody has moved.
LEMMA StateHomeHomes ==
  ASSUME NEW h, NEW A \in SUBSET Pool, HomesOf(h, A)
  PROVE  /\ HomesOf(WithStateHome(h), A)
         /\ StateHome \in DOMAIN WithStateHome(h).rows /\ WithStateHome(h).rows[StateHome].live
<1> DEFINE g == WithStateHome(h)
           row == Household({}, Nobody, TRUE, Baseline({}, <<>>))
<1>1. CASE StateHome \in DOMAIN h.rows /\ h.rows[StateHome].live
  BY <1>1 DEF WithStateHome
<1>2. CASE ~(StateHome \in DOMAIN h.rows /\ h.rows[StateHome].live)
  <2>1. IsRow(row) /\ Headed(row) /\ row.members = {} /\ row.live
    BY DEF Household, IsRow, Headed
  <2>2. \A a \in A : h.of[a] # StateHome
    BY <1>2 DEF HomesOf, IsHoused
  <2> HIDE DEF row
  <2>3. /\ g = [of |-> g.of, rows |-> g.rows] /\ g.of = h.of
        /\ DOMAIN g.rows = DOMAIN h.rows \cup {StateHome}
        /\ g.rows = [i \in DOMAIN g.rows |-> g.rows[i]]
        /\ \A i \in DOMAIN g.rows : g.rows[i] = IF i = StateHome THEN row ELSE h.rows[i]
    BY <1>2 DEF WithStateHome, row
  <2> HIDE DEF g
  <2>4. ASSUME NEW i \in DOMAIN g.rows
        PROVE  RowHolds(g, A, i)
    <3>1. CASE i = StateHome
      BY <2>1, <2>3, <3>1 DEF RowHolds
    <3>2. CASE i # StateHome
      <4>1. RowHolds(h, A, i)
        BY <2>3, <3>2 DEF HomesOf
      <4> QED
        BY <2>3, <3>2, <4>1 DEF RowHolds
    <3> QED
      BY <3>1, <3>2
  <2>5. ASSUME NEW a \in A
        PROVE  IsHoused(g, a)
    <3>1. IsHoused(h, a)
      BY DEF HomesOf
    <3> QED
      BY <2>2, <2>3, <3>1 DEF IsHoused
  <2>6. Shaped(g)
    <3>1. IsFiniteSet(DOMAIN h.rows) /\ DOMAIN h.rows \subseteq Nat /\ StateHome \in Nat
      BY DEF HomesOf, Shaped, StateHome
    <3>2. IsFiniteSet(DOMAIN h.rows \cup {StateHome})
      BY <3>1, FS_AddElement
    <3> QED
      BY <2>3, <3>1, <3>2 DEF Shaped, HomesOf
  <2>7. \A a \in Pool \ A : g.of[a] = NoHome
    BY <2>3 DEF HomesOf
  <2>8. HomesOf(g, A)
    BY <2>4, <2>5, <2>6, <2>7 DEF HomesOf
  <2> QED
    BY <2>1, <2>3, <2>8 DEF g
<1> QED
  BY <1>1, <1>2

\* The children the state takes in are housed.
LEMMA StateCareHomes ==
  ASSUME NEW h, NEW A \in SUBSET Pool, HomesOf(h, A), NEW S, S \subseteq Pool, NEW m
  PROVE  HomesOf(StateCare(h, S, m), A \cup S)
<1>1. CASE S = {}
  <2>1. A \cup S = A
    BY <1>1
  <2> QED
    BY <1>1, <2>1 DEF StateCare
<1>2. CASE S # {}
  <2>1. HomesOf(Join(WithStateHome(h), S, StateHome, m), A \cup S)
    BY <1>2, StateHomeHomes, JoinHomes
  <2> QED
    BY <1>2, <2>1 DEF StateCare
<1> QED
  BY <1>1, <1>2

\* update_arrears changes nobody's home.
LEMMA ArrearsHomes ==
  ASSUME NEW A \in SUBSET Pool, HomesOf(homes, A)
  PROVE  HomesOf(WithArrears, A)
<1> DEFINE g == WithArrears
<1>1. \A id \in DOMAIN homes.rows : RowHolds(homes, A, id)
  BY DEF HomesOf
<1>2. /\ g = [of |-> g.of, rows |-> g.rows] /\ g.of = homes.of
      /\ DOMAIN g.rows = DOMAIN homes.rows /\ g.rows = [i \in DOMAIN g.rows |-> g.rows[i]]
      /\ \A id \in DOMAIN homes.rows :
           g.rows[id] = IF id \in Charged
                        THEN [homes.rows[id] EXCEPT !.arrears = homes.rows[id].arrears + OwnDue(id) - Paid(id)]
                        ELSE homes.rows[id]
  <2>1. homes = [of |-> homes.of, rows |-> homes.rows]
    BY DEF HomesOf, Shaped
  <2> QED
    BY <2>1 DEF WithArrears
<1> HIDE DEF g
<1>3. ASSUME NEW id \in DOMAIN homes.rows
      PROVE  /\ IsRow(g.rows[id]) /\ g.rows[id].members = homes.rows[id].members
             /\ g.rows[id].head = homes.rows[id].head /\ g.rows[id].shelter = homes.rows[id].shelter
             /\ g.rows[id].live = homes.rows[id].live
  <2>1. IsRow(homes.rows[id])
    BY <1>1 DEF RowHolds
  <2> QED
    BY <1>2, <2>1 DEF IsRow
<1>4. \A id \in DOMAIN homes.rows : RowHolds(g, A, id)
  BY <1>1, <1>2, <1>3 DEF RowHolds, Headed
<1>5. \A a \in A : IsHoused(g, a)
  <2>1. \A a \in A : IsHoused(homes, a)
    BY DEF HomesOf
  <2> QED
    BY <2>1, <1>2, <1>3 DEF IsHoused
<1>6. Shaped(g)
  BY <1>2 DEF Shaped, HomesOf
<1>7. HomesOf(g, A)
  BY <1>2, <1>4, <1>5, <1>6 DEF HomesOf
<1> QED
  BY <1>7 DEF g

\* _dissolve_union: everybody of the household is housed again, each adult in a new one.
LEMMA SeparatedHomes ==
  ASSUME NEW A \in SUBSET Pool, HomesOf(homes, A), NEW a \in A, NEW b \in A,
         homes.of[a] = homes.of[b], NEW m
  PROVE  HomesOf(Separated(a, b, m), A)
<1> DEFINE old == homes.of[a]
           members == homes.rows[old].members
           children == {c \in members \ {a, b} : Minor(c)}
           custody == BestPaid({a, b})
           top == Max(DOMAIN homes.rows)
           group(c) == IF c = custody THEN {c} \cup children ELSE {c}
           formed(c) == Household(group(c), BestPaid(group(c)), FALSE, Baseline(group(c), m))
           home(c) == IF c \in children THEN top + custody ELSE top + c
           of == [c \in Pool |-> IF c \notin members THEN homes.of[c]
                                 ELSE IF c \in children THEN top + custody ELSE top + c]
           g == Separated(a, b, m)
<1>1. /\ RowHolds(homes, A, old) /\ IsHoused(homes, a) /\ IsHoused(homes, b)
      /\ old \in DOMAIN homes.rows /\ {a, b} \subseteq members /\ members \subseteq A
  BY DEF HomesOf, IsHoused, RowHolds
<1>2. custody \in {a, b}
  BY BestPaidOneOf
<1>3. /\ top \in Nat /\ \A id \in DOMAIN homes.rows : id \in Nat /\ id <= top
  <2>1. IsFiniteSet(DOMAIN homes.rows) /\ DOMAIN homes.rows \subseteq Nat /\ DOMAIN homes.rows # {}
    BY DEF HomesOf, Shaped
  <2> QED
    BY <2>1, GreatestNumber
<1>4. ASSUME NEW c \in members
      PROVE  /\ home(c) \in Nat /\ home(c) > top
             /\ home(c) - top \in members \ children
             /\ c \in group(home(c) - top)
  <2>1. /\ c \in Nat /\ c > 0 /\ custody \in Nat /\ custody > 0
        /\ custody \in members \ children
    <3>1. members \subseteq Pool
      BY <1>1
    <3>2. custody \in members /\ custody \notin children
      <4> HIDE DEF custody
      <4> QED
        BY <1>1, <1>2
    <3>3. Pool \subseteq Nat /\ 0 \notin Pool
      BY PoolFacts DEF Nobody
    <3>4. \A i \in Pool : i \in Nat /\ i > 0
      BY <3>3
    <3> HIDE DEF custody, children, members
    <3> QED
      BY <3>1, <3>2, <3>4
  <2> HIDE DEF custody, children, top
  <2> QED
    BY <1>3, <2>1
<1>5. /\ g = [of |-> g.of, rows |-> g.rows] /\ g.of = of
      /\ DOMAIN g.rows = DOMAIN homes.rows \cup {of[c] : c \in members}
      /\ g.rows = [i \in DOMAIN g.rows |-> g.rows[i]]
      /\ \A i \in DOMAIN g.rows :
           g.rows[i] = IF i = old THEN Closed
                       ELSE IF i \in DOMAIN homes.rows THEN homes.rows[i] ELSE formed(i - top)
  BY DEF Separated
<1>6. IsRow(Closed) /\ Headed(Closed) /\ Closed.members = {}
  BY DEF Closed, Household, IsRow, Headed
<1>7. ASSUME NEW c \in members \ children
      PROVE  /\ IsRow(formed(c)) /\ Headed(formed(c)) /\ formed(c).members = group(c)
             /\ formed(c).live /\ group(c) \subseteq members
             /\ \A d \in group(c) : home(d) = top + c
  <2>1. group(c) \subseteq members /\ group(c) \subseteq Pool /\ group(c) # {}
    BY <1>1
  <2>2. /\ IsRow(formed(c)) /\ Headed(formed(c)) /\ formed(c).members = group(c)
        /\ formed(c).live
    <3> HIDE DEF group
    <3> QED
      BY <2>1, HouseholdHolds
  <2>3. \A d \in group(c) : home(d) = top + c
    OBVIOUS
  <2> QED
    BY <2>1, <2>2, <2>3
<1>8. \A c \in Pool : of[c] = IF c \in members THEN home(c) ELSE homes.of[c]
  OBVIOUS
<1> HIDE DEF g, formed, group, home, of, custody, children, top
<1>9. ASSUME NEW id \in DOMAIN g.rows, id \notin DOMAIN homes.rows
      PROVE  \E c \in members : id = home(c)
  <2>1. PICK c \in members : id = of[c]
    BY <1>5, <1>9
  <2>2. of[c] = home(c)
    BY <1>1, <1>8
  <2> QED
    BY <2>1, <2>2
<1>10. ASSUME NEW c \in members
       PROVE  home(c) \notin DOMAIN homes.rows /\ home(c) \in DOMAIN g.rows
  <2>1. home(c) \notin DOMAIN homes.rows
    <3>1. home(c) \in Nat /\ home(c) > top
      BY <1>4
    <3> QED
      BY <1>3, <3>1
  <2>2. of[c] = home(c)
    BY <1>1, <1>8
  <2> QED
    BY <1>5, <2>1, <2>2
<1>11. ASSUME NEW c \in members
       PROVE  \E d \in members \ children :
                home(c) = top + d /\ g.rows[home(c)] = formed(d) /\ c \in group(d)
  <2>1. /\ home(c) \in Nat /\ home(c) - top \in members \ children
        /\ c \in group(home(c) - top)
    BY <1>4
  <2>2. g.rows[home(c)] = formed(home(c) - top)
    BY <1>1, <1>5, <1>10
  <2>3. home(c) = top + (home(c) - top)
    BY <1>3, <2>1
  <2> QED
    BY <2>1, <2>2, <2>3
<1>12. ASSUME NEW id \in DOMAIN g.rows
       PROVE  RowHolds(g, A, id)
  <2>1. CASE id = old
    BY <1>5, <1>6, <2>1 DEF RowHolds
  <2>2. CASE id # old /\ id \in DOMAIN homes.rows
    <3>1. RowHolds(homes, A, id) /\ g.rows[id] = homes.rows[id]
      BY <1>5, <2>2 DEF HomesOf
    <3>2. \A c \in homes.rows[id].members : c \notin members /\ c \in Pool
      BY <1>1, <2>2, <3>1 DEF RowHolds
    <3> QED
      BY <1>5, <1>8, <3>1, <3>2 DEF RowHolds
  <2>3. CASE id \notin DOMAIN homes.rows
    <3>1. PICK c \in members : id = home(c)
      BY <1>9, <2>3
    <3>2. PICK d \in members \ children : home(c) = top + d /\ g.rows[home(c)] = formed(d)
      BY <1>11
    <3> QED
      BY <1>1, <1>5, <1>7, <1>8, <3>1, <3>2 DEF RowHolds
  <2> QED
    BY <2>1, <2>2, <2>3
<1>13. ASSUME NEW c \in A
       PROVE  IsHoused(g, c)
  <2>1. CASE c \in members
    <3>1. PICK d \in members \ children :
            home(c) = top + d /\ g.rows[home(c)] = formed(d) /\ c \in group(d)
      BY <1>11, <2>1
    <3> QED
      BY <1>1, <1>5, <1>7, <1>8, <1>10, <2>1, <3>1 DEF IsHoused
  <2>2. CASE c \notin members
    <3>1. IsHoused(homes, c) /\ homes.of[c] # old
      BY <2>2 DEF HomesOf, IsHoused
    <3> QED
      BY <1>5, <1>8, <2>2, <3>1 DEF IsHoused
  <2> QED
    BY <2>1, <2>2
<1>14. Shaped(g)
  <2>1. IsFiniteSet(DOMAIN homes.rows) /\ DOMAIN homes.rows \subseteq Nat
    BY DEF HomesOf, Shaped
  <2>2. {of[c] : c \in members} \subseteq Nat
    BY <1>1, <1>4, <1>8
  <2>3. IsFiniteSet({of[c] : c \in members})
    <3>1. IsFiniteSet(members)
      BY <1>1, PoolFacts, FS_Subset
    <3> DEFINE f == [c \in members |-> of[c]]
               I == {of[c] : c \in members}
    <3>2. f \in Surjection(members, I)
      BY DEF Surjection
    <3> HIDE DEF f, I
    <3>3. IsFiniteSet(I)
      BY <3>1, <3>2, FS_Surjection
    <3> QED
      BY <3>3 DEF I
  <2>4. IsFiniteSet(DOMAIN g.rows)
    <3> DEFINE I == {of[c] : c \in members}
    <3>1. IsFiniteSet(I) /\ DOMAIN g.rows = DOMAIN homes.rows \cup I
      BY <1>5, <2>3
    <3> HIDE DEF I
    <3>2. IsFiniteSet(DOMAIN homes.rows \cup I)
      BY <2>1, <3>1, FS_Union
    <3> QED
      BY <3>1, <3>2
  <2>5. g.of = [c \in Pool |-> g.of[c]]
    BY <1>5 DEF of
  <2>6. DOMAIN g.rows \subseteq Nat /\ DOMAIN g.rows # {}
    BY <1>1, <1>5, <2>1, <2>2
  <2>7. g = [of |-> g.of, rows |-> g.rows] /\ g.rows = [i \in DOMAIN g.rows |-> g.rows[i]]
    BY <1>5
  <2> QED
    BY <2>4, <2>5, <2>6, <2>7 DEF Shaped
<1>15. \A c \in Pool \ A : g.of[c] = NoHome
  BY <1>1, <1>5, <1>8 DEF HomesOf
<1>16. HomesOf(g, A)
  BY <1>12, <1>13, <1>14, <1>15 DEF HomesOf
<1> QED
  BY <1>16 DEF g

-----------------------------------------------------------------------------
(* The steps *)

\* At the genesis the agents live where their household lists them.
LEMMA InitIInv == Init => IInv
<1> SUFFICES ASSUME Init
             PROVE  IInv
  OBVIOUS
<1> DEFINE G == DOMAIN Genesis
           ids == {Genesis[a].household : a \in G}
           of(id) == {a \in G : Genesis[a].household = id}
           oldest(id) == CHOOSE a \in of(id) : \A b \in of(id) :
                           \/ Genesis[a].age > Genesis[b].age
                           \/ Genesis[a].age = Genesis[b].age /\ a <= b
<1>1. /\ G \subseteq Pool /\ IsFiniteSet(G) /\ G \subseteq Nat /\ G # {}
      /\ \A a \in G : Genesis[a].age \in Nat /\ Genesis[a].household \in Nat
  <2>1. /\ G \in SUBSET Pool /\ G # {}
        /\ \A a \in G : Genesis[a].age \in Nat /\ Genesis[a].household \in Nat
    BY LifeAssumption
  <2>2. IsFiniteSet(G)
    BY <2>1, PoolFacts, FS_Subset
  <2> QED
    BY <2>1, <2>2, PoolFacts
<1>2. people = [a \in Pool |->
        [status |-> IF a \in G THEN "alive" ELSE "unborn",
         age |-> IF a \in G THEN Genesis[a].age ELSE 0, mother |-> Nobody, father |-> Nobody]]
  BY DEF Init
<1>3. Alive = G
  <2>1. \A a \in Pool : people[a].status = IF a \in G THEN "alive" ELSE "unborn"
    BY <1>2
  <2> HIDE DEF G
  <2> QED
    BY <1>1, <2>1 DEF Alive
<1>4. PeopleHold
  BY <1>1, <1>2, PoolFacts DEF PeopleHold
<1>5. PendingHold
  BY DEF Init, PendingHold
<1>6. UnionsHold
  BY DEF Init, UnionsHold
<1>7. ASSUME NEW id \in ids
      PROVE  oldest(id) \in of(id)
  <2> DEFINE f == [a \in G |-> Genesis[a].age]
             S == of(id)
  <2>1. IsFiniteSet(S) /\ S # {} /\ S \subseteq Int /\ \A a \in S : f[a] \in Int
    BY <1>1, FS_Subset
  <2>2. PICK a : Leads(S, f, a)
    <3> HIDE DEF S, f
    <3> QED
      BY <2>1, Foremost
  <2>3. a \in S /\ \A b \in S : \/ Genesis[a].age > Genesis[b].age
                                \/ Genesis[a].age = Genesis[b].age /\ a <= b
    BY <2>2 DEF Leads
  <2> QED
    BY <2>3
<1>8. /\ homes = [of |-> homes.of, rows |-> homes.rows]
      /\ homes.of = [a \in Pool |-> IF a \in G THEN Genesis[a].household ELSE NoHome]
      /\ homes.rows = [id \in ids |-> Household(of(id), oldest(id), FALSE, Baseline(of(id), money))]
  BY DEF Init
<1>9. ASSUME NEW id \in ids
      PROVE  /\ IsRow(homes.rows[id]) /\ homes.rows[id].members = of(id)
             /\ homes.rows[id].head = oldest(id) /\ homes.rows[id].live
  <2> HIDE DEF of, oldest, ids
  <2> DEFINE row == Household(of(id), oldest(id), FALSE, Baseline(of(id), money))
  <2>1. homes.rows[id] = row
    BY <1>8
  <2>2. IsRow(row) /\ row.members = of(id) /\ row.head = oldest(id) /\ row.live
    BY DEF Household, IsRow
  <2> QED
    BY <2>1, <2>2
<1>10. \A a \in G : homes.of[a] = Genesis[a].household /\ homes.of[a] \in ids /\ a \in Pool
  BY <1>1, <1>8
<1>11. DOMAIN homes.rows = ids
  BY <1>8
<1> HIDE DEF oldest
<1>12. HomesOf(homes, G)
  <2>1. ASSUME NEW id \in ids
        PROVE  RowHolds(homes, G, id)
    <3>1. of(id) \subseteq G /\ \A a \in of(id) : homes.of[a] = id
      BY <1>10
    <3> HIDE DEF of, ids, G
    <3> QED
      BY <1>7, <1>9, <3>1 DEF RowHolds, Headed
  <2>2. ASSUME NEW a \in G
        PROVE  IsHoused(homes, a)
    <3>1. a \in of(homes.of[a])
      BY <1>10
    <3> HIDE DEF of, ids, G
    <3> QED
      BY <1>9, <1>10, <1>11, <3>1 DEF IsHoused
  <2>3. IsFiniteSet(ids)
    <3> DEFINE f == [a \in G |-> Genesis[a].household]
    <3>1. f \in Surjection(G, ids)
      BY DEF Surjection
    <3> HIDE DEF f, ids
    <3> QED
      BY <1>1, <3>1, FS_Surjection
  <2>4. Shaped(homes)
    <3>1. homes.of = [a \in Pool |-> homes.of[a]]
      BY <1>8
    <3>2. DOMAIN homes.rows = ids /\ homes.rows = [id \in DOMAIN homes.rows |-> homes.rows[id]]
      BY <1>8
    <3> QED
      BY <1>1, <1>8, <2>3, <3>1, <3>2 DEF Shaped
  <2> QED
    BY <1>1, <1>8, <1>11, <2>1, <2>2, <2>4 DEF HomesOf
<1> QED
  BY <1>3, <1>4, <1>5, <1>6, <1>12 DEF IInv

SameFamilies == UNCHANGED <<people, unions, pregnancies>>

NoNewPending == pending' \subseteq pending /\ (stage' = "process" => stage = "process")

\* The steps that leave people, ties and pregnancies alone keep what is known of them.
LEMMA SameFamiliesKeep ==
  ASSUME IInv, SameFamilies, NoNewPending
  PROVE  /\ Alive' = Alive /\ PeopleHold' /\ PendingHold' /\ UnionsHold'
         /\ HomesOf(homes', Alive) => IInv'
<1>1. Alive' = Alive
  BY DEF SameFamilies, Alive
<1>2. PeopleHold' /\ UnionsHold'
  BY <1>1 DEF SameFamilies, IInv, PeopleHold, UnionsHold
<1>3. PendingHold'
  BY <1>1 DEF NoNewPending, IInv, PendingHold
<1> QED
  BY <1>1, <1>2, <1>3 DEF IInv

LEMMA StutterIInv ==
  ASSUME IInv, SameFamilies, NoNewPending, UNCHANGED homes
  PROVE  IInv'
<1>1. HomesOf(homes', Alive)
  BY DEF IInv
<1> QED
  BY <1>1, SameFamiliesKeep

\* The gates see to it that the agents of an action are alive, and none dies before the run.
LEMMA SubmitIInv == IInv /\ Submit => IInv'
<1> SUFFICES ASSUME IInv, Submit
             PROVE  IInv'
  OBVIOUS
<1>1. PICK acts \in Agendas : Accepted(acts) /\ pending' = acts
  BY DEF Submit
<1>2. acts \subseteq Menu /\ \A x \in acts : {x[2], x[3]} \subseteq Alive
  BY <1>1 DEF Accepted, Capable, Menu
<1>3. UNCHANGED <<people, homes, unions, pregnancies>>
  BY DEF Submit, family
<1>4. Alive' = Alive
  BY <1>3 DEF Alive
<1>5. PendingHold'
  BY <1>1, <1>2, <1>4 DEF PendingHold
<1>6. PeopleHold' /\ UnionsHold' /\ HomesOf(homes', Alive')
  BY <1>3, <1>4 DEF IInv, PeopleHold, UnionsHold
<1> QED
  BY <1>5, <1>6 DEF IInv

LEMMA FrameIInv ==
  ASSUME IInv,
         \/ \E a \in Pool, cents \in Earnings : Earn(a, cents)
         \/ \E x \in Menu : Court(x) \/ DissolveRaises(x) \/ DissolveApart(x)
         \/ EndProcess \/ EndIndependence \/ EndScan \/ EndAdvance \/ ChargeRaises \/ EndArrive
         \/ NextTick \/ UNCHANGED vars
  PROVE  IInv'
<1>1. SameFamilies /\ UNCHANGED homes
  BY DEF SameFamilies, vars, family, Earn, Court, DissolveRaises, DissolveApart, EndProcess,
         EndIndependence, EndScan, EndAdvance, ChargeRaises, EndArrive, NextTick
<1>2. NoNewPending
  BY DEF NoNewPending, Goto, vars, clock, Earn, Court, DissolveRaises, DissolveApart, EndProcess,
         EndIndependence, EndScan, EndAdvance, ChargeRaises, EndArrive, NextTick
<1> QED
  BY <1>1, <1>2, StutterIInv

\* A couple confirmed in this run was not partnered in it: the ties stay a matching.
LEMMA ProposeIInv ==
  ASSUME IInv, NEW x \in Menu, ProposeUnion(x)
  PROVE  IInv'
<1> DEFINE a == x[2]
           b == x[3]
           children == {c \in Alive : Minor(c) /\ homes.of[c] \in {homes.of[a], homes.of[b]}}
           S == {a, b} \cup children
<1>1. /\ UNCHANGED <<people, pregnancies>> /\ NoNewPending /\ x \in pending /\ stage = "process"
      /\ \/ UNCHANGED <<homes, unions>>
         \/ /\ homes' = Form(homes, S, money) /\ unions' = unions \cup {{a, b}}
            /\ Confirmable(a, b)
  BY DEF ProposeUnion, IsNext, NoNewPending, clock
<1>2. a \in Alive /\ b \in Alive
  BY <1>1 DEF IInv, PendingHold
<1>3. CASE UNCHANGED <<homes, unions>>
  BY <1>1, <1>3, StutterIInv DEF SameFamilies
<1>4. CASE homes' = Form(homes, S, money) /\ unions' = unions \cup {{a, b}} /\ Confirmable(a, b)
  <2>1. S \subseteq Alive /\ S # {} /\ Alive \in SUBSET Pool /\ Alive \cup S = Alive
    BY <1>2 DEF Alive
  <2>2. HomesOf(homes', Alive)
    <3> HIDE DEF S
    <3>1. HomesOf(Form(homes, S, money), Alive \cup S)
      BY <2>1, FormHomes DEF IInv
    <3> QED
      BY <1>4, <2>1, <3>1
  <2>3. Alive' = Alive
    BY <1>1 DEF Alive
  <2>4. UnionsHold'
    <3>1. \A t \in unions : t \cap {a, b} = {}
      BY <1>4 DEF Confirmable, Partnered
    <3> QED
      BY <1>1, <1>2, <1>4, <2>3, <3>1 DEF IInv, UnionsHold
  <2>5. PeopleHold' /\ PendingHold'
    BY <1>1, <2>3 DEF IInv, PeopleHold, PendingHold, NoNewPending
  <2> QED
    BY <2>2, <2>3, <2>4, <2>5 DEF IInv
<1> QED
  BY <1>1, <1>3, <1>4

LEMMA DissolveIInv ==
  ASSUME IInv, NEW x \in Menu, DissolveUnion(x)
  PROVE  IInv'
<1>1. /\ UNCHANGED <<people, pregnancies>> /\ NoNewPending /\ x \in pending /\ stage = "process"
      /\ Together(x[2], x[3]) /\ unions' = unions \ {{x[2], x[3]}}
  BY DEF DissolveUnion, IsNext, NoNewPending, clock
<1>2. PICK d : homes' = Separated(x[2], x[3], Donated(d))
  BY DEF DissolveUnion
<1>3. x[2] \in Alive /\ x[3] \in Alive /\ Alive \in SUBSET Pool
  BY <1>1 DEF IInv, PendingHold, Alive
<1>4. HomesOf(homes', Alive)
  <2>1. HomesOf(homes, Alive) /\ homes.of[x[2]] = homes.of[x[3]]
    BY <1>1 DEF IInv, Together
  <2>2. HomesOf(Separated(x[2], x[3], Donated(d)), Alive)
    BY <1>3, <2>1, SeparatedHomes
  <2> QED
    BY <1>2, <2>2
<1>5. Alive' = Alive
  BY <1>1 DEF Alive
<1>6. PeopleHold' /\ PendingHold' /\ UnionsHold'
  BY <1>1, <1>5 DEF IInv, PeopleHold, PendingHold, UnionsHold, NoNewPending
<1> QED
  BY <1>4, <1>5, <1>6 DEF IInv

\* advance_independence: who leaves forms a household at once.
LEMMA MoveOutIInv ==
  ASSUME IInv, NEW a \in Pool, MoveOut(a)
  PROVE  IInv'
<1>1. /\ SameFamilies /\ NoNewPending /\ a \in Alive
      /\ homes' = Form(Leave(homes, {a}), {a}, money)
  BY DEF MoveOut, SameFamilies, NoNewPending, family, ToMoveOut
<1>2. Alive \in SUBSET Pool /\ {a} \in SUBSET Alive /\ (Alive \ {a}) \cup {a} = Alive
  BY <1>1 DEF Alive
<1>3. HomesOf(Leave(homes, {a}), Alive \ {a})
  BY <1>2, LeaveHomes DEF IInv
<1>4. HomesOf(Form(Leave(homes, {a}), {a}, money), (Alive \ {a}) \cup {a})
  BY <1>2, <1>3, FormHomes
<1> QED
  BY <1>1, <1>2, <1>4, SameFamiliesKeep

\* Partners are alive, so both parents of a pregnancy are.
LEMMA ConceiveIInv ==
  ASSUME IInv, NEW a \in Pool, Conceive(a)
  PROVE  IInv'
<1>1. /\ UNCHANGED <<people, homes, unions, pending, stage>> /\ a \in Alive
  BY DEF Conceive
<1>2. PICK b \in Pool : /\ {a, b} \in unions
                        /\ DOMAIN pregnancies' = DOMAIN pregnancies \cup {a}
                        /\ \A m \in DOMAIN pregnancies' :
                             pregnancies'[m] = IF m = a THEN [father |-> b, due |-> tick + Gestation]
                                               ELSE pregnancies[m]
  BY DEF Conceive
<1>3. Alive' = Alive
  BY <1>1 DEF Alive
<1>4. UnionsHold'
  BY <1>1, <1>2, <1>3 DEF IInv, UnionsHold
<1> QED
  BY <1>1, <1>3, <1>4 DEF IInv, PeopleHold, PendingHold

LEMMA LossIInv ==
  ASSUME IInv, NEW a \in Pool, Loss(a)
  PROVE  IInv'
<1>1. UNCHANGED <<people, homes, unions, pending, stage>> /\ pregnancies' = WithoutPregnancies({a})
  BY DEF Loss, clock
<1>2. Alive' = Alive
  BY <1>1 DEF Alive
<1>3. UnionsHold'
  BY <1>1, <1>2 DEF IInv, UnionsHold, WithoutPregnancies
<1> QED
  BY <1>1, <1>2, <1>3 DEF IInv, PeopleHold, PendingHold

LEMMA SomeoneToBeBorn ==
  Unborn # {} => Min(Unborn) \in Pool /\ people[Min(Unborn)].status = "unborn"
<1> SUFFICES ASSUME Unborn # {}
             PROVE  Min(Unborn) \in Unborn
  BY DEF Unborn
<1>1. Unborn \subseteq Nat
  BY PoolFacts DEF Unborn
<1> QED
  BY <1>1, LeastNumber

\* The newborn is housed with its mother, who is alive.
LEMMA BirthIInv ==
  ASSUME IInv, NEW a \in Pool, Birth(a)
  PROVE  IInv'
<1> DEFINE c == Min(Unborn)
           f == pregnancies[a].father
<1>1. /\ UNCHANGED <<unions, pending, stage>> /\ a \in DOMAIN pregnancies /\ Unborn # {}
      /\ pregnancies' = WithoutPregnancies({a})
      /\ people' = [people EXCEPT ![c] = [status |-> "alive", age |-> 0, mother |-> a, father |-> f]]
      /\ homes' = IF Housed(homes, a) THEN Join(homes, {c}, homes.of[a], money) ELSE homes
  BY DEF Birth, clock, Due
<1>2. c \in Pool /\ people[c].status = "unborn"
  BY <1>1, SomeoneToBeBorn
<1>3. {a, f} \subseteq Alive
  BY <1>1 DEF IInv, UnionsHold
<1>4. c \notin Alive /\ c # a /\ c # f /\ a \in Pool /\ f \in Pool
  BY <1>2, <1>3 DEF Alive
<1> HIDE DEF c, f
<1>5. Alive' = Alive \cup {c}
  BY <1>1, <1>2 DEF Alive, IInv, PeopleHold
<1>6. PeopleHold'
  <2>1. [status |-> "alive", age |-> 0, mother |-> a, father |-> f] \in
          [status : {"unborn", "alive", "dead", "gone"}, age : Nat,
           mother : Pool \cup {Nobody}, father : Pool \cup {Nobody}]
    BY <1>4
  <2>2. people' \in [Pool -> [status : {"unborn", "alive", "dead", "gone"}, age : Nat,
                             mother : Pool \cup {Nobody}, father : Pool \cup {Nobody}]]
    BY <1>1, <1>2, <2>1 DEF IInv, PeopleHold
  <2>3. \A x \in Pool : people'[x].mother # x /\ people'[x].father # x
    BY <1>1, <1>2, <1>4 DEF IInv, PeopleHold
  <2> QED
    BY <2>2, <2>3 DEF PeopleHold
<1>7. PendingHold'
  BY <1>1, <1>5 DEF IInv, PendingHold
<1>8. UnionsHold'
  BY <1>1, <1>5 DEF IInv, UnionsHold, WithoutPregnancies
<1>9. HomesOf(homes', Alive \cup {c})
  <2>1. IsHoused(homes, a)
    BY <1>3 DEF IInv, HomesOf
  <2>2. homes.of[a] # NoHome
    BY <2>1 DEF IInv, HomesOf, Shaped, IsHoused, NoHome
  <2>3. homes' = Join(homes, {c}, homes.of[a], money)
    BY <1>1, <2>1, <2>2 DEF Housed, IsHoused
  <2>4. /\ Alive \in SUBSET Pool /\ {c} \subseteq Pool /\ {c} # {} /\ HomesOf(homes, Alive)
        /\ homes.of[a] \in DOMAIN homes.rows /\ homes.rows[homes.of[a]].live
    BY <1>2, <2>1 DEF Alive, IInv, IsHoused
  <2>5. HomesOf(Join(homes, {c}, homes.of[a], money), Alive \cup {c})
    BY <2>4, JoinHomes
  <2> QED
    BY <2>3, <2>5
<1> QED
  BY <1>5, <1>6, <1>7, <1>8, <1>9 DEF IInv

\* charge: the children the state takes in are alive, and housed before and after.
LEMMA ChargeIInv ==
  ASSUME IInv, Charge
  PROVE  IInv'
<1>1. SameFamilies /\ NoNewPending
  BY DEF Charge, SameFamilies, NoNewPending, Goto, family
<1>2. PICK m : m = money'
  OBVIOUS
<1>3. PICK taken \in SUBSET Neglected(WithArrears) : homes' = StateCare(WithArrears, taken, m)
  BY <1>2 DEF Charge
<1>4. taken \subseteq Alive
  BY <1>3 DEF Neglected, ChildrenOf
<1>5. Alive \in SUBSET Pool /\ taken \subseteq Pool /\ Alive \cup taken = Alive
  BY <1>4 DEF Alive
<1>6. HomesOf(WithArrears, Alive)
  BY <1>5, ArrearsHomes DEF IInv
<1>7. HomesOf(StateCare(WithArrears, taken, m), Alive \cup taken)
  BY <1>5, <1>6, StateCareHomes
<1> QED
  BY <1>1, <1>3, <1>5, <1>7, SameFamiliesKeep

LEMMA ArriveIInv ==
  ASSUME IInv, Arrive
  PROVE  IInv'
<1> DEFINE c == Min(Unborn)
<1>1. PICK m : m = money'
  OBVIOUS
<1>2. /\ UNCHANGED <<unions, pregnancies, pending, stage>> /\ Unborn # {}
      /\ people' = [people EXCEPT ![c].status = "alive", ![c].age = Majority]
      /\ homes' = Form(homes, {c}, m)
  BY <1>1 DEF Arrive, clock, family
<1>3. c \in Pool /\ people[c].status = "unborn"
  BY <1>2, SomeoneToBeBorn
<1> HIDE DEF c
<1>4. Alive' = Alive \cup {c}
  BY <1>2, <1>3 DEF Alive, IInv, PeopleHold
<1>5. PeopleHold'
  <2>1. Majority \in Nat
    BY LifeAssumption
  <2> QED
    BY <1>2, <1>3, <2>1 DEF IInv, PeopleHold
<1>6. PendingHold' /\ UnionsHold'
  BY <1>2, <1>4 DEF IInv, PendingHold, UnionsHold
<1>7. HomesOf(homes', Alive \cup {c})
  <2>1. Alive \in SUBSET Pool /\ {c} \subseteq Pool /\ {c} # {} /\ HomesOf(homes, Alive)
    BY <1>3 DEF Alive, IInv
  <2>2. HomesOf(Form(homes, {c}, m), Alive \cup {c})
    BY <2>1, FormHomes
  <2> QED
    BY <1>2, <2>2
<1> QED
  BY <1>4, <1>5, <1>6, <1>7 DEF IInv

\* Who leaves the population leaves its household, which ends with the last of its members;
\* everybody else keeps a home, so the state has no orphan to take in.
LEMMA HouseholdAfterHomes ==
  ASSUME IInv, NEW a \in Alive, NEW m, m = money'
  PROVE  HomesOf(HouseholdAfter(a), Alive \ {a})
<1> DEFINE left == Leave(homes, {a})
           id == homes.of[a]
           rest == IF left.rows[id].members = {} THEN Dissolve(left, id) ELSE left
           alone == {c \in Children(a) : Minor(c) /\ ~Housed(rest, c)}
<1>1. Alive \in SUBSET Pool /\ {a} \in SUBSET Alive /\ HomesOf(homes, Alive)
  BY DEF Alive, IInv
<1>2. IsHoused(homes, a) /\ id # NoHome
  BY <1>1 DEF HomesOf, Shaped, IsHoused, NoHome
<1>3. HomesOf(left, Alive \ {a}) /\ DOMAIN left.rows = DOMAIN homes.rows
  BY <1>1, LeaveHomes
<1>4. HomesOf(rest, Alive \ {a})
  <2>1. id \in DOMAIN left.rows /\ Alive \ {a} \in SUBSET Pool
    BY <1>1, <1>2, <1>3 DEF IsHoused
  <2> HIDE DEF left
  <2>2. CASE left.rows[id].members = {}
    BY <1>3, <2>1, <2>2, DissolveHomes
  <2>3. CASE left.rows[id].members # {}
    BY <1>3, <2>3
  <2> QED
    BY <2>2, <2>3
<1> HIDE DEF left, rest
<1>5. alone = {}
  <2> SUFFICES ASSUME NEW c \in Children(a)
               PROVE  Housed(rest, c)
    OBVIOUS
  <2>1. c \in Alive \ {a}
    BY DEF Children, Alive, IInv, PeopleHold
  <2>2. IsHoused(rest, c)
    BY <1>4, <2>1 DEF HomesOf
  <2>3. rest.of[c] # NoHome
    BY <1>4, <2>2 DEF HomesOf, Shaped, IsHoused, NoHome
  <2> QED
    BY <2>2, <2>3 DEF Housed, IsHoused
<1>6. Housed(homes, a)
  BY <1>2 DEF Housed, IsHoused
<1>7. HouseholdAfter(a) = StateCare(rest, alone, money')
  BY <1>6 DEF HouseholdAfter, left, rest
<1>8. HouseholdAfter(a) = rest
  BY <1>5, <1>7 DEF StateCare
<1> QED
  BY <1>4, <1>8

\* settle: nothing that tells of the dead agent is left in the records of the living.
LEMMA SettleIInv ==
  ASSUME IInv, NEW a \in Alive, NEW cause, Settle(a, cause), UNCHANGED stage, stage # "process"
  PROVE  IInv'
<1>1. /\ UNCHANGED pending
      /\ people' = [people EXCEPT ![a].status = IF cause = "emigrated" THEN "gone" ELSE "dead"]
      /\ pregnancies' = WithoutPregnancies(LostWith(a))
      /\ unions' = {t \in unions : a \notin t}
      /\ homes' = HouseholdAfter(a)
  BY DEF Settle
<1>2. PICK m : m = money'
  OBVIOUS
<1>3. HomesOf(homes', Alive \ {a})
  BY <1>1, <1>2, HouseholdAfterHomes
<1>4. Alive' = Alive \ {a}
  BY <1>1 DEF Alive, IInv, PeopleHold
<1>5. PeopleHold'
  BY <1>1 DEF Alive, IInv, PeopleHold
<1>6. UnionsHold'
  BY <1>1, <1>4 DEF IInv, UnionsHold, WithoutPregnancies, LostWith
<1>7. PendingHold'
  BY <1>1 DEF IInv, PendingHold
<1> QED
  BY <1>3, <1>4, <1>5, <1>6, <1>7 DEF IInv

LEMMA AgeIInv ==
  ASSUME IInv, Age
  PROVE  IInv'
<1>1. /\ UNCHANGED <<homes, unions, pregnancies, pending>> /\ stage' = "mortality"
      /\ people' = [a \in Pool |-> IF a \in Alive THEN [people[a] EXCEPT !.age = people[a].age + 1]
                                   ELSE people[a]]
  BY DEF Age, Goto, family
<1>2. \A a \in Pool : /\ people'[a].status = people[a].status /\ people'[a].age \in Nat
                      /\ people'[a].mother = people[a].mother /\ people'[a].father = people[a].father
  BY <1>1 DEF IInv, PeopleHold
<1>3. Alive' = Alive
  BY <1>2 DEF Alive
<1>4. PeopleHold'
  BY <1>1, <1>2 DEF IInv, PeopleHold
<1> QED
  BY <1>1, <1>3, <1>4 DEF IInv, PendingHold, UnionsHold

LEMMA NextIInv == IInv /\ [Next]_vars => IInv'
<1> SUFFICES ASSUME IInv, [Next]_vars
             PROVE  IInv'
  OBVIOUS
<1>1. CASE Submit
  BY <1>1, SubmitIInv
<1>2. CASE \/ \E a \in Pool, cents \in Earnings : Earn(a, cents)
           \/ \E x \in Menu : Court(x) \/ DissolveRaises(x) \/ DissolveApart(x)
           \/ EndProcess \/ EndIndependence \/ EndScan \/ EndAdvance \/ ChargeRaises \/ EndArrive
           \/ NextTick \/ UNCHANGED vars
  BY <1>2, FrameIInv
<1>3. CASE \E x \in Menu : ProposeUnion(x)
  BY <1>3, ProposeIInv
<1>4. CASE \E x \in Menu : DissolveUnion(x)
  BY <1>4, DissolveIInv
<1>5. CASE \E a \in Pool : MoveOut(a)
  BY <1>5, MoveOutIInv
<1>6. CASE \E a \in Pool : Conceive(a)
  BY <1>6, ConceiveIInv
<1>7. CASE \E a \in Pool : Birth(a)
  BY <1>7, BirthIInv
<1>8. CASE \E a \in Pool : Loss(a)
  BY <1>8, LossIInv
<1>9. CASE Charge
  BY <1>9, ChargeIInv
<1>10. CASE Arrive
  BY <1>10, ArriveIInv
<1>11. CASE \E a \in Pool : Depart(a)
  <2>1. PICK a \in Pool : Depart(a)
    BY <1>11
  <2>2. a \in Alive /\ Settle(a, "emigrated") /\ UNCHANGED stage /\ stage # "process"
    BY <2>1 DEF Depart
  <2> QED
    BY <2>2, SettleIInv
<1>12. CASE \E a \in Pool : Die(a)
  <2>1. PICK a \in Pool : Die(a)
    BY <1>12
  <2>2. a \in Alive /\ Settle(a, "mortality") /\ UNCHANGED stage /\ stage # "process"
    BY <2>1 DEF Die
  <2> QED
    BY <2>2, SettleIInv
<1>13. CASE Age
  BY <1>13, AgeIInv
<1> QED
  BY <1>1, <1>2, <1>3, <1>4, <1>5, <1>6, <1>7, <1>8, <1>9, <1>10, <1>11, <1>12, <1>13
  DEF Next, Ended

THEOREM Families == Spec => []IInv
<1>1. Init => IInv
  BY InitIInv
<1>2. IInv /\ [Next]_vars => IInv'
  BY NextIInv
<1> QED
  BY <1>1, <1>2, PTL DEF Spec

\* The living are each in the one household that lists them, the dead in none, whatever
\* unions, separations, departures and deaths a run goes through, and however many of them
\* happen in one tick; every household with members is headed by one of them, no agent has
\* two partners or a dead one, and no pregnancy outlives a parent (HouseholdRegistry and
\* CourtshipRegistry in agents/demography.py).
THEOREM FamiliesAlwaysAgree == Spec => []FamiliesAgree
<1>1. IInv => FamiliesAgree
  <2> SUFFICES ASSUME IInv
               PROVE  HouseholdsAgree
    BY DEF IInv, FamiliesAgree
  <2>1. ASSUME NEW a \in Alive
        PROVE  Housed(homes, a) /\ a \in homes.rows[homes.of[a]].members
    <3>1. IsHoused(homes, a)
      BY DEF IInv, HomesOf
    <3>2. homes.of[a] # NoHome
      BY <3>1 DEF IInv, HomesOf, Shaped, IsHoused, NoHome
    <3> QED
      BY <3>1, <3>2 DEF IsHoused, Housed
  <2>2. \A id \in DOMAIN homes.rows : RowHolds(homes, Alive, id)
    BY DEF IInv, HomesOf
  <2> QED
    BY <2>1, <2>2 DEF HouseholdsAgree, RowHolds, Headed
<1> QED
  BY <1>1, Families, PTL
=============================================================================
