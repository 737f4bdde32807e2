---------------------------- MODULE PolityProofs ----------------------------
(***************************************************************************)
(* Parties, elections and policies, for every set of agents, actions,      *)
(* steps, methods and settings.                                            *)
(*                                                                         *)
(* The invariant has a part for each register.  The one of the policies    *)
(* says that the overlay, the records and the rows are entry by entry the  *)
(* same and that no entry takes effect before an earlier one: the lag of a *)
(* parameter is fixed.  Then the value in force is the newest one due, and *)
(* an enactment, which takes effect later than now, changes no value that  *)
(* was in force.                                                           *)
(***************************************************************************)
EXTENDS Polity, FiniteSetTheorems, TLAPS

ElectionFields == {"office", "method", "voting", "ends", "electorate", "resolved"}
CandidacyFields == {"party", "spend", "votes", "refunded"}
PartyFields == {"founder", "founded", "dissolved", "founding", "members", "leader", "ratified",
                "below", "cycles"}
ProposalFields == {"by", "param", "old", "new", "outcome"}
RecordFields == {"proposal", "old", "new", "effective", "repealed"}

IsSeq(s) == s \in Seq(Range(s))

Delay(p) == Max({1, Lag[p]})

\* The records of a parameter and its overlay, in the order in which they take effect.
Lists(rs, hs, bound) ==
    /\ IsSeq(rs) /\ IsSeq(hs) /\ Len(hs) = Len(rs)
    /\ \A i \in DOMAIN rs :
         /\ DOMAIN rs[i] = RecordFields
         /\ rs[i].effective \in Nat /\ rs[i].effective <= bound
         /\ (rs[i].repealed = NoTick) <=> (i = Len(rs))
         /\ hs[i] = [value |-> rs[i].new, effective |-> rs[i].effective]
         /\ \A j \in DOMAIN rs : i <= j => rs[i].effective <= rs[j].effective

\* The records and their rows.
Rows(rs, ws) ==
    /\ IsSeq(ws) /\ Len(ws) = Len(rs)
    /\ \A i \in DOMAIN rs :
         LET restored == i < Len(rs) /\ rs[i + 1].new = rs[i].old
         IN /\ DOMAIN ws[i] = {"old", "new", "effective", "repealed"}
            /\ ws[i].old = rs[i].old /\ ws[i].new = rs[i].new
            /\ ws[i].effective = rs[i].effective
            /\ ws[i].repealed = IF restored THEN rs[i].repealed ELSE NoTick

\* The records are of the enacted proposals ps about the parameter, one of each.
Enactments(p, rs, ps) ==
    /\ \A i \in DOMAIN rs : /\ rs[i].proposal \in DOMAIN ps
                            /\ ps[rs[i].proposal].param = p
                            /\ ps[rs[i].proposal].outcome = "enacted"
                            /\ \A j \in DOMAIN rs : rs[j].proposal = rs[i].proposal => j = i
    /\ \A k \in DOMAIN ps : ps[k].param = p /\ ps[k].outcome = "enacted" =>
            \E i \in DOMAIN rs : rs[i].proposal = k

ParamHolds(p) == Lists(records[p], history[p], tick + Delay(p))
RowsHold(p) == Rows(records[p], tables.policies[p])
EnactedHold(p) == Enactments(p, records[p], proposals)

PoliciesHold ==
    /\ tick \in Nat /\ tick <= LastTick
    /\ DOMAIN history = Params /\ DOMAIN records = Params
    /\ DOMAIN tables = {"parties", "elections", "candidacies", "policies"}
    /\ DOMAIN tables.policies = Params
    /\ \A p \in Params : ParamHolds(p) /\ RowsHold(p) /\ EnactedHold(p)
    /\ IsSeq(proposals)
    /\ \A i \in DOMAIN proposals : DOMAIN proposals[i] = ProposalFields /\ proposals[i].param \in Params

-----------------------------------------------------------------------------
(* Facts about lists and numbers *)

LEMMA MaxOfTwo ==
  ASSUME NEW a \in Int, NEW b \in Int
  PROVE  Max({a, b}) = IF a >= b THEN a ELSE b
BY DEF Max

LEMMA DelayPositive ==
  ASSUME NEW p \in Params
  PROVE  Delay(p) \in Nat /\ Delay(p) >= 1
<1>1. Lag[p] \in Nat
  BY PolityAssumption
<1> QED
  BY <1>1, MaxOfTwo DEF Delay

LEMMA LeastNumber ==
  ASSUME NEW U, U \subseteq Nat, U # {}
  PROVE  \E u \in U : \A v \in U : u <= v
<1> DEFINE R == {z \in Nat \X Nat : z[1] < z[2]}
<1>1. OpToRel(<, Nat) = R
  BY DEF OpToRel
<1>2. IsWellFoundedOn(R, Nat)
  BY <1>1, NatLessThanWellFounded
<1> HIDE DEF R
<1>3. PICK u \in U : \A v \in U : ~(<<v, u>> \in R)
  BY <1>2, WFMin
<1>4. \A v \in U : ~(v < u)
  BY <1>3 DEF R
<1> QED
  BY <1>4

LEMMA Greatest ==
  ASSUME NEW n \in Nat, NEW T, T \subseteq 1..n, T # {}
  PROVE  \E m \in T : \A j \in T : j <= m
<1> DEFINE U == {n - i : i \in T}
<1>1. \A i \in T : i \in 1..n /\ n - i \in Nat
  <2>1. ASSUME NEW i \in T
        PROVE  i \in 1..n /\ n - i \in Nat
    <3>1. i \in 1..n
      OBVIOUS
    <3> QED
      BY <3>1
  <2> QED
    BY <2>1
<1>2. U \subseteq Nat /\ U # {}
  BY <1>1
<1>3. PICK u \in U : \A v \in U : u <= v
  <2> HIDE DEF U
  <2> QED
    BY <1>2, LeastNumber
<1>4. PICK m \in T : u = n - m
  OBVIOUS
<1>5. \A j \in T : u <= n - j
  BY <1>3
<1> QED
  BY <1>1, <1>4, <1>5

LEMMA Appended ==
  ASSUME NEW s, IsSeq(s), NEW e
  PROVE  /\ IsSeq(Append(s, e)) /\ Len(s) \in Nat /\ Len(Append(s, e)) = Len(s) + 1
         /\ DOMAIN s = 1..Len(s) /\ DOMAIN Append(s, e) = 1..(Len(s) + 1)
         /\ \A i \in DOMAIN s : Append(s, e)[i] = s[i]
         /\ Append(s, e)[Len(s) + 1] = e
<1> DEFINE S == Range(s) \cup {e}
           t == Append(s, e)
           n == Len(s)
<1>1. s \in Seq(S) /\ e \in S /\ n \in Nat
  <2>1. Range(s) \subseteq S
    OBVIOUS
  <2> HIDE DEF S
  <2>2. s \in Seq(S)
    BY <2>1 DEF IsSeq
  <2> QED
    BY <2>2 DEF S
<1> HIDE DEF S
<1>2. /\ t \in Seq(S) /\ Len(t) = n + 1 /\ DOMAIN t = 1..(n+1) /\ DOMAIN s = 1..n
      /\ \A i \in 1..n : t[i] = s[i]
      /\ t[n+1] = e
  BY <1>1
<1> HIDE DEF t
<1>3. t \in [1..(n+1) -> Range(t)]
  BY <1>1, <1>2 DEF Range
<1>4. t \in Seq(Range(t))
  BY <1>1, <1>3
<1> QED
  BY <1>1, <1>2, <1>4 DEF t, IsSeq

\* A change of entries keeps a list a list.
LEMMA Rewritten ==
  ASSUME NEW s, IsSeq(s), NEW t, t = [i \in DOMAIN s |-> t[i]]
  PROVE  IsSeq(t) /\ Len(t) = Len(s) /\ Len(s) \in Nat /\ DOMAIN s = 1..Len(s)
<1>1. Len(s) \in Nat /\ DOMAIN s = 1..Len(s)
  BY DEF IsSeq
<1>2. t \in [1..Len(s) -> Range(t)]
  BY <1>1 DEF Range
<1>3. t \in Seq(Range(t))
  BY <1>1, <1>2
<1> QED
  BY <1>1, <1>2, <1>3 DEF IsSeq

-----------------------------------------------------------------------------
(* The value in force *)

Due(h, t) == {i \in DOMAIN h : h[i].effective <= t}

Latest(h, d, t) ==
    LET due == {i \in DOMAIN h : h[i].effective <= t}
        last == CHOOSE i \in due : \A j \in due :
                    \/ h[j].effective < h[i].effective
                    \/ h[j].effective = h[i].effective /\ j <= i
    IN IF due = {} THEN d ELSE h[last].value

\* The value in force at a tick is the newest of those due.
LEMMA ValueIsNewest ==
  ASSUME NEW rs, NEW h, NEW b, Lists(rs, h, b), NEW d, NEW t \in Int
  PROVE  \/ Due(h, t) = {} /\ Latest(h, d, t) = d
         \/ \E m \in Due(h, t) : /\ \A j \in Due(h, t) : j <= m
                                 /\ Latest(h, d, t) = h[m].value
<1> DEFINE D == Due(h, t)
           Later(i) == \A j \in D : \/ h[j].effective < h[i].effective
                                    \/ h[j].effective = h[i].effective /\ j <= i
<1>1. /\ DOMAIN h = 1..Len(h) /\ Len(h) \in Nat
      /\ \A i \in DOMAIN h : /\ h[i].effective \in Nat
                             /\ \A j \in DOMAIN h : i <= j => h[i].effective <= h[j].effective
  <2>2. IsSeq(rs) /\ IsSeq(h) /\ Len(h) = Len(rs)
    BY DEF Lists
  <2>3. DOMAIN h = 1..Len(h) /\ Len(h) \in Nat /\ DOMAIN rs = DOMAIN h
    BY <2>2 DEF IsSeq
  <2>4. ASSUME NEW i \in DOMAIN h
        PROVE  h[i].effective = rs[i].effective
    <3>1. h[i] = [value |-> rs[i].new, effective |-> rs[i].effective]
      BY <2>3 DEF Lists
    <3> QED
      BY <3>1
  <2>5. \A i \in DOMAIN h : /\ rs[i].effective \in Nat
                            /\ \A j \in DOMAIN h : i <= j => rs[i].effective <= rs[j].effective
    BY <2>3 DEF Lists
  <2> QED
    BY <2>3, <2>4, <2>5
<1>2. D = {i \in DOMAIN h : h[i].effective <= t}
  BY DEF Due
<1>3. Latest(h, d, t) = IF D = {} THEN d ELSE h[CHOOSE i \in D : Later(i)].value
  BY DEF Latest, Due
<1> HIDE DEF D
<1>4. CASE D = {}
  BY <1>3, <1>4 DEF D
<1>5. CASE D # {}
  <2>1. PICK m \in D : \A j \in D : j <= m
    BY <1>1, <1>2, <1>5, Greatest
  <2>2. Later(m)
    <3> SUFFICES ASSUME NEW j \in D
                 PROVE  \/ h[j].effective < h[m].effective
                        \/ h[j].effective = h[m].effective /\ j <= m
      OBVIOUS
    <3>1. j \in DOMAIN h /\ m \in DOMAIN h /\ j <= m
      BY <1>2, <2>1
    <3>2. h[j].effective <= h[m].effective /\ h[j].effective \in Nat /\ h[m].effective \in Nat
      BY <1>1, <3>1
    <3> QED
      BY <3>1, <3>2
  <2>3. ASSUME NEW i \in D, Later(i)
        PROVE  i = m
    <3>1. i \in DOMAIN h /\ m \in DOMAIN h /\ i <= m
      BY <1>2, <2>1
    <3>2. \/ h[m].effective < h[i].effective
          \/ h[m].effective = h[i].effective /\ m <= i
      BY <2>3
    <3>3. h[i].effective <= h[m].effective /\ h[i].effective \in Nat /\ h[m].effective \in Nat
      BY <1>1, <3>1
    <3> QED
      BY <1>1, <3>1, <3>2, <3>3
  <2>4. (CHOOSE i \in D : Later(i)) = m
    <3> HIDE DEF Later
    <3> QED
      BY <2>2, <2>3
  <2> QED
    BY <1>3, <1>5, <2>1, <2>4 DEF D
<1> QED
  BY <1>4, <1>5

-----------------------------------------------------------------------------
(* The registers of policies *)

\* A step that neither proposes nor decides.
PoliciesKept ==
    /\ proposals' = proposals /\ history' = history /\ records' = records
    /\ DOMAIN tables' = DOMAIN tables /\ tables'.policies = tables.policies

TimePasses == tick' \in {tick, tick + 1} /\ tick' <= LastTick

LEMMA KeptPolicies ==
  ASSUME PoliciesHold, PoliciesKept, TimePasses
  PROVE  PoliciesHold'
<1>1. ASSUME NEW p \in Params
      PROVE  (ParamHolds(p) /\ RowsHold(p) /\ EnactedHold(p))'
  <2>1. ParamHolds(p) /\ RowsHold(p) /\ EnactedHold(p) /\ tick \in Nat /\ Delay(p) \in Nat
    BY DelayPositive DEF PoliciesHold
  <2>2. RowsHold(p)' /\ EnactedHold(p)'
    BY <2>1 DEF RowsHold, Rows, EnactedHold, Enactments, PoliciesKept
  <2>3. \A i \in DOMAIN records[p] : /\ records[p][i].effective \in Nat
                                     /\ records[p][i].effective <= tick + Delay(p)
    BY <2>1 DEF ParamHolds, Lists
  <2>4. \A i \in DOMAIN records[p] : records[p][i].effective <= tick' + Delay(p)
    BY <2>1, <2>3 DEF TimePasses
  <2>5. ParamHolds(p)'
    BY <2>1, <2>4 DEF ParamHolds, Lists, PoliciesKept, Delay
  <2> QED
    BY <2>2, <2>5
<1>2. tick' \in Nat /\ tick' <= LastTick
  BY DEF PoliciesHold, TimePasses
<1> QED
  BY <1>1, <1>2 DEF PoliciesHold, PoliciesKept

\* Proposals change by a new one, or by the outcome of one that was pending.
Closes(i, outcome) ==
    /\ i \in Pending /\ proposals' = Closed(i, outcome)
    /\ tick' = tick

LEMMA ClosedKeeps ==
  ASSUME PoliciesHold, NEW i, NEW outcome, Closes(i, outcome)
  PROVE  /\ IsSeq(proposals)' /\ DOMAIN proposals' = DOMAIN proposals /\ i \in DOMAIN proposals
         /\ \A k \in DOMAIN proposals : /\ DOMAIN proposals'[k] = ProposalFields
                                        /\ proposals'[k].param = proposals[k].param
                                        /\ proposals'[k].outcome = IF k = i THEN outcome
                                                                   ELSE proposals[k].outcome
<1>1. /\ i \in DOMAIN proposals
      /\ proposals' = [k \in DOMAIN proposals |-> IF k = i THEN [proposals[k] EXCEPT !.outcome = outcome]
                                                  ELSE proposals[k]]
  BY DEF Closes, Closed, Pending
<1>2. proposals' = [k \in DOMAIN proposals |-> proposals'[k]]
  BY <1>1
<1>3. IsSeq(proposals)'
  BY <1>2, Rewritten DEF PoliciesHold
<1>4. ASSUME NEW k \in DOMAIN proposals
      PROVE  /\ DOMAIN proposals'[k] = ProposalFields
             /\ proposals'[k].param = proposals[k].param
             /\ proposals'[k].outcome = IF k = i THEN outcome ELSE proposals[k].outcome
  <2>1. DOMAIN proposals[k] = ProposalFields
    BY DEF PoliciesHold
  <2>2. proposals'[k] = IF k = i THEN [proposals[k] EXCEPT !.outcome = outcome] ELSE proposals[k]
    BY <1>1
  <2> QED
    BY <2>1, <2>2 DEF ProposalFields
<1> QED
  BY <1>1, <1>2, <1>3, <1>4

LEMMA TurnedDown ==
  ASSUME PoliciesHold, NEW i, NEW outcome, outcome # "enacted", Closes(i, outcome),
         UNCHANGED <<history, records, tables>>
  PROVE  PoliciesHold'
<1>1. /\ IsSeq(proposals)' /\ DOMAIN proposals' = DOMAIN proposals /\ i \in DOMAIN proposals
      /\ \A k \in DOMAIN proposals : /\ DOMAIN proposals'[k] = ProposalFields
                                     /\ proposals'[k].param = proposals[k].param
                                     /\ proposals'[k].outcome = IF k = i THEN outcome
                                                                ELSE proposals[k].outcome
  BY ClosedKeeps
<1>2. proposals[i].outcome = "pending"
  BY DEF Closes, Pending
<1>3. ASSUME NEW p \in Params
      PROVE  (ParamHolds(p) /\ RowsHold(p) /\ EnactedHold(p))'
  <2>1. ParamHolds(p) /\ RowsHold(p) /\ EnactedHold(p)
    BY DEF PoliciesHold
  <2>2. ParamHolds(p)' /\ RowsHold(p)'
    BY <2>1 DEF ParamHolds, RowsHold, Closes
  <2>3. EnactedHold(p)'
    BY <1>1, <1>2, <2>1 DEF EnactedHold, Enactments
  <2> QED
    BY <2>2, <2>3
<1> QED
  BY <1>1, <1>3 DEF PoliciesHold, Closes

LEMMA Proposed ==
  ASSUME PoliciesHold, NEW x \in Actions, Propose(x)
  PROVE  PoliciesHold'
<1> DEFINE q == [by |-> x[2], param |-> x[3], old |-> Value(x[3], tick), new |-> x[4],
                 outcome |-> "pending"]
<1>1. /\ proposals' = Append(proposals, q) /\ UNCHANGED <<tick, history, records, tables>>
      /\ DOMAIN q = ProposalFields /\ q.param = x[3] /\ q.outcome = "pending" /\ x[3] \in Params
  BY PolityAssumption DEF Propose, Resolve, Turn, ProposalFields
<1> HIDE DEF q
<1>2. /\ IsSeq(proposals)' /\ Len(proposals) \in Nat /\ DOMAIN proposals = 1..Len(proposals)
      /\ DOMAIN proposals' = 1..(Len(proposals) + 1)
      /\ \A k \in DOMAIN proposals : proposals'[k] = proposals[k]
      /\ proposals'[Len(proposals) + 1] = q
  BY <1>1, Appended DEF PoliciesHold
<1>3. \A k \in DOMAIN proposals' : k \in DOMAIN proposals \/ proposals'[k] = q
  BY <1>2
<1>4. DOMAIN proposals \subseteq DOMAIN proposals'
  BY <1>2
<1>5. ASSUME NEW p \in Params
      PROVE  (ParamHolds(p) /\ RowsHold(p) /\ EnactedHold(p))'
  <2>1. ParamHolds(p) /\ RowsHold(p) /\ EnactedHold(p)
    BY DEF PoliciesHold
  <2>2. ParamHolds(p)' /\ RowsHold(p)'
    BY <1>1, <2>1 DEF ParamHolds, RowsHold
  <2>3. EnactedHold(p)'
    BY <1>1, <1>2, <1>3, <1>4, <2>1 DEF EnactedHold, Enactments
  <2> QED
    BY <2>2, <2>3
<1>6. \A k \in DOMAIN proposals' : DOMAIN proposals'[k] = ProposalFields /\ proposals'[k].param \in Params
  BY <1>1, <1>2, <1>3 DEF PoliciesHold
<1> QED
  BY <1>1, <1>2, <1>5, <1>6 DEF PoliciesHold

\* The old record is repealed, the new one comes last, in the register, the overlay and the rows.
Grown(s, g, w, rs, h, ws, now, v, o, u, c) ==
    /\ IsSeq(rs) /\ IsSeq(h) /\ IsSeq(ws)
    /\ Len(rs) = Len(s) + 1 /\ Len(h) = Len(s) + 1 /\ Len(ws) = Len(s) + 1
    /\ \A k \in 1..Len(s) :
         /\ rs[k] = IF k = Len(s) THEN [s[k] EXCEPT !.repealed = now] ELSE s[k]
         /\ h[k] = g[k]
         /\ ws[k] = IF k = Len(s) /\ w[Len(s)].old = u THEN [w[k] EXCEPT !.repealed = now]
                    ELSE w[k]
    /\ rs[Len(s) + 1] = [proposal |-> v, old |-> o, new |-> u, effective |-> c, repealed |-> NoTick]
    /\ h[Len(s) + 1] = [value |-> u, effective |-> c]
    /\ ws[Len(s) + 1] = [old |-> o, new |-> u, effective |-> c, repealed |-> NoTick]

LEMMA RecordsGrow ==
  ASSUME PoliciesHold, NEW i, Closes(i, "enacted"), Enact(i), NEW p, p = proposals[i].param
  PROVE  Grown(records[p], history[p], tables.policies[p], records'[p], history'[p],
               tables'.policies[p], tick, i, proposals[i].old, proposals[i].new, tick + Delay(p))
<1> DEFINE q == proposals[i]
           s == records[p]
           n == Len(s)
           h == history[p]
           w == tables.policies[p]
           rec == [proposal |-> i, old |-> q.old, new |-> q.new, effective |-> tick + Delay(p),
                   repealed |-> NoTick]
           ent == [value |-> q.new, effective |-> tick + Delay(p)]
           row == [old |-> q.old, new |-> q.new, effective |-> tick + Delay(p), repealed |-> NoTick]
           rep == IF n = 0 THEN <<>> ELSE [s EXCEPT ![n].repealed = tick]
           wrp == IF n > 0 /\ w[n].old = q.new THEN [w EXCEPT ![n].repealed = tick] ELSE w
<1>1. i \in DOMAIN proposals /\ p \in Params
  BY DEF Closes, Pending, PoliciesHold
<1>2. /\ IsSeq(s) /\ IsSeq(h) /\ IsSeq(w) /\ Len(h) = n /\ Len(w) = n
      /\ DOMAIN records = Params /\ DOMAIN history = Params /\ DOMAIN tables.policies = Params
      /\ "policies" \in DOMAIN tables
  BY <1>1 DEF PoliciesHold, ParamHolds, Lists, RowsHold, Rows
<1>3. n \in Nat /\ DOMAIN s = 1..n /\ DOMAIN h = 1..n /\ DOMAIN w = 1..n
  BY <1>2 DEF IsSeq
<1>4. /\ records' = [records EXCEPT ![p] = Append(rep, rec)]
      /\ history' = [history EXCEPT ![p] = Append(h, ent)]
      /\ tables' = [tables EXCEPT !.policies[p] = Append(wrp, row)]
  BY <1>2 DEF Enact, EffectiveTick, Delay, PolicyRows
<1>5. /\ records'[p] = Append(rep, rec) /\ history'[p] = Append(h, ent)
      /\ tables'.policies[p] = Append(wrp, row)
  BY <1>1, <1>2, <1>4
<1>6. /\ IsSeq(rep) /\ Len(rep) = n
      /\ \A k \in 1..n : rep[k] = IF k = n THEN [s[k] EXCEPT !.repealed = tick] ELSE s[k]
  <2>1. CASE n = 0
    BY <2>1 DEF IsSeq, Range
  <2>2. CASE n # 0
    <3>1. rep = [k \in DOMAIN s |-> IF k = n THEN [s[k] EXCEPT !.repealed = tick] ELSE s[k]]
      BY <1>3, <2>2
    <3>2. rep = [k \in DOMAIN s |-> rep[k]]
      BY <3>1
    <3> HIDE DEF rep
    <3>3. IsSeq(rep) /\ Len(rep) = n
      BY <1>2, <3>2, Rewritten
    <3> QED
      BY <1>3, <3>1, <3>3
  <2> QED
    BY <2>1, <2>2
<1>7. /\ IsSeq(wrp) /\ Len(wrp) = n
      /\ \A k \in 1..n : wrp[k] = IF k = n /\ w[n].old = q.new
                                  THEN [w[k] EXCEPT !.repealed = tick] ELSE w[k]
  <2>1. CASE n > 0 /\ w[n].old = q.new
    <3>1. wrp = [k \in DOMAIN w |-> IF k = n THEN [w[k] EXCEPT !.repealed = tick] ELSE w[k]]
      BY <1>3, <2>1
    <3>2. wrp = [k \in DOMAIN w |-> wrp[k]]
      BY <3>1
    <3> HIDE DEF wrp
    <3>3. IsSeq(wrp) /\ Len(wrp) = n
      BY <1>2, <3>2, Rewritten
    <3> QED
      BY <1>3, <2>1, <3>1, <3>3
  <2>2. CASE ~(n > 0 /\ w[n].old = q.new)
    <3>1. wrp = w
      BY <2>2
    <3>2. \A k \in 1..n : ~(k = n /\ w[n].old = q.new)
      BY <1>3, <2>2
    <3> HIDE DEF wrp, w, n
    <3> QED
      BY <1>2, <3>1, <3>2
  <2> QED
    BY <2>1, <2>2
<1> HIDE DEF rep, wrp, rec, ent, row, s, h, w, n
<1>8. /\ IsSeq(Append(rep, rec)) /\ Len(Append(rep, rec)) = n + 1
      /\ \A k \in 1..n : Append(rep, rec)[k] = rep[k]
      /\ Append(rep, rec)[n + 1] = rec
  BY <1>6, Appended
<1>9. /\ IsSeq(Append(h, ent)) /\ Len(Append(h, ent)) = n + 1
      /\ \A k \in 1..n : Append(h, ent)[k] = h[k]
      /\ Append(h, ent)[n + 1] = ent
  BY <1>2, <1>3, Appended
<1>10. /\ IsSeq(Append(wrp, row)) /\ Len(Append(wrp, row)) = n + 1
       /\ \A k \in 1..n : Append(wrp, row)[k] = wrp[k]
       /\ Append(wrp, row)[n + 1] = row
  BY <1>7, Appended
<1>11. /\ IsSeq(records'[p]) /\ Len(records'[p]) = n + 1 /\ records'[p][n + 1] = rec
       /\ \A k \in 1..n : records'[p][k] = IF k = n THEN [s[k] EXCEPT !.repealed = tick] ELSE s[k]
  BY <1>5, <1>6, <1>8
<1>12. /\ IsSeq(history'[p]) /\ Len(history'[p]) = n + 1 /\ history'[p][n + 1] = ent
       /\ \A k \in 1..n : history'[p][k] = h[k]
  BY <1>5, <1>9
<1>13. /\ IsSeq(tables'.policies[p]) /\ Len(tables'.policies[p]) = n + 1
       /\ tables'.policies[p][n + 1] = row
       /\ \A k \in 1..n : tables'.policies[p][k] = IF k = n /\ w[n].old = q.new
                                  THEN [w[k] EXCEPT !.repealed = tick] ELSE w[k]
  BY <1>5, <1>7, <1>10
<1> QED
  BY <1>1, <1>3, <1>11, <1>12, <1>13 DEF Grown, rec, ent, row, s, h, w, n

\* One more record: the bound grows, and the record before it is repealed.
LEMMA ListsGrow ==
  ASSUME NEW s, NEW g, NEW b \in Nat, Lists(s, g, b), NEW c \in Nat, b <= c,
         NEW w, NEW rs, NEW h, NEW ws, NEW now, now # NoTick, NEW v, NEW o, NEW u,
         Grown(s, g, w, rs, h, ws, now, v, o, u, c)
  PROVE  Lists(rs, h, c)
<1> PICK n : n = Len(s)
  OBVIOUS
<1>0. /\ IsSeq(rs) /\ IsSeq(h) /\ Len(rs) = n + 1 /\ Len(h) = n + 1
      /\ \A k \in 1..n : /\ rs[k] = IF k = n THEN [s[k] EXCEPT !.repealed = now] ELSE s[k]
                         /\ h[k] = g[k]
      /\ rs[n + 1] = [proposal |-> v, old |-> o, new |-> u, effective |-> c, repealed |-> NoTick]
      /\ h[n + 1] = [value |-> u, effective |-> c]
  BY DEF Grown
<1>1. n \in Nat /\ DOMAIN s = 1..n /\ DOMAIN rs = 1..(n + 1) /\ DOMAIN h = 1..(n + 1)
  BY <1>0 DEF Lists, IsSeq
<1>2. ASSUME NEW k \in 1..n
      PROVE  /\ DOMAIN rs[k] = RecordFields /\ rs[k].effective = s[k].effective
             /\ s[k].effective \in Nat /\ s[k].effective <= c
             /\ rs[k].repealed # NoTick
             /\ h[k] = [value |-> rs[k].new, effective |-> rs[k].effective]
  <2>1. /\ DOMAIN s[k] = RecordFields /\ s[k].effective \in Nat /\ s[k].effective <= b
        /\ k # n => s[k].repealed # NoTick
        /\ g[k] = [value |-> s[k].new, effective |-> s[k].effective]
    BY <1>1 DEF Lists
  <2>2. /\ DOMAIN rs[k] = RecordFields /\ rs[k].effective = s[k].effective
        /\ rs[k].new = s[k].new
        /\ rs[k].repealed = IF k = n THEN now ELSE s[k].repealed
    BY <1>0, <2>1 DEF RecordFields
  <2>3. h[k] = [value |-> rs[k].new, effective |-> rs[k].effective]
    BY <1>0, <2>1, <2>2
  <2>4. rs[k].repealed # NoTick /\ s[k].effective <= c
    BY <2>1, <2>2
  <2> QED
    BY <2>1, <2>2, <2>3, <2>4
<1>3. /\ DOMAIN rs[n+1] = RecordFields /\ rs[n+1].effective = c /\ rs[n+1].new = u
      /\ rs[n+1].repealed = NoTick
  BY <1>0 DEF RecordFields
<1>4. \A k \in 1..(n+1) : k \in 1..n \/ k = n + 1
  BY <1>1
<1>5. \A k, j \in 1..n : k <= j => s[k].effective <= s[j].effective
  BY <1>1 DEF Lists
<1>6. ASSUME NEW k \in 1..(n+1)
      PROVE  /\ DOMAIN rs[k] = RecordFields
             /\ rs[k].effective \in Nat /\ rs[k].effective <= c
             /\ (rs[k].repealed = NoTick) <=> (k = n + 1)
             /\ h[k] = [value |-> rs[k].new, effective |-> rs[k].effective]
  <2>1. CASE k \in 1..n
    <3>1. k # n + 1
      BY <1>1, <2>1
    <3> QED
      BY <1>2, <2>1, <3>1
  <2>2. CASE k = n + 1
    <3>1. h[k] = [value |-> rs[k].new, effective |-> rs[k].effective]
      BY <1>0, <1>3, <2>2
    <3>2. /\ DOMAIN rs[k] = RecordFields /\ rs[k].effective = c /\ rs[k].repealed = NoTick
      BY <1>3, <2>2
    <3> QED
      BY <2>2, <3>1, <3>2
  <2> QED
    BY <1>4, <2>1, <2>2
<1>7. ASSUME NEW k \in 1..(n+1), NEW j \in 1..(n+1), k <= j
      PROVE  rs[k].effective <= rs[j].effective
  <2>1. CASE j = n + 1
    BY <1>3, <1>6, <2>1
  <2>2. CASE j \in 1..n
    <3>1. k \in 1..n
      BY <1>1, <1>7, <2>2
    <3> QED
      BY <1>2, <1>5, <1>7, <2>2, <3>1
  <2> QED
    BY <1>4, <2>1, <2>2
<1> QED
  BY <1>0, <1>1, <1>6, <1>7 DEF Lists

\* The row of the record before is repealed only where the new one restores what it replaced.
LEMMA RowsGrow ==
  ASSUME NEW s, IsSeq(s), \A k \in DOMAIN s : DOMAIN s[k] = RecordFields,
         NEW g, NEW w, Rows(s, w), NEW rs, NEW h, NEW ws, NEW now, NEW v, NEW o, NEW u, NEW c,
         Grown(s, g, w, rs, h, ws, now, v, o, u, c)
  PROVE  Rows(rs, ws)
<1> PICK n : n = Len(s)
  OBVIOUS
<1>0. /\ IsSeq(rs) /\ IsSeq(ws) /\ Len(rs) = n + 1 /\ Len(ws) = n + 1
      /\ \A k \in 1..n : /\ rs[k] = IF k = n THEN [s[k] EXCEPT !.repealed = now] ELSE s[k]
                         /\ ws[k] = IF k = n /\ w[n].old = u THEN [w[k] EXCEPT !.repealed = now]
                                    ELSE w[k]
      /\ rs[n + 1] = [proposal |-> v, old |-> o, new |-> u, effective |-> c, repealed |-> NoTick]
      /\ ws[n + 1] = [old |-> o, new |-> u, effective |-> c, repealed |-> NoTick]
  BY DEF Grown
<1>1. n \in Nat /\ DOMAIN s = 1..n /\ DOMAIN rs = 1..(n + 1)
  BY <1>0 DEF IsSeq
<1>2. rs[n+1].new = u /\ rs[n+1].old = o /\ rs[n+1].effective = c
  BY <1>0
<1>3. ASSUME NEW k \in 1..n
      PROVE  /\ rs[k].new = s[k].new /\ rs[k].old = s[k].old /\ rs[k].effective = s[k].effective
             /\ rs[k].repealed = IF k = n THEN now ELSE s[k].repealed
  <2>1. DOMAIN s[k] = RecordFields
    BY <1>1
  <2> QED
    BY <1>0, <2>1 DEF RecordFields
<1>4. ASSUME NEW k \in 1..(n+1)
      PROVE  LET restored == k < n + 1 /\ rs[k + 1].new = rs[k].old
             IN /\ DOMAIN ws[k] = {"old", "new", "effective", "repealed"}
                /\ ws[k].old = rs[k].old /\ ws[k].new = rs[k].new
                /\ ws[k].effective = rs[k].effective
                /\ ws[k].repealed = IF restored THEN rs[k].repealed ELSE NoTick
  <2>1. CASE k = n + 1
    <3>1. ~(k < n + 1)
      BY <1>1, <2>1
    <3>2. /\ DOMAIN ws[k] = {"old", "new", "effective", "repealed"}
          /\ ws[k].old = o /\ ws[k].new = u /\ ws[k].effective = c /\ ws[k].repealed = NoTick
      BY <1>0, <2>1
    <3> QED
      BY <1>2, <2>1, <3>1, <3>2
  <2>2. CASE k \in 1..n
    <3>1. LET restored == k < n /\ s[k + 1].new = s[k].old
          IN /\ DOMAIN w[k] = {"old", "new", "effective", "repealed"}
             /\ w[k].old = s[k].old /\ w[k].new = s[k].new /\ w[k].effective = s[k].effective
             /\ w[k].repealed = IF restored THEN s[k].repealed ELSE NoTick
      BY <1>1, <2>2 DEF Rows
    <3>2. ws[k] = IF k = n /\ w[n].old = u THEN [w[k] EXCEPT !.repealed = now] ELSE w[k]
      BY <1>0, <2>2
    <3>3. /\ DOMAIN ws[k] = {"old", "new", "effective", "repealed"}
          /\ ws[k].old = w[k].old /\ ws[k].new = w[k].new /\ ws[k].effective = w[k].effective
          /\ ws[k].repealed = IF k = n /\ w[n].old = u THEN now ELSE w[k].repealed
      BY <3>1, <3>2
    <3>4. CASE k = n
      <4>1. rs[k + 1].new = u /\ k < n + 1 /\ ~(k < n)
        BY <1>1, <1>2, <3>4
      <4> QED
        BY <1>3, <2>2, <3>1, <3>3, <3>4, <4>1
    <3>5. CASE k # n
      <4>1. k < n /\ k < n + 1 /\ k + 1 \in 1..n
        BY <1>1, <2>2, <3>5
      <4>2. rs[k + 1].new = s[k + 1].new
        BY <1>3, <4>1
      <4> QED
        BY <1>3, <2>2, <3>1, <3>3, <3>5, <4>1, <4>2
    <3> QED
      BY <3>4, <3>5
  <2>3. k \in 1..n \/ k = n + 1
    BY <1>1
  <2> QED
    BY <2>1, <2>2, <2>3
<1> QED
  BY <1>0, <1>1, <1>4 DEF Rows

LEMMA EnactmentsGrow ==
  ASSUME NEW p, NEW s, IsSeq(s), \A k \in DOMAIN s : DOMAIN s[k] = RecordFields,
         NEW ps, Enactments(p, s, ps),
         NEW i \in DOMAIN ps, ps[i].param = p, ps[i].outcome # "enacted",
         NEW g, NEW w, NEW rs, NEW h, NEW ws, NEW now, NEW o, NEW u, NEW c,
         Grown(s, g, w, rs, h, ws, now, i, o, u, c),
         NEW qs, DOMAIN qs = DOMAIN ps,
         \A k \in DOMAIN ps : /\ qs[k].param = ps[k].param
                              /\ qs[k].outcome = IF k = i THEN "enacted" ELSE ps[k].outcome
  PROVE  Enactments(p, rs, qs)
<1> PICK n : n = Len(s)
  OBVIOUS
<1>0. /\ IsSeq(rs) /\ Len(rs) = n + 1 /\ rs[n + 1].proposal = i
      /\ \A k \in 1..n : rs[k] = IF k = n THEN [s[k] EXCEPT !.repealed = now] ELSE s[k]
  <2>1. /\ IsSeq(rs) /\ Len(rs) = n + 1
        /\ \A k \in 1..n : rs[k] = IF k = n THEN [s[k] EXCEPT !.repealed = now] ELSE s[k]
        /\ rs[n + 1] = [proposal |-> i, old |-> o, new |-> u, effective |-> c, repealed |-> NoTick]
    BY DEF Grown
  <2>2. rs[n + 1].proposal = i
    BY <2>1
  <2> QED
    BY <2>1, <2>2
<1>a. \A k \in 1..n : rs[k].proposal = s[k].proposal
  <2> SUFFICES ASSUME NEW k \in 1..n
               PROVE  rs[k].proposal = s[k].proposal
    OBVIOUS
  <2>1. DOMAIN s[k] = RecordFields
    BY DEF IsSeq
  <2> QED
    BY <1>0, <2>1 DEF RecordFields
<1>1. n \in Nat /\ DOMAIN s = 1..n /\ DOMAIN rs = 1..(n + 1)
  BY <1>0 DEF IsSeq
<1>2. /\ \A k \in 1..(n+1) : k \in 1..n \/ k = n + 1
      /\ \A k \in 1..n : k \in 1..(n+1) /\ k # n + 1
      /\ n + 1 \in 1..(n+1)
  BY <1>1
<1>3. \A k \in 1..n : /\ s[k].proposal \in DOMAIN ps /\ ps[s[k].proposal].param = p
                      /\ ps[s[k].proposal].outcome = "enacted" /\ s[k].proposal # i
                      /\ \A j \in 1..n : s[j].proposal = s[k].proposal => j = k
  <2> SUFFICES ASSUME NEW k \in 1..n
               PROVE  /\ s[k].proposal \in DOMAIN ps /\ ps[s[k].proposal].param = p
                      /\ ps[s[k].proposal].outcome = "enacted" /\ s[k].proposal # i
                      /\ \A j \in 1..n : s[j].proposal = s[k].proposal => j = k
    OBVIOUS
  <2>1. /\ s[k].proposal \in DOMAIN ps /\ ps[s[k].proposal].param = p
        /\ ps[s[k].proposal].outcome = "enacted"
        /\ \A j \in 1..n : s[j].proposal = s[k].proposal => j = k
    BY <1>1 DEF Enactments
  <2> QED
    BY <2>1
<1>4. \A l \in DOMAIN ps : ps[l].param = p /\ ps[l].outcome = "enacted" =>
        \E k \in 1..n : s[k].proposal = l
  BY <1>1 DEF Enactments
<1>5. ASSUME NEW k \in 1..(n+1)
      PROVE  /\ rs[k].proposal \in DOMAIN qs /\ qs[rs[k].proposal].param = p
             /\ qs[rs[k].proposal].outcome = "enacted"
             /\ \A j \in 1..(n+1) : rs[j].proposal = rs[k].proposal => j = k
  <2>1. CASE k \in 1..n
    BY <1>0, <1>a, <1>2, <1>3, <2>1
  <2>2. CASE k = n + 1
    BY <1>0, <1>a, <1>2, <1>3, <2>2
  <2> QED
    BY <1>2, <2>1, <2>2
<1>6. ASSUME NEW l \in DOMAIN qs, qs[l].param = p, qs[l].outcome = "enacted"
      PROVE  \E k \in 1..(n+1) : rs[k].proposal = l
  <2>1. CASE l = i
    BY <1>0, <1>2, <2>1
  <2>2. CASE l # i
    BY <1>a, <1>2, <1>4, <1>6, <2>2
  <2> QED
    BY <2>1, <2>2
<1> QED
  BY <1>1, <1>5, <1>6 DEF Enactments

LEMMA Enacted ==
  ASSUME PoliciesHold, NEW i, Closes(i, "enacted"), Enact(i)
  PROVE  PoliciesHold'
<1>1. PICK p : p = proposals[i].param
  OBVIOUS
<1>2. /\ p \in Params /\ i \in DOMAIN proposals /\ proposals[i].outcome = "pending"
      /\ tick' = tick /\ tick \in Nat /\ tick # NoTick
      /\ Delay(p) \in Nat /\ tick + Delay(p) \in Nat
  <2>1. p \in Params /\ i \in DOMAIN proposals /\ proposals[i].outcome = "pending" /\ tick' = tick
    BY <1>1 DEF Closes, Pending, PoliciesHold
  <2>2. Delay(p) \in Nat
    BY <2>1, DelayPositive
  <2>3. tick \in Nat /\ tick # NoTick
    BY PolityAssumption DEF PoliciesHold, NoTick
  <2> QED
    BY <2>1, <2>2, <2>3
<1>3. ParamHolds(p) /\ RowsHold(p) /\ EnactedHold(p)
  BY <1>2 DEF PoliciesHold
<1>5. Grown(records[p], history[p], tables.policies[p], records'[p], history'[p],
            tables'.policies[p], tick, i, proposals[i].old, proposals[i].new, tick + Delay(p))
  BY <1>1, RecordsGrow
<1>6. ParamHolds(p)'
  <2>1. Lists(records[p], history[p], tick + Delay(p))
    BY <1>3 DEF ParamHolds
  <2>2. Lists(records'[p], history'[p], tick + Delay(p))
    BY <1>2, <1>5, <2>1, ListsGrow
  <2> QED
    BY <1>2, <2>2 DEF ParamHolds, Delay
<1>7. IsSeq(records[p]) /\ \A k \in DOMAIN records[p] : DOMAIN records[p][k] = RecordFields
  BY <1>3 DEF ParamHolds, Lists
<1>8. RowsHold(p)'
  <2>1. Rows(records[p], tables.policies[p])
    BY <1>3 DEF RowsHold
  <2>2. Rows(records'[p], tables'.policies[p])
    BY <1>5, <1>7, <2>1, RowsGrow
  <2> QED
    BY <2>2 DEF RowsHold
<1>9. /\ IsSeq(proposals)' /\ DOMAIN proposals' = DOMAIN proposals
      /\ \A k \in DOMAIN proposals : /\ DOMAIN proposals'[k] = ProposalFields
                                     /\ proposals'[k].param = proposals[k].param
                                     /\ proposals'[k].outcome = IF k = i THEN "enacted"
                                                                ELSE proposals[k].outcome
  BY ClosedKeeps
<1>10. EnactedHold(p)'
  <2>1. Enactments(p, records[p], proposals)
    BY <1>3 DEF EnactedHold
  <2>4. Enactments(p, records'[p], proposals')
    BY <1>1, <1>2, <1>5, <1>7, <1>9, <2>1, EnactmentsGrow
  <2> QED
    BY <2>4 DEF EnactedHold
<1>11. /\ DOMAIN records' = Params /\ DOMAIN history' = Params
       /\ DOMAIN tables' = DOMAIN tables /\ DOMAIN tables'.policies = Params
       /\ \A r \in Params \ {p} : /\ records'[r] = records[r] /\ history'[r] = history[r]
                                  /\ tables'.policies[r] = tables.policies[r]
  <2>1. /\ \E v : records' = [records EXCEPT ![p] = v]
        /\ \E v : history' = [history EXCEPT ![p] = v]
        /\ \E v : tables' = [tables EXCEPT !.policies[p] = v]
    BY <1>1 DEF Enact
  <2>2. /\ DOMAIN records = Params /\ DOMAIN history = Params /\ DOMAIN tables.policies = Params
        /\ "policies" \in DOMAIN tables
    BY DEF PoliciesHold
  <2>3. /\ DOMAIN records' = Params /\ \A r \in Params \ {p} : records'[r] = records[r]
    BY <2>1, <2>2
  <2>4. /\ DOMAIN history' = Params /\ \A r \in Params \ {p} : history'[r] = history[r]
    BY <2>1, <2>2
  <2>5. /\ DOMAIN tables' = DOMAIN tables /\ DOMAIN tables'.policies = Params
        /\ \A r \in Params \ {p} : tables'.policies[r] = tables.policies[r]
    BY <2>1, <2>2
  <2> QED
    BY <2>3, <2>4, <2>5
<1>12. ASSUME NEW r \in Params, r # p
       PROVE  (ParamHolds(r) /\ RowsHold(r) /\ EnactedHold(r))'
  <2>1. ParamHolds(r) /\ RowsHold(r) /\ EnactedHold(r)
    BY DEF PoliciesHold
  <2>2. /\ records'[r] = records[r] /\ history'[r] = history[r]
        /\ tables'.policies[r] = tables.policies[r]
    BY <1>11, <1>12
  <2>3. ParamHolds(r)' /\ RowsHold(r)'
    BY <1>2, <2>1, <2>2 DEF ParamHolds, RowsHold, Delay
  <2>4. EnactedHold(r)'
    BY <1>1, <1>9, <1>12, <2>1, <2>2 DEF EnactedHold, Enactments
  <2> QED
    BY <2>3, <2>4
<1>13. \A k \in DOMAIN proposals' : DOMAIN proposals'[k] = ProposalFields /\ proposals'[k].param \in Params
  BY <1>9 DEF PoliciesHold
<1>14. \A r \in Params : (ParamHolds(r) /\ RowsHold(r) /\ EnactedHold(r))'
  BY <1>6, <1>8, <1>10, <1>12
<1> QED
  BY <1>2, <1>9, <1>11, <1>13, <1>14 DEF PoliciesHold

-----------------------------------------------------------------------------
(* Every step, seen from the policies *)

Queued == queue \subseteq Actions

LEMMA QueueStep ==
  ASSUME Queued, [Next]_vars
  PROVE  Queued'
<1>1. CASE Submit
  BY <1>1 DEF Submit, Queued
<1>2. CASE queue' = queue \/ \E x : queue' = queue \ {x}
  BY <1>2 DEF Queued
<1>3. CASE \E x \in queue : \/ Found(x) \/ Join(x) \/ Announce(x) \/ Campaign(x) \/ Vote(x)
                            \/ Propose(x) \/ Raise(x)
  <2>1. PICK x \in queue : queue' = queue \ {x}
    BY <1>3 DEF Found, Join, Announce, Campaign, Vote, Propose, Raise, Resolve, Turn
  <2> QED
    BY <1>2, <2>1
<1>4. CASE \E x \in Steps : Call(x) \/ Appoint(x) \/ Remove(x) \/ Leaves(x)
  BY <1>2, <1>4 DEF Call, Appoint, Remove, Leaves, Step
<1>5. CASE \E e \in DOMAIN elections : Hold(e) \/ Rerun(e)
  BY <1>2, <1>5 DEF Hold, Rerun, clockVars
<1>6. CASE \E i \in DOMAIN proposals : Block(i) \/ EnactByGovernor(i)
  BY <1>2, <1>6 DEF Block, EnactByGovernor, Decide, clockVars
<1>7. CASE \E i \in DOMAIN proposals : \E yeas \in 0..Members : \E nays \in 0..(Members - yeas) :
             Reject(i, yeas, nays) \/ Veto(i, yeas, nays) \/ EnactByCouncil(i, yeas, nays)
  BY <1>2, <1>7 DEF Reject, Veto, EnactByCouncil, CouncilVote, Decide, clockVars
<1>8. CASE EndGate \/ EndResolve \/ BeginSession \/ EndTick
  BY <1>2, <1>8 DEF EndGate, EndResolve, BeginSession, EndTick
<1>9. CASE Ended \/ UNCHANGED vars
  BY <1>2, <1>9 DEF Ended, vars, clockVars
<1> QED
  BY <1>1, <1>3, <1>4, <1>5, <1>6, <1>7, <1>8, <1>9 DEF Next

\* A step leaves the policies alone, adds a proposal, or closes one.
LEMMA PolicySteps ==
  ASSUME PoliciesHold, Queued, [Next]_vars
  PROVE  \/ PoliciesKept /\ TimePasses
         \/ \E x \in Actions : Propose(x)
         \/ \E i, outcome : /\ outcome # "enacted" /\ Closes(i, outcome)
                            /\ UNCHANGED <<history, records, tables>>
         \/ \E i : Closes(i, "enacted") /\ Enact(i)
<1>a. /\ DOMAIN tables = {"parties", "elections", "candidacies", "policies"}
      /\ tick \in Nat /\ tick <= LastTick /\ LastTick \in Nat
  BY PolityAssumption DEF PoliciesHold
<1>b. ASSUME tick' = tick
      PROVE  TimePasses
  BY <1>a, <1>b DEF TimePasses
<1>1. ASSUME UNCHANGED <<tick, policyVars, tables>>
      PROVE  PoliciesKept /\ TimePasses
  BY <1>1, <1>b DEF PoliciesKept, policyVars
<1>2. CASE Submit \/ EndGate \/ EndResolve \/ BeginSession
  BY <1>1, <1>2 DEF Submit, EndGate, EndResolve, BeginSession
<1>3. CASE \E x \in queue : Join(x) \/ Vote(x) \/ Raise(x)
  BY <1>1, <1>3 DEF Join, Vote, Raise
<1>4. CASE \E x \in queue : Found(x)
  BY <1>a, <1>b, <1>4 DEF Found, PoliciesKept, policyVars
<1>5. CASE \E x \in queue : Announce(x)
  BY <1>a, <1>b, <1>5 DEF Announce, PoliciesKept, policyVars
<1>6. CASE \E x \in queue : Campaign(x)
  <2>1. PICK x \in queue : Campaign(x)
    BY <1>6
  <2>2. \E v : tables' = [tables EXCEPT !.candidacies[<<x[3], x[4]>>].spend = v]
    BY <2>1 DEF Campaign
  <2>3. DOMAIN tables' = DOMAIN tables /\ tables'.policies = tables.policies
    BY <1>a, <2>2
  <2> QED
    BY <1>b, <2>1, <2>3 DEF Campaign, PoliciesKept, policyVars
<1>7. CASE \E x \in queue : Propose(x)
  BY <1>7 DEF Queued
<1>8. CASE \E x \in Steps : Appoint(x) \/ Remove(x) \/ Leaves(x)
  BY <1>1, <1>8 DEF Appoint, Remove, Leaves, Step
<1>9. CASE \E x \in Steps : Call(x)
  <2>1. PICK x \in Steps : Call(x)
    BY <1>9
  <2>2. \E v : tables' = [tables EXCEPT !.elections = v]
    BY <2>1 DEF Call
  <2>3. DOMAIN tables' = DOMAIN tables /\ tables'.policies = tables.policies
    BY <1>a, <2>2
  <2> QED
    BY <1>b, <2>1, <2>3 DEF Call, Step, PoliciesKept, policyVars
<1>10. CASE \E e \in DOMAIN elections : Hold(e)
  <2>1. PICK e \in DOMAIN elections : Hold(e)
    BY <1>10
  <2>2. PICK t : tables' = ResolvedRows(e, t)
    BY <2>1 DEF Hold, Count
  <2>3. DOMAIN tables' = DOMAIN tables /\ tables'.policies = tables.policies
    BY <1>a, <2>2 DEF ResolvedRows
  <2>4. UNCHANGED <<tick, policyVars>>
    BY <2>1 DEF Hold, clockVars
  <2> QED
    BY <1>b, <2>3, <2>4 DEF PoliciesKept, policyVars
<1>11. CASE \E e \in DOMAIN elections : Rerun(e)
  <2>1. PICK e \in DOMAIN elections : Rerun(e)
    BY <1>11
  <2>2. \E v : tables' = [tables EXCEPT !.elections[e] = v]
    BY <2>1 DEF Rerun
  <2>3. DOMAIN tables' = DOMAIN tables /\ tables'.policies = tables.policies
    BY <1>a, <2>2
  <2> QED
    BY <1>b, <2>1, <2>3 DEF Rerun, clockVars, PoliciesKept, policyVars
<1>12. CASE \E i \in DOMAIN proposals : Block(i)
  BY <1>12 DEF Block, Decide, Closes, clockVars
<1>13. CASE \E i \in DOMAIN proposals : EnactByGovernor(i)
  BY <1>13 DEF EnactByGovernor, Decide, Closes, Enact, clockVars
<1>14. CASE \E i \in DOMAIN proposals : \E yeas \in 0..Members : \E nays \in 0..(Members - yeas) :
              Reject(i, yeas, nays) \/ Veto(i, yeas, nays)
  <2>1. PICK i, yeas, nays : Reject(i, yeas, nays) \/ Veto(i, yeas, nays)
    BY <1>14
  <2>2. CASE Reject(i, yeas, nays)
    BY <2>2 DEF Reject, CouncilVote, Decide, Closes, clockVars
  <2>3. CASE Veto(i, yeas, nays)
    BY <2>3 DEF Veto, CouncilVote, Decide, Closes, clockVars
  <2> QED
    BY <2>1, <2>2, <2>3
<1>15. CASE \E i \in DOMAIN proposals : \E yeas \in 0..Members : \E nays \in 0..(Members - yeas) :
              EnactByCouncil(i, yeas, nays)
  BY <1>15 DEF EnactByCouncil, CouncilVote, Decide, Closes, Enact, clockVars
<1>16. CASE EndTick
  <2>1. \E v : tables' = [tables EXCEPT !.parties = v]
    BY <1>16 DEF EndTick
  <2>2. DOMAIN tables' = DOMAIN tables /\ tables'.policies = tables.policies
    BY <1>a, <2>1
  <2>3. TimePasses
    BY <1>a, <1>16 DEF EndTick, TimePasses
  <2> QED
    BY <1>16, <2>2, <2>3 DEF EndTick, PoliciesKept, policyVars
<1>17. CASE Ended \/ UNCHANGED vars
  BY <1>1, <1>17 DEF Ended, vars, clockVars
<1> QED
  BY <1>2, <1>3, <1>4, <1>5, <1>6, <1>7, <1>8, <1>9, <1>10, <1>11, <1>12, <1>13, <1>14, <1>15,
     <1>16, <1>17 DEF Next

LEMMA PoliciesStep ==
  ASSUME PoliciesHold, Queued, [Next]_vars
  PROVE  PoliciesHold'
BY PolicySteps, KeptPolicies, Proposed, TurnedDown, Enacted

LEMMA PoliciesInit ==
  ASSUME Init
  PROVE  PoliciesHold /\ Queued
<1>1. /\ tick = 0 /\ queue = {} /\ proposals = <<>>
      /\ history = [p \in Params |-> <<>>] /\ records = [p \in Params |-> <<>>]
  BY DEF Init
<1>2. \E u, v : tables = [parties |-> u, elections |-> v, candidacies |-> <<>>,
                          policies |-> [p \in Params |-> <<>>]]
  BY DEF Init
<1>3. /\ DOMAIN tables = {"parties", "elections", "candidacies", "policies"}
      /\ tables.policies = [p \in Params |-> <<>>]
  BY <1>2
<1>4. IsSeq(<<>>) /\ Len(<<>>) = 0 /\ DOMAIN <<>> = {}
  BY DEF IsSeq, Range
<1>5. ASSUME NEW p \in Params
      PROVE  ParamHolds(p) /\ RowsHold(p) /\ EnactedHold(p)
  <2>1. records[p] = <<>> /\ history[p] = <<>> /\ tables.policies[p] = <<>>
    BY <1>1, <1>3
  <2>2. ParamHolds(p)
    BY <1>4, <2>1 DEF ParamHolds, Lists
  <2>3. RowsHold(p)
    BY <1>4, <2>1 DEF RowsHold, Rows
  <2>4. EnactedHold(p)
    BY <1>1, <1>4, <2>1 DEF EnactedHold, Enactments
  <2> QED
    BY <2>2, <2>3, <2>4
<1> QED
  BY <1>1, <1>3, <1>4, <1>5, PolityAssumption DEF PoliciesHold, Queued

LEMMA PoliciesAlways == Spec => [](PoliciesHold /\ Queued)
<1>1. PoliciesHold /\ Queued /\ [Next]_vars => (PoliciesHold /\ Queued)'
  BY PoliciesStep, QueueStep
<1> QED
  BY <1>1, PoliciesInit, PTL DEF Spec

-----------------------------------------------------------------------------
(* The past *)

\* A list that grows by an entry due later has the same newest entry due now.
LEMMA LatestKept ==
  ASSUME NEW rs, NEW h, NEW b, Lists(rs, h, b), NEW qs, NEW g, NEW c, Lists(qs, g, c),
         Len(g) = Len(h) + 1, \A k \in 1..Len(h) : g[k] = h[k],
         NEW t \in Int, NEW e \in Int, g[Len(h) + 1].effective = e, t < e, NEW d
  PROVE  Latest(g, d, t) = Latest(h, d, t)
<1>1. /\ DOMAIN h = 1..Len(h) /\ Len(h) \in Nat /\ DOMAIN g = 1..(Len(h) + 1)
  BY DEF Lists, IsSeq
<1>2. Due(g, t) = Due(h, t)
  <2>1. ASSUME NEW k
        PROVE  k \in Due(g, t) <=> k \in Due(h, t)
    <3>1. CASE k \in 1..Len(h)
      BY <1>1, <3>1 DEF Due
    <3>2. CASE k \notin 1..Len(h)
      BY <1>1, <3>2 DEF Due
    <3> QED
      BY <3>1, <3>2
  <2> QED
    BY <2>1
<1>3. \A m \in Due(h, t) : g[m] = h[m] /\ m \in Int
  BY <1>1 DEF Due
<1>4. \/ Due(h, t) = {} /\ Latest(h, d, t) = d
      \/ \E m \in Due(h, t) : /\ \A j \in Due(h, t) : j <= m
                              /\ Latest(h, d, t) = h[m].value
  BY ValueIsNewest
<1>5. \/ Due(g, t) = {} /\ Latest(g, d, t) = d
      \/ \E m \in Due(g, t) : /\ \A j \in Due(g, t) : j <= m
                              /\ Latest(g, d, t) = g[m].value
  BY ValueIsNewest
<1>6. CASE Due(h, t) = {}
  BY <1>2, <1>4, <1>5, <1>6
<1>7. CASE Due(h, t) # {}
  <2>1. PICK m \in Due(h, t) : (\A j \in Due(h, t) : j <= m) /\ Latest(h, d, t) = h[m].value
    BY <1>4, <1>7
  <2>2. PICK n \in Due(h, t) : (\A j \in Due(h, t) : j <= n) /\ Latest(g, d, t) = g[n].value
    BY <1>2, <1>5, <1>7
  <2>3. m = n
    BY <1>3, <2>1, <2>2
  <2> QED
    BY <1>3, <2>1, <2>2, <2>3
<1> QED
  BY <1>6, <1>7

LEMMA EnactedLater ==
  ASSUME PoliciesHold, PoliciesHold', NEW i, Closes(i, "enacted"), Enact(i),
         NEW r \in Params, NEW t \in 0..tick
  PROVE  Latest(history'[r], Default[r], t) = Latest(history[r], Default[r], t)
<1>1. PICK p : p = proposals[i].param
  OBVIOUS
<1>2. p \in Params /\ tick \in Nat
  BY <1>1 DEF Closes, Pending, PoliciesHold
<1>3. CASE r # p
  <2>1. \E v : history' = [history EXCEPT ![p] = v]
    BY <1>1 DEF Enact
  <2>2. history'[r] = history[r]
    BY <1>3, <2>1 DEF PoliciesHold
  <2> QED
    BY <2>2
<1>4. CASE r = p
  <2>1. Grown(records[p], history[p], tables.policies[p], records'[p], history'[p],
              tables'.policies[p], tick, i, proposals[i].old, proposals[i].new, tick + Delay(p))
    BY <1>1, RecordsGrow
  <2>2. Lists(records[p], history[p], tick + Delay(p))
    BY <1>2 DEF PoliciesHold, ParamHolds
  <2>3. Lists(records'[p], history'[p], (tick + Delay(p))')
    BY <1>2 DEF PoliciesHold, ParamHolds
  <2>4. Len(history[p]) = Len(records[p])
    BY <2>2 DEF Lists
  <2>5. /\ Len(history'[p]) = Len(history[p]) + 1
        /\ \A k \in 1..Len(history[p]) : history'[p][k] = history[p][k]
        /\ history'[p][Len(history[p]) + 1]
             = [value |-> proposals[i].new, effective |-> tick + Delay(p)]
    BY <2>1, <2>4 DEF Grown
  <2>6. history'[p][Len(history[p]) + 1].effective = tick + Delay(p)
    BY <2>5
  <2>7. t \in Int /\ tick + Delay(p) \in Int /\ t < tick + Delay(p)
    BY <1>2, DelayPositive
  <2>8. Latest(history'[p], Default[p], t) = Latest(history[p], Default[p], t)
    BY <2>2, <2>3, <2>5, <2>6, <2>7, LatestKept
  <2> QED
    BY <1>4, <2>8
<1> QED
  BY <1>3, <1>4

\* Policy never applies retroactively, whatever is enacted (PolicyEngine.enact, RuntimeConfig.get).
THEOREM PastStaysFixed == Spec => PastIsFixed
<1> DEFINE Fixed == \A p \in Params : \A t \in 0..tick : Value(p, t)' = Value(p, t)
<1>1. ASSUME PoliciesHold, Queued, [Next]_vars
      PROVE  Fixed
  <2>1. SUFFICES ASSUME NEW p \in Params, NEW t \in 0..tick
                 PROVE  Latest(history'[p], Default[p], t) = Latest(history[p], Default[p], t)
    BY DEF Value, Latest
  <2>2. CASE history' = history
    BY <2>2
  <2>3. CASE \E i : Closes(i, "enacted") /\ Enact(i)
    BY <1>1, <2>3, PoliciesStep, EnactedLater
  <2>4. \/ history' = history
        \/ \E i : Closes(i, "enacted") /\ Enact(i)
    BY <1>1, PolicySteps DEF PoliciesKept, Propose
  <2> QED
    BY <2>2, <2>3, <2>4
<1>2. PoliciesHold /\ Queued /\ [Next]_vars => [Fixed]_vars
  BY <1>1
<1>3. Spec => [][Fixed]_vars
  BY <1>2, PoliciesAlways, PTL DEF Spec
<1> QED
  BY <1>3 DEF PastIsFixed

LEMMA MaxIs ==
  ASSUME NEW T, T \subseteq Int, NEW m \in T, \A j \in T : j <= m
  PROVE  Max(T) = m
<1>1. \A y \in T : m >= y
  OBVIOUS
<1>2. ASSUME NEW x \in T, \A y \in T : x >= y
      PROVE  x = m
  BY <1>2
<1> QED
  BY <1>1, <1>2 DEF Max

LEMMA RecordsTell ==
  ASSUME PoliciesHold
  PROVE  OverlayIsRecord
<1> SUFFICES ASSUME NEW p \in Params
             PROVE  LET rs == records[p]
                        effective == {i \in DOMAIN rs : rs[i].effective <= tick}
                    IN /\ \A i \in DOMAIN proposals : proposals[i].param = p =>
                            Cardinality({j \in DOMAIN rs : rs[j].proposal = i})
                                = (IF proposals[i].outcome = "enacted" THEN 1 ELSE 0)
                       /\ \A j \in DOMAIN rs : (rs[j].repealed = NoTick) <=> (j = Len(rs))
                       /\ Value(p, tick) = IF effective = {} THEN Default[p]
                                           ELSE rs[Max(effective)].new
  BY DEF OverlayIsRecord
<1> DEFINE rs == records[p]
           h == history[p]
           effective == {i \in DOMAIN rs : rs[i].effective <= tick}
<1>1. Lists(rs, h, tick + Delay(p)) /\ Enactments(p, rs, proposals) /\ tick \in Int
  BY DEF PoliciesHold, ParamHolds, EnactedHold
<1>2. DOMAIN h = DOMAIN rs /\ DOMAIN rs \subseteq Int
  BY <1>1 DEF Lists, IsSeq
<1>3. ASSUME NEW i \in DOMAIN proposals, proposals[i].param = p
      PROVE  Cardinality({j \in DOMAIN rs : rs[j].proposal = i})
                = (IF proposals[i].outcome = "enacted" THEN 1 ELSE 0)
  <2> DEFINE J == {j \in DOMAIN rs : rs[j].proposal = i}
  <2>1. CASE proposals[i].outcome = "enacted"
    <3>1. PICK k \in DOMAIN rs : rs[k].proposal = i
      BY <1>1, <1>3, <2>1 DEF Enactments
    <3>2. \A j \in DOMAIN rs : rs[j].proposal = i => j = k
      BY <1>1, <3>1 DEF Enactments
    <3>3. J = {k}
      BY <3>1, <3>2
    <3>4. Cardinality(J) = 1
      BY <3>3, FS_Singleton
    <3> QED
      BY <2>1, <3>4
  <2>2. CASE proposals[i].outcome # "enacted"
    <3>1. J = {}
      BY <1>1, <2>2 DEF Enactments
    <3>2. Cardinality(J) = 0
      BY <3>1, FS_EmptySet
    <3> QED
      BY <2>2, <3>2
  <2> QED
    BY <2>1, <2>2
<1>4. \A j \in DOMAIN rs : (rs[j].repealed = NoTick) <=> (j = Len(rs))
  BY <1>1 DEF Lists
<1>5. \A j \in DOMAIN rs : h[j].value = rs[j].new /\ h[j].effective = rs[j].effective
  <2> SUFFICES ASSUME NEW j \in DOMAIN rs
               PROVE  h[j].value = rs[j].new /\ h[j].effective = rs[j].effective
    OBVIOUS
  <2>1. h[j] = [value |-> rs[j].new, effective |-> rs[j].effective]
    BY <1>1 DEF Lists
  <2> HIDE DEF h, rs
  <2> QED
    BY <2>1
<1>6. effective = Due(h, tick)
  BY <1>2, <1>5 DEF Due
<1>7. Value(p, tick) = Latest(h, Default[p], tick)
  BY DEF Value, Latest
<1>8. \/ Due(h, tick) = {} /\ Latest(h, Default[p], tick) = Default[p]
      \/ \E m \in Due(h, tick) : /\ \A j \in Due(h, tick) : j <= m
                                 /\ Latest(h, Default[p], tick) = h[m].value
  BY <1>1, ValueIsNewest
<1>9. Value(p, tick) = IF effective = {} THEN Default[p] ELSE rs[Max(effective)].new
  <2>1. CASE Due(h, tick) = {}
    BY <1>6, <1>7, <1>8, <2>1
  <2>2. CASE Due(h, tick) # {}
    <3>1. PICK m \in Due(h, tick) : /\ \A j \in Due(h, tick) : j <= m
                                    /\ Latest(h, Default[p], tick) = h[m].value
      BY <1>8, <2>2
    <3>2. Due(h, tick) \subseteq Int /\ m \in DOMAIN rs
      BY <1>2, <3>1 DEF Due
    <3>3. Max(effective) = m
      BY <1>6, <3>1, <3>2, MaxIs
    <3> HIDE DEF h, rs, effective
    <3> QED
      BY <1>5, <1>6, <1>7, <2>2, <3>1, <3>2, <3>3
  <2> QED
    BY <2>1, <2>2
<1> QED
  BY <1>3, <1>4, <1>9

-----------------------------------------------------------------------------
(* The parties *)

PartyRow(party) == [founded |-> party.founded, dissolved |-> party.dissolved]

\* ps the parties, ms the membership, rows the table.
PartyLists(ps, ms, rows) ==
    /\ IsSeq(ps) /\ rows = [p \in DOMAIN ps |-> PartyRow(ps[p])]
    /\ \A p \in DOMAIN ps : DOMAIN ps[p] = PartyFields /\ ps[p].members \in [Agents -> Nat]
    /\ ms \in [Agents -> DOMAIN ps \cup {None}]
    /\ \A a \in Agents : ms[a] # None =>
            ps[ms[a]].dissolved = NoTick /\ ps[ms[a]].members[a] > 0
    /\ \A p \in DOMAIN ps : ps[p].dissolved = NoTick =>
            \A a \in Agents : ps[p].members[a] > 0 =>
                ms[a] = p \/ \E q \in DOMAIN ps : ps[q].founder = a

PartiesHold == PartyLists(parties, membership, tables.parties)

\* The fields the registers are compared by.
SameParty(p, q) ==
    /\ p.founder = q.founder /\ p.founded = q.founded /\ p.dissolved = q.dissolved
    /\ p.members = q.members /\ DOMAIN p = PartyFields

LEMMA PartiesAlike ==
  ASSUME NEW ps, NEW ms, NEW rows, PartyLists(ps, ms, rows),
         NEW qs, qs = [p \in DOMAIN ps |-> qs[p]], \A p \in DOMAIN ps : SameParty(qs[p], ps[p])
  PROVE  PartyLists(qs, ms, rows)
<1>1. IsSeq(qs) /\ DOMAIN qs = DOMAIN ps
  BY Rewritten DEF PartyLists
<1>2. rows = [p \in DOMAIN qs |-> PartyRow(qs[p])]
  BY <1>1 DEF PartyLists, PartyRow, SameParty
<1>3. \A p \in DOMAIN qs : /\ DOMAIN qs[p] = PartyFields /\ qs[p].members = ps[p].members
                           /\ qs[p].dissolved = ps[p].dissolved /\ qs[p].founder = ps[p].founder
  BY <1>1 DEF SameParty
<1>4. \A p \in DOMAIN qs : DOMAIN qs[p] = PartyFields /\ qs[p].members \in [Agents -> Nat]
  BY <1>1, <1>3 DEF PartyLists
<1>5. None \notin DOMAIN ps
  BY DEF PartyLists, IsSeq, None
<1>6. /\ ms \in [Agents -> DOMAIN qs \cup {None}]
      /\ \A a \in Agents : ms[a] # None => ms[a] \in DOMAIN qs
  BY <1>1 DEF PartyLists
<1>7. \A a \in Agents : ms[a] # None =>
            qs[ms[a]].dissolved = NoTick /\ qs[ms[a]].members[a] > 0
  BY <1>3, <1>6 DEF PartyLists
<1>8. \A p \in DOMAIN qs : qs[p].dissolved = NoTick =>
            \A a \in Agents : qs[p].members[a] > 0 =>
                ms[a] = p \/ \E q \in DOMAIN qs : qs[q].founder = a
  BY <1>1, <1>3 DEF PartyLists
<1> QED
  BY <1>1, <1>2, <1>4, <1>6, <1>7, <1>8 DEF PartyLists

LEMMA PartyFounded ==
  ASSUME NEW ps, NEW ms, NEW rows, PartyLists(ps, ms, rows), NEW a \in Agents, NEW new,
         DOMAIN new = PartyFields, new.founder = a, new.dissolved = NoTick,
         new.members = [b \in Agents |-> IF b = a THEN 1 ELSE 0]
  PROVE  PartyLists(Append(ps, new), [ms EXCEPT ![a] = Len(ps) + 1], Append(rows, PartyRow(new)))
<1> DEFINE n == Len(ps)
           qs == Append(ps, new)
           ls == [ms EXCEPT ![a] = n + 1]
           rs == Append(rows, PartyRow(new))
<1>1. /\ IsSeq(qs) /\ n \in Nat /\ Len(qs) = n + 1 /\ DOMAIN ps = 1..n /\ DOMAIN qs = 1..(n + 1)
      /\ \A p \in 1..n : qs[p] = ps[p]
      /\ qs[n + 1] = new
  <2>1. IsSeq(ps)
    BY DEF PartyLists
  <2> QED
    BY <2>1, Appended
<1>2. rows = [p \in DOMAIN ps |-> PartyRow(ps[p])]
  BY DEF PartyLists
<1>3. IsSeq(rows) /\ Len(rows) = n
  <2>1. rows = [p \in DOMAIN ps |-> rows[p]] /\ IsSeq(ps)
    BY <1>2 DEF PartyLists
  <2> QED
    BY <2>1, Rewritten
<1>4. /\ IsSeq(rs) /\ DOMAIN rs = 1..(n + 1) /\ rs[n + 1] = PartyRow(new)
      /\ \A p \in 1..n : rs[p] = rows[p]
  BY <1>1, <1>3, Appended
<1> HIDE DEF qs, rs, n
<1>a. /\ \A p \in 1..(n+1) : p \in 1..n \/ p = n + 1
      /\ \A p \in 1..n : p \in 1..(n+1) /\ p # n + 1
      /\ n + 1 \in 1..(n+1) /\ n + 1 # None
  BY <1>1 DEF None
<1>5. \A p \in 1..(n+1) : rs[p] = PartyRow(qs[p])
  BY <1>1, <1>2, <1>4, <1>a
<1>6. rs = [p \in DOMAIN qs |-> PartyRow(qs[p])]
  <2>1. rs = [p \in 1..(n+1) |-> rs[p]]
    BY <1>4 DEF IsSeq
  <2> QED
    BY <1>1, <1>5, <2>1
<1>7. ls \in [Agents -> DOMAIN qs \cup {None}]
  BY <1>1, <1>a DEF PartyLists
<1>8. \A p \in DOMAIN qs : DOMAIN qs[p] = PartyFields /\ qs[p].members \in [Agents -> Nat]
  BY <1>1, <1>a DEF PartyLists
<1>9. ASSUME NEW b \in Agents, ls[b] # None
      PROVE  qs[ls[b]].dissolved = NoTick /\ qs[ls[b]].members[b] > 0
  <2>1. CASE b = a
    <3>1. ls[b] = n + 1
      BY <2>1 DEF PartyLists
    <3> QED
      BY <1>1, <2>1, <3>1
  <2>2. CASE b # a
    <3>1. ls[b] = ms[b] /\ ms[b] \in DOMAIN ps
      BY <1>9, <2>2 DEF PartyLists
    <3> QED
      BY <1>1, <1>9, <3>1 DEF PartyLists
  <2> QED
    BY <2>1, <2>2
<1>10. ASSUME NEW p \in DOMAIN qs, qs[p].dissolved = NoTick, NEW b \in Agents, qs[p].members[b] > 0
       PROVE  ls[b] = p \/ \E q \in DOMAIN qs : qs[q].founder = b
  <2>1. CASE b = a
    BY <1>1, <1>a, <2>1
  <2>2. CASE b # a
    <3>1. p \in 1..n
      <4>1. CASE p = n + 1
        BY <1>1, <1>10, <2>2, <4>1
      <4> QED
        BY <1>1, <1>a, <4>1
    <3>2. ps[p].members[b] > 0 /\ ps[p].dissolved = NoTick /\ p \in DOMAIN ps
      BY <1>1, <1>10, <3>1
    <3>3. ms[b] = p \/ \E q \in DOMAIN ps : ps[q].founder = b
      BY <3>2 DEF PartyLists
    <3>4. ls[b] = ms[b]
      BY <2>2 DEF PartyLists
    <3> QED
      BY <1>1, <1>a, <3>3, <3>4
  <2> QED
    BY <2>1, <2>2
<1> HIDE DEF ls
<1>11. PartyLists(qs, ls, rs)
  BY <1>1, <1>6, <1>7, <1>8, <1>9, <1>10 DEF PartyLists
<1> QED
  BY <1>11 DEF qs, ls, rs, n

\* A switch takes the agent off the list of the old party and puts it on that of the new one.
Switched(ps, qs, a, p, old) ==
    /\ qs = [q \in DOMAIN ps |-> qs[q]]
    /\ \A q \in DOMAIN ps :
         /\ DOMAIN qs[q] = PartyFields /\ qs[q].founder = ps[q].founder
         /\ qs[q].founded = ps[q].founded /\ qs[q].dissolved = ps[q].dissolved
         /\ qs[q].members = IF q = p THEN [ps[q].members EXCEPT ![a] = @ + 1]
                            ELSE IF q = old THEN [ps[q].members EXCEPT ![a] = 0]
                            ELSE ps[q].members

LEMMA PartyJoined ==
  ASSUME NEW ps, NEW ms, NEW rows, PartyLists(ps, ms, rows), NEW a \in Agents, NEW p \in DOMAIN ps,
         ps[p].dissolved = NoTick, ms[a] # p, NEW qs, Switched(ps, qs, a, p, ms[a])
  PROVE  PartyLists(qs, [ms EXCEPT ![a] = p], rows)
<1> DEFINE ls == [ms EXCEPT ![a] = p]
<1>1. IsSeq(qs) /\ DOMAIN qs = DOMAIN ps /\ None \notin DOMAIN ps
  <2>1. IsSeq(ps) /\ qs = [q \in DOMAIN ps |-> qs[q]]
    BY DEF PartyLists, Switched
  <2>2. IsSeq(qs) /\ Len(ps) \in Nat /\ DOMAIN ps = 1..Len(ps)
    BY <2>1, Rewritten
  <2> QED
    BY <2>1, <2>2 DEF None
<1>2. rows = [q \in DOMAIN qs |-> PartyRow(qs[q])]
  <2>1. \A q \in DOMAIN ps : qs[q].founded = ps[q].founded /\ qs[q].dissolved = ps[q].dissolved
    BY DEF Switched
  <2>2. rows = [q \in DOMAIN ps |-> PartyRow(ps[q])]
    BY DEF PartyLists
  <2> QED
    BY <1>1, <2>1, <2>2 DEF PartyRow
<1>3. \A q \in DOMAIN ps : ps[q].members \in [Agents -> Nat]
  BY DEF PartyLists
<1>4. ASSUME NEW q \in DOMAIN ps
      PROVE  /\ DOMAIN qs[q] = PartyFields /\ qs[q].members \in [Agents -> Nat]
             /\ qs[q].dissolved = ps[q].dissolved /\ qs[q].founder = ps[q].founder
             /\ \A b \in Agents \ {a} : qs[q].members[b] = ps[q].members[b]
             /\ q = p => qs[q].members[a] > 0
             /\ q # p /\ q = ms[a] => qs[q].members[a] = 0
             /\ q # p /\ q # ms[a] => qs[q].members[a] = ps[q].members[a]
  <2>1. /\ DOMAIN qs[q] = PartyFields /\ qs[q].dissolved = ps[q].dissolved
        /\ qs[q].founder = ps[q].founder
        /\ qs[q].members = IF q = p THEN [ps[q].members EXCEPT ![a] = @ + 1]
                           ELSE IF q = ms[a] THEN [ps[q].members EXCEPT ![a] = 0]
                           ELSE ps[q].members
    BY DEF Switched
  <2>2. ps[q].members \in [Agents -> Nat]
    BY <1>3
  <2> QED
    BY <2>1, <2>2
<1>5. /\ ls \in [Agents -> DOMAIN qs \cup {None}] /\ ls[a] = p
      /\ \A b \in Agents \ {a} : ls[b] = ms[b]
      /\ \A b \in Agents : ms[b] # None => ms[b] \in DOMAIN ps
  BY <1>1 DEF PartyLists
<1> HIDE DEF ls
<1>6. ASSUME NEW b \in Agents, ls[b] # None
      PROVE  qs[ls[b]].dissolved = NoTick /\ qs[ls[b]].members[b] > 0
  <2>1. CASE b = a
    BY <1>4, <1>5, <2>1
  <2>2. CASE b # a
    <3>1. ls[b] = ms[b] /\ ms[b] \in DOMAIN ps
      BY <1>5, <1>6, <2>2
    <3>2. ps[ms[b]].dissolved = NoTick /\ ps[ms[b]].members[b] > 0
      BY <1>6, <3>1 DEF PartyLists
    <3> QED
      BY <1>4, <2>2, <3>1, <3>2
  <2> QED
    BY <2>1, <2>2
<1>7. ASSUME NEW q \in DOMAIN qs, qs[q].dissolved = NoTick, NEW b \in Agents, qs[q].members[b] > 0
      PROVE  ls[b] = q \/ \E r \in DOMAIN qs : qs[r].founder = b
  <2>1. q \in DOMAIN ps /\ ps[q].dissolved = NoTick
    BY <1>1, <1>4, <1>7
  <2>2. CASE b = a /\ q = p
    BY <1>5, <2>2
  <2>3. CASE b = a /\ q # p
    <3>1. q # ms[a] /\ ps[q].members[a] > 0
      BY <1>4, <1>7, <2>1, <2>3
    <3>2. \E r \in DOMAIN ps : ps[r].founder = a
      BY <2>1, <3>1 DEF PartyLists
    <3> QED
      BY <1>1, <1>4, <2>3, <3>2
  <2>4. CASE b # a
    <3>1. ps[q].members[b] > 0
      BY <1>4, <1>7, <2>1, <2>4
    <3>2. ms[b] = q \/ \E r \in DOMAIN ps : ps[r].founder = b
      BY <2>1, <3>1 DEF PartyLists
    <3> QED
      BY <1>1, <1>4, <1>5, <2>4, <3>2
  <2> QED
    BY <2>2, <2>3, <2>4
<1>8. PartyLists(qs, ls, rows)
  BY <1>1, <1>2, <1>4, <1>5, <1>6, <1>7 DEF PartyLists
<1> QED
  BY <1>8 DEF ls

\* The parties D are dissolved, and whoever they list is no member of a party.
Ends(D, now, ps, ms, rows, qs, ls, rs) ==
    /\ D \subseteq DOMAIN ps /\ now # NoTick /\ \A p \in D : ps[p].dissolved = NoTick
    /\ qs = [p \in DOMAIN ps |-> IF p \in D THEN [ps[p] EXCEPT !.dissolved = now] ELSE ps[p]]
    /\ ls = [a \in Agents |-> IF \E p \in D : ps[p].members[a] > 0 THEN None ELSE ms[a]]
    /\ rs = [p \in DOMAIN rows |-> IF p \in D THEN [rows[p] EXCEPT !.dissolved = now] ELSE rows[p]]

LEMMA PartiesDissolved ==
  ASSUME NEW ps, NEW ms, NEW rows, PartyLists(ps, ms, rows), NEW D, NEW now, NEW qs, NEW ls, NEW rs,
         Ends(D, now, ps, ms, rows, qs, ls, rs)
  PROVE  PartyLists(qs, ls, rs)
<1> USE DEF Ends
<1>1. IsSeq(qs) /\ DOMAIN qs = DOMAIN ps
  <2>1. IsSeq(ps) /\ qs = [p \in DOMAIN ps |-> qs[p]]
    BY DEF PartyLists
  <2> QED
    BY <2>1, Rewritten
<1>2. ASSUME NEW p \in DOMAIN ps
      PROVE  /\ DOMAIN qs[p] = PartyFields /\ qs[p].founder = ps[p].founder
             /\ qs[p].founded = ps[p].founded /\ qs[p].members = ps[p].members
             /\ qs[p].dissolved = IF p \in D THEN now ELSE ps[p].dissolved
  <2>1. DOMAIN ps[p] = PartyFields
    BY DEF PartyLists
  <2>2. qs[p] = IF p \in D THEN [ps[p] EXCEPT !.dissolved = now] ELSE ps[p]
    OBVIOUS
  <2> QED
    BY <2>1, <2>2 DEF PartyFields
<1>3. rs = [p \in DOMAIN qs |-> PartyRow(qs[p])]
  <2>1. rows = [p \in DOMAIN ps |-> PartyRow(ps[p])]
    BY DEF PartyLists
  <2>2. ASSUME NEW p \in DOMAIN ps
        PROVE  rs[p] = PartyRow(qs[p])
    <3>1. rs[p] = IF p \in D THEN [PartyRow(ps[p]) EXCEPT !.dissolved = now] ELSE PartyRow(ps[p])
      BY <2>1
    <3>2. PartyRow(qs[p]) = [founded |-> ps[p].founded,
                             dissolved |-> IF p \in D THEN now ELSE ps[p].dissolved]
      BY <1>2 DEF PartyRow
    <3> QED
      BY <3>1, <3>2 DEF PartyRow
  <2>3. rs = [p \in DOMAIN ps |-> rs[p]]
    BY <2>1
  <2> QED
    BY <1>1, <2>2, <2>3
<1>4. \A p \in DOMAIN qs : DOMAIN qs[p] = PartyFields /\ qs[p].members \in [Agents -> Nat]
  BY <1>1, <1>2 DEF PartyLists
<1>5. ls \in [Agents -> DOMAIN qs \cup {None}]
  BY <1>1 DEF PartyLists
<1>6. ASSUME NEW b \in Agents, ls[b] # None
      PROVE  qs[ls[b]].dissolved = NoTick /\ qs[ls[b]].members[b] > 0
  <2>1. ls[b] = ms[b] /\ ~ \E p \in D : ps[p].members[b] > 0
    BY <1>6
  <2>2. /\ ms[b] \in DOMAIN ps /\ ps[ms[b]].dissolved = NoTick /\ ps[ms[b]].members[b] > 0
    BY <1>6, <2>1 DEF PartyLists
  <2> QED
    BY <1>2, <2>1, <2>2
<1>7. ASSUME NEW p \in DOMAIN qs, qs[p].dissolved = NoTick, NEW b \in Agents, qs[p].members[b] > 0
      PROVE  ls[b] = p \/ \E r \in DOMAIN qs : qs[r].founder = b
  <2>1. p \in DOMAIN ps /\ p \notin D /\ ps[p].dissolved = NoTick /\ ps[p].members[b] > 0
    BY <1>1, <1>2, <1>7
  <2>2. ms[b] = p \/ \E r \in DOMAIN ps : ps[r].founder = b
    BY <2>1 DEF PartyLists
  <2>3. CASE \E r \in DOMAIN ps : ps[r].founder = b
    BY <1>1, <1>2, <2>3
  <2>4. CASE ms[b] = p /\ \E q \in D : ps[q].members[b] > 0
    <3>1. PICK q \in D : ps[q].members[b] > 0
      BY <2>4
    <3>2. ms[b] = q \/ \E r \in DOMAIN ps : ps[r].founder = b
      BY <3>1 DEF PartyLists
    <3> QED
      BY <2>1, <2>3, <2>4, <3>1, <3>2
  <2>5. CASE ms[b] = p /\ ~ \E q \in D : ps[q].members[b] > 0
    BY <2>5
  <2> QED
    BY <2>2, <2>3, <2>4, <2>5
<1> QED
  BY <1>1, <1>3, <1>4, <1>5, <1>6, <1>7 DEF PartyLists

\* PartyRegistry.join, field by field.
LEMMA JoinedSwitches ==
  ASSUME PartiesHold, NEW a \in Agents, NEW p \in Live, membership[a] # p
  PROVE  Switched(parties, Joined(parties, a, p), a, p, membership[a])
<1> DEFINE old == membership[a]
           rest == [parties[old].members EXCEPT ![a] = 0]
           under == IF Size(rest) < 3 /\ parties[old].below = NoTick THEN tick ELSE parties[old].below
           more == [parties[p].members EXCEPT ![a] = @ + 1]
           gone == [parties[old] EXCEPT !.members = rest, !.leader = Leader(rest), !.below = under]
           come == [parties[p] EXCEPT !.members = more, !.leader = Leader(more),
                        !.ratified = @ \/ parties[p].founding \subseteq Listed(more),
                        !.below = NoTick]
           qs == Joined(parties, a, p)
<1>1. /\ p \in DOMAIN parties /\ old \in DOMAIN parties \cup {None} /\ None \notin DOMAIN parties
      /\ \A q \in DOMAIN parties : DOMAIN parties[q] = PartyFields
  <2>1. p \in DOMAIN parties /\ old \in DOMAIN parties \cup {None}
    BY DEF PartiesHold, PartyLists, Live
  <2>2. /\ IsSeq(parties) /\ \A q \in DOMAIN parties : DOMAIN parties[q] = PartyFields
    BY DEF PartiesHold, PartyLists
  <2>3. None \notin DOMAIN parties
    BY <2>2 DEF IsSeq, None
  <2> QED
    BY <2>1, <2>2, <2>3
<1>2. Left(parties, a) = IF old = None THEN parties ELSE [parties EXCEPT ![old] = gone]
  <2>1. CASE old = None
    BY <2>1 DEF Left
  <2>2. CASE old # None
    <3>1. old \in DOMAIN parties
      BY <1>1, <2>2
    <3>2. DOMAIN parties[old] = PartyFields
      BY <1>1, <3>1
    <3>3. [WithMembers(parties[old], rest) EXCEPT !.below =
              IF Size(rest) < 3 /\ @ = NoTick THEN tick ELSE @] = gone
      BY <3>2 DEF WithMembers, PartyFields
    <3> QED
      BY <2>2, <3>3 DEF Left
  <2> QED
    BY <2>1, <2>2
<1>3. qs = [Left(parties, a) EXCEPT ![p] = come]
  <2>1. DOMAIN parties[p] = PartyFields
    BY <1>1
  <2>2. [WithMembers(parties[p], more) EXCEPT
                !.ratified = @ \/ parties[p].founding \subseteq Listed(more),
                !.below = NoTick] = come
    BY <2>1 DEF WithMembers, PartyFields
  <2> QED
    BY <2>2 DEF Joined
<1>4. qs = [q \in DOMAIN parties |-> IF q = p THEN come ELSE IF q = old THEN gone ELSE parties[q]]
  <2> HIDE DEF come, gone, qs
  <2>1. CASE old = None
    BY <1>1, <1>2, <1>3, <2>1
  <2>2. CASE old # None
    BY <1>1, <1>2, <1>3, <2>2
  <2> QED
    BY <2>1, <2>2
<1>5. /\ DOMAIN come = PartyFields /\ come.founder = parties[p].founder
      /\ come.founded = parties[p].founded /\ come.dissolved = parties[p].dissolved
      /\ come.members = more
  <2>1. DOMAIN parties[p] = PartyFields
    BY <1>1
  <2> QED
    BY <2>1 DEF PartyFields
<1>6. ASSUME old \in DOMAIN parties
      PROVE  /\ DOMAIN gone = PartyFields /\ gone.founder = parties[old].founder
             /\ gone.founded = parties[old].founded /\ gone.dissolved = parties[old].dissolved
             /\ gone.members = rest
  <2>1. DOMAIN parties[old] = PartyFields
    BY <1>1, <1>6
  <2> QED
    BY <2>1 DEF PartyFields
<1> HIDE DEF come, gone, qs
<1>7. ASSUME NEW q \in DOMAIN parties
      PROVE  /\ DOMAIN qs[q] = PartyFields /\ qs[q].founder = parties[q].founder
             /\ qs[q].founded = parties[q].founded /\ qs[q].dissolved = parties[q].dissolved
             /\ qs[q].members = IF q = p THEN more ELSE IF q = old THEN rest ELSE parties[q].members
  <2>1. qs[q] = IF q = p THEN come ELSE IF q = old THEN gone ELSE parties[q]
    BY <1>4
  <2>2. CASE q = p
    BY <1>5, <2>1, <2>2
  <2>3. CASE q # p /\ q = old
    BY <1>6, <2>1, <2>3
  <2>4. CASE q # p /\ q # old
    BY <1>1, <2>1, <2>4
  <2> QED
    BY <2>2, <2>3, <2>4
<1>8. qs = [q \in DOMAIN parties |-> qs[q]]
  BY <1>4
<1>9. Switched(parties, qs, a, p, old)
  <2> HIDE DEF old
  <2> QED
    BY <1>7, <1>8 DEF Switched
<1> QED
  BY <1>9 DEF qs

TablesShaped == DOMAIN tables = {"parties", "elections", "candidacies", "policies"}

LEMMA PartiesStep ==
  ASSUME PartiesHold, TablesShaped, Queued, tick \in Nat, tick <= LastTick, [Next]_vars
  PROVE  PartiesHold'
<1>a. DOMAIN tables = {"parties", "elections", "candidacies", "policies"}
  BY DEF TablesShaped
<1>1. ASSUME UNCHANGED partyVars, tables'.parties = tables.parties
      PROVE  PartiesHold'
  BY <1>1 DEF PartiesHold, partyVars
<1>2. CASE Submit \/ EndGate \/ EndResolve \/ BeginSession
  BY <1>1, <1>2 DEF Submit, EndGate, EndResolve, BeginSession
<1>3. CASE \E x \in queue : Vote(x) \/ Raise(x) \/ Propose(x)
  BY <1>1, <1>3 DEF Vote, Raise, Propose
<1>4. CASE \E x \in queue : Found(x)
  <2>1. PICK x \in queue : Found(x)
    BY <1>4
  <2>2. PICK a \in Agents : a = x[2]
    BY PolityAssumption DEF Queued
  <2>3. PICK new : new = NewParty(a, x[3])
    OBVIOUS
  <2>4. /\ parties' = Append(parties, new) /\ membership' = [membership EXCEPT ![a] = Len(parties) + 1]
        /\ tables' = [tables EXCEPT !.parties = Append(@, [founded |-> tick, dissolved |-> NoTick])]
    BY <2>1, <2>2, <2>3 DEF Found
  <2>5. /\ DOMAIN new = PartyFields /\ new.founder = a /\ new.dissolved = NoTick
        /\ new.members = [b \in Agents |-> IF b = a THEN 1 ELSE 0] /\ new.founded = tick
    BY <2>3 DEF NewParty, PartyFields
  <2>6. PartyRow(new) = [founded |-> tick, dissolved |-> NoTick]
    BY <2>5 DEF PartyRow
  <2>7. tables'.parties = Append(tables.parties, PartyRow(new))
    BY <1>a, <2>4, <2>6
  <2>8. PartyLists(Append(parties, new), [membership EXCEPT ![a] = Len(parties) + 1],
                   Append(tables.parties, PartyRow(new)))
    BY <2>5, PartyFounded DEF PartiesHold
  <2> QED
    BY <2>4, <2>7, <2>8 DEF PartiesHold
<1>5. CASE \E x \in queue : Join(x)
  <2>1. PICK x \in queue : Join(x)
    BY <1>5
  <2>2. PICK a \in Agents : a = x[2]
    BY PolityAssumption DEF Queued
  <2>3. x[3] \in Live /\ tables' = tables
    BY <2>1 DEF Join, Resolve, Resolvable
  <2>4. CASE membership[a] = x[3]
    BY <1>1, <2>1, <2>2, <2>3, <2>4 DEF Join
  <2>5. CASE membership[a] # x[3]
    <3>1. parties' = Joined(parties, a, x[3]) /\ membership' = [membership EXCEPT ![a] = x[3]]
      BY <2>1, <2>2, <2>5 DEF Join
    <3>2. PICK p \in Live : p = x[3]
      BY <2>3
    <3>3. Switched(parties, parties', a, p, membership[a])
      BY <2>5, <3>1, <3>2, JoinedSwitches
    <3>4. p \in DOMAIN parties /\ parties[p].dissolved = NoTick
      BY DEF Live
    <3>5. PartyLists(parties', [membership EXCEPT ![a] = p], tables.parties)
      BY <2>5, <3>2, <3>3, <3>4, PartyJoined DEF PartiesHold
    <3> QED
      BY <2>3, <3>1, <3>2, <3>5 DEF PartiesHold
  <2> QED
    BY <2>4, <2>5
<1>6. CASE \E x \in queue : Announce(x)
  <2>1. PICK x \in queue : Announce(x)
    BY <1>6
  <2>2. \E v : tables' = [tables EXCEPT !.candidacies = v]
    BY <2>1 DEF Announce
  <2>3. tables'.parties = tables.parties
    BY <1>a, <2>2
  <2> QED
    BY <1>1, <2>1, <2>3 DEF Announce
<1>7. CASE \E x \in queue : Campaign(x)
  <2>1. PICK x \in queue : Campaign(x)
    BY <1>7
  <2>2. \E v : tables' = [tables EXCEPT !.candidacies[<<x[3], x[4]>>].spend = v]
    BY <2>1 DEF Campaign
  <2>3. tables'.parties = tables.parties
    BY <1>a, <2>2
  <2> QED
    BY <1>1, <2>1, <2>3 DEF Campaign
<1>8. CASE \E x \in Steps : Appoint(x) \/ Remove(x) \/ Leaves(x)
  BY <1>1, <1>8 DEF Appoint, Remove, Leaves
<1>9. CASE \E x \in Steps : Call(x)
  <2>1. PICK x \in Steps : Call(x)
    BY <1>9
  <2>2. \E v : tables' = [tables EXCEPT !.elections = v]
    BY <2>1 DEF Call
  <2>3. tables'.parties = tables.parties
    BY <1>a, <2>2
  <2> QED
    BY <1>1, <2>1, <2>3 DEF Call
<1>10. CASE \E e \in DOMAIN elections : Hold(e)
  <2>1. PICK e \in DOMAIN elections : Hold(e)
    BY <1>10
  <2>2. PICK t : tables' = ResolvedRows(e, t)
    BY <2>1 DEF Hold, Count
  <2>3. tables'.parties = tables.parties
    BY <1>a, <2>2 DEF ResolvedRows
  <2>4. PICK fielded : parties' = CycleClosed(fielded)
    BY <2>1 DEF Hold, Count
  <2>5. membership' = membership
    BY <2>1 DEF Hold
  <2>6. parties' = [p \in DOMAIN parties |-> parties'[p]]
    BY <2>4 DEF CycleClosed
  <2>7. ASSUME NEW p \in DOMAIN parties
        PROVE  SameParty(parties'[p], parties[p])
    <3>1. \/ parties'[p] = parties[p]
          \/ \E v : parties'[p] = [parties[p] EXCEPT !.cycles = v]
      BY <2>4 DEF CycleClosed
    <3>2. DOMAIN parties[p] = PartyFields
      BY DEF PartiesHold, PartyLists
    <3> QED
      BY <3>1, <3>2 DEF SameParty, PartyFields
  <2>8. PartyLists(parties', membership, tables.parties)
    BY <2>6, <2>7, PartiesAlike DEF PartiesHold
  <2> QED
    BY <2>3, <2>5, <2>8 DEF PartiesHold
<1>11. CASE \E e \in DOMAIN elections : Rerun(e)
  <2>1. PICK e \in DOMAIN elections : Rerun(e)
    BY <1>11
  <2>2. \E v : tables' = [tables EXCEPT !.elections[e] = v]
    BY <2>1 DEF Rerun
  <2>3. tables'.parties = tables.parties
    BY <1>a, <2>2
  <2> QED
    BY <1>1, <2>1, <2>3 DEF Rerun
<1>12. ASSUME NEW i, Enact(i), Decide(i)
       PROVE  PartiesHold'
  <2>1. \E p, v : tables' = [tables EXCEPT !.policies[p] = v]
    BY <1>12 DEF Enact
  <2>2. tables'.parties = tables.parties
    BY <1>a, <2>1
  <2> QED
    BY <1>1, <1>12, <2>2 DEF Decide
<1>13. CASE \E i \in DOMAIN proposals : Block(i) \/ EnactByGovernor(i)
  BY <1>1, <1>12, <1>13 DEF Block, EnactByGovernor, Decide
<1>14. CASE \E i \in DOMAIN proposals : \E yeas \in 0..Members : \E nays \in 0..(Members - yeas) :
              Reject(i, yeas, nays) \/ Veto(i, yeas, nays) \/ EnactByCouncil(i, yeas, nays)
  <2>1. PICK i, yeas, nays :
              Reject(i, yeas, nays) \/ Veto(i, yeas, nays) \/ EnactByCouncil(i, yeas, nays)
    BY <1>14
  <2> QED
    BY <1>1, <1>12, <2>1 DEF Reject, Veto, EnactByCouncil, CouncilVote, Decide
<1>15. CASE EndTick
  <2>1. /\ parties' = [p \in DOMAIN parties |->
              IF p \in Dissolved THEN [parties[p] EXCEPT !.dissolved = tick] ELSE parties[p]]
        /\ tables' = [tables EXCEPT !.parties = [p \in DOMAIN @ |->
              IF p \in Dissolved THEN [@[p] EXCEPT !.dissolved = tick] ELSE @[p]]]
    BY <1>15 DEF EndTick
  <2>2. Dissolved \subseteq DOMAIN parties /\ \A p \in Dissolved : parties[p].dissolved = NoTick
    BY DEF Dissolved, Live
  <2>3. membership' = [a \in Agents |-> IF \E p \in Dissolved : parties[p].members[a] > 0 THEN None
                                        ELSE membership[a]]
    BY <1>15 DEF EndTick, Listed
  <2>4. tables'.parties = [p \in DOMAIN tables.parties |->
              IF p \in Dissolved THEN [tables.parties[p] EXCEPT !.dissolved = tick]
              ELSE tables.parties[p]]
    BY <1>a, <2>1
  <2>5. tick # NoTick
    BY PolityAssumption DEF NoTick
  <2>6. Ends(Dissolved, tick, parties, membership, tables.parties,
             parties', membership', tables'.parties)
    BY <2>1, <2>2, <2>3, <2>4, <2>5 DEF Ends
  <2>7. PartyLists(parties', membership', tables'.parties)
    BY <2>6, PartiesDissolved DEF PartiesHold
  <2> QED
    BY <2>7 DEF PartiesHold
<1>16. CASE Ended \/ UNCHANGED vars
  BY <1>1, <1>16 DEF Ended, vars
<1> QED
  BY <1>2, <1>3, <1>4, <1>5, <1>6, <1>7, <1>8, <1>9, <1>10, <1>11, <1>13, <1>14, <1>15, <1>16
  DEF Next

-----------------------------------------------------------------------------
(* The elections *)

Early == {"gate", "resolve"}

\* An election and its row.  Candidacies close before the count, and the actions of a tick come
\* before its counts: nobody announces for an election that has been counted.
OneElection(el, row, now, st) ==
    /\ DOMAIN el = ElectionFields /\ el.electorate \subseteq Agents
    /\ el.voting \in Int /\ el.ends \in Int /\ el.resolved \in BOOLEAN
    /\ ~el.resolved => el.ends <= el.voting /\ row.winners = {}
    /\ el.resolved => el.ends <= now /\ (st \in Early => el.ends < now)
    /\ row = [ElectionRow(el) EXCEPT !.winners = row.winners]

ElectionsHold ==
    /\ IsSeq(elections) /\ IsSeq(tables.elections) /\ Len(tables.elections) = Len(elections)
    /\ DOMAIN results \subseteq DOMAIN elections
    /\ DOMAIN ballots \subseteq (DOMAIN elections) \X Agents
    /\ \A e \in DOMAIN elections :
         /\ OneElection(elections[e], tables.elections[e], tick, stage)
         /\ e \in DOMAIN results => /\ elections[e].resolved
                                    /\ tables.elections[e].winners = results[e].winners
    /\ \A x \in queue : x[1] \in {"announce", "vote"} => x[3] \in DOMAIN elections

\* The clock goes through the stages of a tick, then to the next.
Moves ==
    \/ tick' = tick /\ (stage' \in Early => stage \in Early)
    \/ tick' = tick + 1

LEMMA ElectionLater ==
  ASSUME NEW el, NEW row, NEW now \in Int, NEW st, OneElection(el, row, now, st),
         NEW new, NEW to, (new = now /\ (to \in Early => st \in Early)) \/ new = now + 1
  PROVE  OneElection(el, row, new, to)
BY DEF OneElection

\* A step that leaves the elections alone.
LEMMA ElectionsKept ==
  ASSUME ElectionsHold, tick \in Int, Moves, UNCHANGED <<elections, results, ballots>>,
         tables'.elections = tables.elections, queue' \subseteq queue
  PROVE  ElectionsHold'
<1>1. ASSUME NEW e \in DOMAIN elections
      PROVE  OneElection(elections[e], tables.elections[e], tick, stage)'
  <2>1. OneElection(elections[e], tables.elections[e], tick, stage)
    BY DEF ElectionsHold
  <2>2. OneElection(elections[e], tables.elections[e], tick', stage')
    BY <2>1, ElectionLater DEF Moves
  <2> QED
    BY <2>2
<1> QED
  BY <1>1 DEF ElectionsHold

\* A new election, here with its row.
LEMMA ElectionIsSound ==
  ASSUME NEW office, NEW method, NEW electorate, electorate \subseteq Agents, tick \in Int, NEW st
  PROVE  OneElection(Election(office, method, electorate),
                     ElectionRow(Election(office, method, electorate)), tick, st)
<1> DEFINE el == Election(office, method, electorate)
           row == ElectionRow(el)
<1>1. el = [office |-> office, method |-> method, voting |-> tick + CampaignLength,
            ends |-> tick + CampaignLength - CandidacyClose, electorate |-> electorate,
            resolved |-> FALSE]
  BY DEF Election
<1>2. /\ DOMAIN el = ElectionFields /\ el.electorate \subseteq Agents
      /\ el.voting \in Int /\ el.ends \in Int /\ el.resolved = FALSE /\ el.ends <= el.voting
  BY <1>1, PolityAssumption DEF ElectionFields
<1> HIDE DEF el
<1>3. row.winners = {} /\ row = [ElectionRow(el) EXCEPT !.winners = row.winners]
  BY DEF ElectionRow
<1>4. OneElection(el, row, tick, st)
  BY <1>2, <1>3 DEF OneElection
<1> QED
  BY <1>4 DEF el

LEMMA ElectionCalled ==
  ASSUME ElectionsHold, TablesShaped, tick \in Int, NEW x, Call(x)
  PROVE  ElectionsHold'
<1>1. PICK method, electorate, new :
        /\ electorate \subseteq Agents /\ new = Election(x[2], method, electorate)
        /\ elections' = Append(elections, new)
        /\ tables' = [tables EXCEPT !.elections = Append(@, ElectionRow(new))]
  <2>1. PICK method, electorate, new :
          /\ electorate = {a \in Agents : Eligible(a, tick + CampaignLength)}
          /\ new = Election(x[2], method, electorate)
          /\ elections' = Append(elections, new)
          /\ tables' = [tables EXCEPT !.elections = Append(@, ElectionRow(new))]
    BY DEF Call
  <2>2. electorate \subseteq Agents
    BY <2>1
  <2> QED
    BY <2>1, <2>2
<1>2. OneElection(new, ElectionRow(new), tick, stage)
  BY <1>1, ElectionIsSound
<1>3. tables'.elections = Append(tables.elections, ElectionRow(new))
  BY <1>1 DEF TablesShaped
<1>4. UNCHANGED <<tick, stage, queue, results, ballots>>
  BY DEF Call, Step
<1> DEFINE n == Len(elections)
<1>5. /\ IsSeq(elections)' /\ n \in Nat /\ Len(elections') = n + 1
      /\ DOMAIN elections = 1..n /\ DOMAIN elections' = 1..(n + 1)
      /\ \A e \in 1..n : elections'[e] = elections[e]
      /\ elections'[n + 1] = new
  BY <1>1, Appended DEF ElectionsHold
<1>6. /\ IsSeq(tables.elections)' /\ Len(tables'.elections) = n + 1
      /\ \A e \in 1..n : tables'.elections[e] = tables.elections[e]
      /\ tables'.elections[n + 1] = ElectionRow(new)
  <2>1. IsSeq(tables.elections) /\ Len(tables.elections) = n
    BY DEF ElectionsHold
  <2> QED
    BY <1>3, <1>5, <2>1, Appended
<1>7. /\ \A e \in 1..(n+1) : e \in 1..n \/ e = n + 1
      /\ n + 1 \notin 1..n /\ DOMAIN elections \subseteq DOMAIN elections'
  BY <1>5
<1>8. ASSUME NEW e \in DOMAIN elections'
      PROVE  /\ OneElection(elections'[e], tables'.elections[e], tick, stage)
             /\ e \in DOMAIN results => /\ elections'[e].resolved
                                        /\ tables'.elections[e].winners = results[e].winners
  <2>1. CASE e \in 1..n
    <3>1. elections'[e] = elections[e] /\ tables'.elections[e] = tables.elections[e]
      BY <1>5, <1>6, <2>1
    <3> QED
      BY <1>5, <2>1, <3>1 DEF ElectionsHold
  <2>2. CASE e = n + 1
    <3>1. e \notin DOMAIN results
      BY <1>5, <1>7, <2>2 DEF ElectionsHold
    <3> QED
      BY <1>2, <1>5, <1>6, <2>2, <3>1
  <2> QED
    BY <1>5, <1>7, <2>1, <2>2
<1>9. /\ DOMAIN results \subseteq DOMAIN elections'
      /\ DOMAIN ballots \subseteq (DOMAIN elections') \X Agents
      /\ \A y \in queue : y[1] \in {"announce", "vote"} => y[3] \in DOMAIN elections'
  BY <1>7 DEF ElectionsHold
<1> QED
  BY <1>4, <1>5, <1>6, <1>8, <1>9 DEF ElectionsHold

\* The entry e of both lists is replaced.
Replaced(e, es, rows, el, row, fs, ws) ==
    /\ fs = [d \in DOMAIN es |-> IF d = e THEN el ELSE es[d]]
    /\ ws = [d \in DOMAIN rows |-> IF d = e THEN row ELSE rows[d]]

LEMMA ReplacedLists ==
  ASSUME NEW e, NEW es, NEW rows, IsSeq(es), IsSeq(rows), Len(rows) = Len(es), e \in DOMAIN es,
         NEW el, NEW row, NEW fs, NEW ws, Replaced(e, es, rows, el, row, fs, ws)
  PROVE  /\ IsSeq(fs) /\ IsSeq(ws) /\ Len(ws) = Len(fs) /\ DOMAIN fs = DOMAIN es
         /\ fs[e] = el /\ ws[e] = row
         /\ \A d \in DOMAIN es : d # e => fs[d] = es[d] /\ ws[d] = rows[d]
<1>1. fs = [d \in DOMAIN es |-> fs[d]] /\ ws = [d \in DOMAIN rows |-> ws[d]]
  BY DEF Replaced
<1>2. /\ IsSeq(fs) /\ Len(fs) = Len(es) /\ DOMAIN es = 1..Len(es)
      /\ IsSeq(ws) /\ Len(ws) = Len(rows) /\ DOMAIN rows = 1..Len(rows)
  BY <1>1, Rewritten
<1> QED
  BY <1>2 DEF Replaced

Resolves(el, row, w, done, told) ==
    done = [el EXCEPT !.resolved = TRUE] /\ told = [row EXCEPT !.winners = w]

LEMMA ElectionResolved ==
  ASSUME NEW el, NEW row, NEW now \in Int, OneElection(el, row, now, "officials"),
         ~el.resolved, el.voting <= now, NEW w, NEW done, NEW told, Resolves(el, row, w, done, told)
  PROVE  OneElection(done, told, now, "officials") /\ done.resolved /\ told.winners = w
<1>1. /\ DOMAIN el = ElectionFields /\ el.electorate \subseteq Agents /\ el.voting \in Int
      /\ el.ends \in Int /\ el.ends <= now
      /\ row = [ElectionRow(el) EXCEPT !.winners = row.winners]
  BY DEF OneElection
<1>2. /\ DOMAIN done = ElectionFields /\ done.electorate = el.electorate /\ done.ends = el.ends
      /\ done.voting = el.voting /\ done.office = el.office /\ done.method = el.method
      /\ done.resolved = TRUE
  BY <1>1 DEF ElectionFields, Resolves
<1>3. ElectionRow(done) = ElectionRow(el)
  BY <1>2 DEF ElectionRow
<1>4. told = [ElectionRow(el) EXCEPT !.winners = w] /\ told.winners = w
  BY <1>1 DEF ElectionRow, Resolves
<1>5. OneElection(done, told, now, "officials")
  BY <1>1, <1>2, <1>3, <1>4 DEF OneElection, Early
<1> QED
  BY <1>2, <1>4, <1>5

LEMMA ElectionHeld ==
  ASSUME ElectionsHold, TablesShaped, tick \in Int, NEW e \in DOMAIN elections, Hold(e)
  PROVE  ElectionsHold'
<1>0. PICK pending, t, bs, all :
        /\ pending = elections[e].electorate \ Voted(e) /\ Count(e, pending, bs, all, t)
  BY DEF Hold
<1>1. /\ ballots' = [k \in DOMAIN ballots \cup ({e} \X pending) |->
                        IF k \in DOMAIN ballots THEN ballots[k] ELSE bs[k[2]]]
      /\ results' = [d \in DOMAIN results \cup {e} |->
                        IF d = e THEN [ballots |-> all, counts |-> t.counts, winners |-> t.winners]
                        ELSE results[d]]
      /\ tables' = ResolvedRows(e, t)
      /\ elections' = [elections EXCEPT ![e].resolved = TRUE]
  BY <1>0 DEF Count
<1>2. /\ stage = "officials" /\ ~elections[e].resolved /\ elections[e].voting <= tick
      /\ UNCHANGED <<tick, stage, queue>>
  BY DEF Hold, DueElections, clockVars
<1> DEFINE done == [elections[e] EXCEPT !.resolved = TRUE]
           told == [tables.elections[e] EXCEPT !.winners = t.winners]
<1>3. /\ IsSeq(elections) /\ IsSeq(tables.elections) /\ Len(tables.elections) = Len(elections)
      /\ OneElection(elections[e], tables.elections[e], tick, "officials")
  BY <1>2 DEF ElectionsHold
<1>4. OneElection(done, told, tick, "officials") /\ done.resolved /\ told.winners = t.winners
  <2>1. Resolves(elections[e], tables.elections[e], t.winners, done, told)
    BY DEF Resolves
  <2> HIDE DEF done, told
  <2> QED
    BY <1>2, <1>3, <2>1, ElectionResolved
<1>5. Replaced(e, elections, tables.elections, done, told, elections', tables'.elections)
  <2>1. tables'.elections = [tables.elections EXCEPT ![e] = told]
    BY <1>1 DEF ResolvedRows, TablesShaped
  <2>2. elections' = [elections EXCEPT ![e] = done]
    BY <1>1
  <2> HIDE DEF done, told
  <2> QED
    BY <2>1, <2>2 DEF Replaced
<1> HIDE DEF done, told
<1>6. /\ IsSeq(elections') /\ IsSeq(tables'.elections) /\ Len(tables'.elections) = Len(elections')
      /\ DOMAIN elections' = DOMAIN elections
      /\ elections'[e] = done /\ tables'.elections[e] = told
      /\ \A d \in DOMAIN elections : d # e => /\ elections'[d] = elections[d]
                                              /\ tables'.elections[d] = tables.elections[d]
  BY <1>3, <1>5, ReplacedLists
<1>7. /\ DOMAIN results' = DOMAIN results \cup {e} /\ results'[e].winners = t.winners
      /\ \A d \in DOMAIN results : d # e => results'[d] = results[d]
  <2>1. results'[e] = [ballots |-> all, counts |-> t.counts, winners |-> t.winners]
    BY <1>1
  <2> QED
    BY <1>1, <2>1
<1>8. ASSUME NEW d \in DOMAIN elections
      PROVE  /\ OneElection(elections'[d], tables'.elections[d], tick, stage)
             /\ d \in DOMAIN results' => /\ elections'[d].resolved
                                         /\ tables'.elections[d].winners = results'[d].winners
  <2>1. CASE d = e
    BY <1>2, <1>4, <1>6, <1>7, <2>1
  <2>2. CASE d # e
    <3>1. elections'[d] = elections[d] /\ tables'.elections[d] = tables.elections[d]
      BY <1>6, <2>2
    <3>2. d \in DOMAIN results' => d \in DOMAIN results /\ results'[d] = results[d]
      BY <1>7, <2>2
    <3> QED
      BY <3>1, <3>2 DEF ElectionsHold
  <2> QED
    BY <2>1, <2>2
<1>9. DOMAIN ballots' \subseteq (DOMAIN elections) \X Agents
  <2>1. elections[e].electorate \subseteq Agents
    BY <1>3 DEF OneElection
  <2>2. DOMAIN ballots' = DOMAIN ballots \cup ({e} \X pending) /\ pending \subseteq Agents
    BY <1>0, <1>1, <2>1
  <2>3. DOMAIN ballots \subseteq (DOMAIN elections) \X Agents
    BY DEF ElectionsHold
  <2> QED
    BY <2>2, <2>3
<1>10. DOMAIN results' \subseteq DOMAIN elections
  BY <1>7 DEF ElectionsHold
<1>11. \A x \in queue : x[1] \in {"announce", "vote"} => x[3] \in DOMAIN elections
  BY DEF ElectionsHold
<1> QED
  BY <1>2, <1>6, <1>8, <1>9, <1>10, <1>11 DEF ElectionsHold

LEMMA ElectionAgain ==
  ASSUME ElectionsHold, TablesShaped, tick \in Int, NEW e \in DOMAIN elections, Rerun(e)
  PROVE  ElectionsHold' /\ (elections[e].resolved)' = elections[e].resolved
<1>1. PICK again : /\ again = [elections[e] EXCEPT !.voting = tick + Week, !.ends = tick]
                   /\ elections' = [elections EXCEPT ![e] = again]
                   /\ tables' = [tables EXCEPT !.elections[e] = ElectionRow(again)]
  BY DEF Rerun
<1>2. /\ stage = "officials" /\ ~elections[e].resolved
      /\ UNCHANGED <<tick, stage, queue, results, ballots>>
  BY DEF Rerun, DueElections, clockVars
<1>3. /\ IsSeq(elections) /\ IsSeq(tables.elections) /\ Len(tables.elections) = Len(elections)
      /\ OneElection(elections[e], tables.elections[e], tick, stage) /\ e \notin DOMAIN results
  BY <1>2 DEF ElectionsHold
<1>4. /\ DOMAIN again = ElectionFields /\ again.electorate \subseteq Agents /\ again.voting \in Int
      /\ again.ends \in Int /\ again.ends <= again.voting /\ again.resolved = FALSE
  <2>1. /\ DOMAIN elections[e] = ElectionFields /\ elections[e].electorate \subseteq Agents
        /\ elections[e].resolved = FALSE
    BY <1>2, <1>3 DEF OneElection
  <2>2. /\ DOMAIN again = ElectionFields /\ again.electorate \subseteq Agents
        /\ again.voting = tick + Week /\ again.ends = tick /\ again.resolved = FALSE
    BY <1>1, <2>1 DEF ElectionFields
  <2> QED
    BY <2>2, PolityAssumption
<1>5. OneElection(again, ElectionRow(again), tick, stage)
  <2>1. /\ ElectionRow(again).winners = {}
        /\ ElectionRow(again) = [ElectionRow(again) EXCEPT !.winners = ElectionRow(again).winners]
    BY DEF ElectionRow
  <2> QED
    BY <1>4, <2>1 DEF OneElection
<1>6. Replaced(e, elections, tables.elections, again, ElectionRow(again), elections', tables'.elections)
  <2>1. tables'.elections = [tables.elections EXCEPT ![e] = ElectionRow(again)]
    BY <1>1 DEF TablesShaped
  <2> QED
    BY <1>1, <2>1 DEF Replaced
<1>7. /\ IsSeq(elections') /\ IsSeq(tables'.elections) /\ Len(tables'.elections) = Len(elections')
      /\ DOMAIN elections' = DOMAIN elections
      /\ elections'[e] = again /\ tables'.elections[e] = ElectionRow(again)
      /\ \A d \in DOMAIN elections : d # e => /\ elections'[d] = elections[d]
                                              /\ tables'.elections[d] = tables.elections[d]
  BY <1>3, <1>6, ReplacedLists
<1>8. ASSUME NEW d \in DOMAIN elections
      PROVE  /\ OneElection(elections'[d], tables'.elections[d], tick, stage)
             /\ d \in DOMAIN results => /\ elections'[d].resolved
                                        /\ tables'.elections[d].winners = results[d].winners
  <2>1. CASE d = e
    BY <1>3, <1>5, <1>7, <2>1
  <2>2. CASE d # e
    <3>1. elections'[d] = elections[d] /\ tables'.elections[d] = tables.elections[d]
      BY <1>7, <2>2
    <3> QED
      BY <3>1 DEF ElectionsHold
  <2> QED
    BY <2>1, <2>2
<1>9. ElectionsHold'
  <2>1. /\ DOMAIN results \subseteq DOMAIN elections
        /\ DOMAIN ballots \subseteq (DOMAIN elections) \X Agents
        /\ \A x \in queue : x[1] \in {"announce", "vote"} => x[3] \in DOMAIN elections
    BY DEF ElectionsHold
  <2> QED
    BY <1>2, <1>7, <1>8, <2>1 DEF ElectionsHold
<1>10. elections'[e].resolved = elections[e].resolved
  <2>1. elections[e].resolved = FALSE
    BY <1>2, <1>3 DEF OneElection
  <2> QED
    BY <1>4, <1>7, <2>1
<1> QED
  BY <1>9, <1>10

LEMMA BallotCast ==
  ASSUME ElectionsHold, Queued, tick \in Int, NEW x \in queue, Vote(x)
  PROVE  ElectionsHold'
<1>1. /\ UNCHANGED <<tick, stage, elections, results, tables>> /\ queue' \subseteq queue
      /\ x[1] = "vote" /\ DOMAIN ballots' = DOMAIN ballots \cup {<<x[3], x[2]>>}
  BY DEF Vote, Resolve, Turn
<1>2. x[2] \in Agents /\ x[3] \in DOMAIN elections
  BY <1>1, PolityAssumption DEF Queued, ElectionsHold
<1>3. DOMAIN ballots' \subseteq (DOMAIN elections) \X Agents
  BY <1>1, <1>2 DEF ElectionsHold
<1> QED
  BY <1>1, <1>3 DEF ElectionsHold

LEMMA SessionOpens ==
  ASSUME ElectionsHold, tick \in Int, BeginSession
  PROVE  ElectionsHold'
<1>1. /\ UNCHANGED <<tick, queue, elections, tables>> /\ stage' = "session"
      /\ DOMAIN ballots' = DOMAIN ballots /\ results' = <<>>
  BY DEF BeginSession
<1>2. DOMAIN results' = {}
  BY <1>1
<1>3. ASSUME NEW e \in DOMAIN elections
      PROVE  OneElection(elections[e], tables.elections[e], tick, "session")
  <2>1. OneElection(elections[e], tables.elections[e], tick, stage)
    BY DEF ElectionsHold
  <2> QED
    BY <2>1, ElectionLater DEF Early
<1> QED
  BY <1>1, <1>2, <1>3 DEF ElectionsHold

LEMMA ActionQueued ==
  ASSUME ElectionsHold, Submit
  PROVE  ElectionsHold'
<1>1. PICK x \in Actions : Passes(x) /\ queue' = queue \cup {x}
  BY DEF Submit
<1>2. x[1] = "announce" => x[3] \in DOMAIN elections
  BY <1>1 DEF Passes
<1>3. x[1] = "vote" => x[3] \in DOMAIN elections
  BY <1>1 DEF Passes
<1>4. \A y \in queue' : y[1] \in {"announce", "vote"} => y[3] \in DOMAIN elections
  BY <1>1, <1>2, <1>3 DEF ElectionsHold
<1>5. UNCHANGED <<tick, stage, elections, results, ballots, tables>>
  BY DEF Submit, electionVars
<1> QED
  BY <1>4, <1>5 DEF ElectionsHold

-----------------------------------------------------------------------------
(* The candidacies *)

\* A candidacy and its row; nobody has votes in an election that was not counted.
OneCandidacy(c, row, counted) ==
    /\ DOMAIN c = CandidacyFields /\ DOMAIN row = {"party", "spend", "votes"}
    /\ c.spend \in Nat /\ row.spend \in Nat /\ row.spend >= c.spend
    /\ row.party = c.party /\ row.votes = c.votes
    /\ c.refunded \in BOOLEAN /\ (~counted => c.votes = 0)

CandidaciesHold ==
    /\ DOMAIN candidacies \subseteq (DOMAIN elections) \X Agents
    /\ DOMAIN tables.candidacies = DOMAIN candidacies
    /\ \A k \in DOMAIN candidacies :
            OneCandidacy(candidacies[k], tables.candidacies[k], elections[k[1]].resolved)

LEMMA CandidaciesKept ==
  ASSUME CandidaciesHold, UNCHANGED candidacies, tables'.candidacies = tables.candidacies,
         DOMAIN elections \subseteq DOMAIN elections',
         \A e \in DOMAIN elections : elections'[e].resolved = elections[e].resolved
  PROVE  CandidaciesHold'
<1>1. DOMAIN candidacies' \subseteq (DOMAIN elections') \X Agents
  BY DEF CandidaciesHold
<1>2. ASSUME NEW k \in DOMAIN candidacies
      PROVE  OneCandidacy(candidacies[k], tables'.candidacies[k], elections'[k[1]].resolved)
  <2>1. k[1] \in DOMAIN elections
    BY DEF CandidaciesHold
  <2>2. OneCandidacy(candidacies[k], tables.candidacies[k], elections[k[1]].resolved)
    BY DEF CandidaciesHold
  <2>3. elections'[k[1]].resolved = elections[k[1]].resolved
    BY <2>1
  <2> QED
    BY <2>2, <2>3
<1> QED
  BY <1>1, <1>2 DEF CandidaciesHold

LEMMA CandidacyAnnounced ==
  ASSUME CandidaciesHold, ElectionsHold, TablesShaped, Queued, tick \in Int, NEW x \in queue, Announce(x)
  PROVE  CandidaciesHold'
<1> DEFINE key == <<x[3], x[2]>>
           c == [party |-> x[4], spend |-> 0, votes |-> 0, refunded |-> FALSE]
           rows == tables.candidacies
           row == IF key \in DOMAIN rows THEN [rows[key] EXCEPT !.party = x[4]]
                  ELSE [party |-> x[4], spend |-> 0, votes |-> 0]
<1>1. /\ x[1] = "announce" /\ UNCHANGED elections /\ stage = "resolve" /\ tick <= elections[x[3]].ends
      /\ candidacies' = [k \in DOMAIN candidacies \cup {key} |-> IF k = key THEN c ELSE candidacies[k]]
      /\ tables' = [tables EXCEPT !.candidacies = CandidacyRows(@, <<x[3], x[2]>>, x[4])]
  BY DEF Announce, Resolve, Resolvable, Turn
<1>2. tables'.candidacies = CandidacyRows(rows, key, x[4])
  BY <1>1 DEF TablesShaped
<1>3. tables'.candidacies = [k \in DOMAIN rows \cup {key} |-> IF k # key THEN rows[k] ELSE row]
  BY <1>2 DEF CandidacyRows
<1>4. x[2] \in Agents /\ x[3] \in DOMAIN elections
  BY <1>1, PolityAssumption DEF Queued, ElectionsHold
<1>5. elections[x[3]].resolved = FALSE
  <2>1. OneElection(elections[x[3]], tables.elections[x[3]], tick, stage)
    BY <1>4 DEF ElectionsHold
  <2> QED
    BY <1>1, <2>1 DEF OneElection, Early
<1>6. DOMAIN rows = DOMAIN candidacies
  BY DEF CandidaciesHold
<1>a. /\ DOMAIN c = CandidacyFields /\ c.spend = 0 /\ c.spend \in Nat /\ c.votes = 0
      /\ c.party = x[4] /\ c.refunded = FALSE /\ c.refunded \in BOOLEAN
  BY DEF CandidacyFields
<1>7. OneCandidacy(c, row, FALSE)
  <2>1. CASE key \in DOMAIN rows
    <3>1. key[1] = x[3]
      OBVIOUS
    <3>2. OneCandidacy(candidacies[key], rows[key], FALSE)
      BY <1>5, <1>6, <2>1, <3>1 DEF CandidaciesHold
    <3>3. /\ DOMAIN rows[key] = {"party", "spend", "votes"} /\ rows[key].spend \in Nat
          /\ rows[key].votes = 0
      BY <3>2 DEF OneCandidacy
    <3>4. /\ DOMAIN row = {"party", "spend", "votes"} /\ row.spend = rows[key].spend
          /\ row.votes = rows[key].votes /\ row.party = x[4]
      BY <2>1, <3>3
    <3> HIDE DEF row, c, rows, key
    <3>5. row.spend \in Nat /\ row.spend >= 0 /\ row.votes = 0
      BY <3>3, <3>4
    <3> QED
      BY <1>a, <3>4, <3>5, Zenon DEF OneCandidacy
  <2>2. CASE key \notin DOMAIN rows
    <3>1. /\ DOMAIN row = {"party", "spend", "votes"} /\ row.spend = 0
          /\ row.votes = 0 /\ row.party = x[4]
      BY <2>2
    <3> HIDE DEF row, c, rows, key
    <3>2. row.spend \in Nat /\ row.spend >= 0
      BY <3>1
    <3> QED
      BY <1>a, <3>1, <3>2, Zenon DEF OneCandidacy
  <2> QED
    BY <2>1, <2>2
<1> HIDE DEF row, c
<1>8. /\ DOMAIN candidacies' = DOMAIN candidacies \cup {key}
      /\ DOMAIN tables'.candidacies = DOMAIN candidacies \cup {key}
  BY <1>1, <1>3, <1>6
<1>9. DOMAIN candidacies' \subseteq (DOMAIN elections) \X Agents
  BY <1>4, <1>8 DEF CandidaciesHold
<1>10. ASSUME NEW k \in DOMAIN candidacies'
       PROVE  OneCandidacy(candidacies'[k], tables'.candidacies[k], elections[k[1]].resolved)
  <2>1. CASE k = key
    <3>1. /\ candidacies'[k] = c /\ tables'.candidacies[k] = row /\ k[1] = x[3]
      BY <1>1, <1>3, <2>1
    <3> QED
      BY <1>5, <1>7, <3>1
  <2>2. CASE k # key
    <3>1. /\ k \in DOMAIN candidacies /\ candidacies'[k] = candidacies[k]
          /\ tables'.candidacies[k] = tables.candidacies[k]
      BY <1>1, <1>3, <1>6, <1>8, <2>2
    <3> QED
      BY <3>1 DEF CandidaciesHold
  <2> QED
    BY <2>1, <2>2
<1> QED
  BY <1>1, <1>8, <1>9, <1>10 DEF CandidaciesHold

LEMMA CandidateCampaigns ==
  ASSUME CandidaciesHold, TablesShaped, Queued, NEW x \in queue, Campaign(x)
  PROVE  CandidaciesHold'
<1> DEFINE key == <<x[3], x[4]>>
           rows == tables.candidacies
<1>1. /\ UNCHANGED elections /\ x[1] = "campaign"
      /\ candidacies' = [candidacies EXCEPT ![key].spend = @ + Spent(x)]
      /\ tables' = [tables EXCEPT !.candidacies[key].spend = @ + Spent(x)]
  BY DEF Campaign, Resolve
<1>2. Spent(x) \in Nat
  BY <1>1, PolityAssumption DEF Queued, Spent
<1>3. tables'.candidacies = [rows EXCEPT ![key] = [rows[key] EXCEPT !.spend = @ + Spent(x)]]
  BY <1>1 DEF TablesShaped
<1>4. DOMAIN rows = DOMAIN candidacies
  BY DEF CandidaciesHold
<1>5. /\ DOMAIN candidacies' = DOMAIN candidacies /\ DOMAIN tables'.candidacies = DOMAIN candidacies
  BY <1>1, <1>3, <1>4
<1>6. ASSUME NEW k \in DOMAIN candidacies
      PROVE  OneCandidacy(candidacies'[k], tables'.candidacies[k], elections[k[1]].resolved)
  <2>1. OneCandidacy(candidacies[k], rows[k], elections[k[1]].resolved)
    BY DEF CandidaciesHold
  <2>2. CASE k # key
    <3>1. candidacies'[k] = candidacies[k] /\ tables'.candidacies[k] = rows[k]
      BY <1>1, <1>3, <1>4, <2>2
    <3> QED
      BY <2>1, <3>1
  <2>3. CASE k = key
    <3>1. PICK c, row, d, w : c = candidacies[k] /\ row = rows[k]
                              /\ d = candidacies'[k] /\ w = tables'.candidacies[k]
      OBVIOUS
    <3>2. /\ d = [c EXCEPT !.spend = @ + Spent(x)] /\ w = [row EXCEPT !.spend = @ + Spent(x)]
      BY <1>1, <1>3, <1>4, <2>3, <3>1
    <3>3. /\ DOMAIN c = CandidacyFields /\ DOMAIN row = {"party", "spend", "votes"}
          /\ c.spend \in Nat /\ row.spend \in Nat /\ row.spend >= c.spend
      BY <2>1, <3>1 DEF OneCandidacy
    <3>4. /\ DOMAIN d = CandidacyFields /\ DOMAIN w = {"party", "spend", "votes"}
          /\ d.spend = c.spend + Spent(x) /\ w.spend = row.spend + Spent(x)
          /\ d.party = c.party /\ w.party = row.party /\ d.votes = c.votes /\ w.votes = row.votes
          /\ d.refunded = c.refunded
      BY <3>2, <3>3 DEF CandidacyFields
    <3>5. d.spend \in Nat /\ w.spend \in Nat /\ w.spend >= d.spend
      BY <1>2, <3>3, <3>4
    <3> HIDE DEF rows, key
    <3> QED
      BY <2>1, <3>1, <3>4, <3>5, Zenon DEF OneCandidacy
  <2> QED
    BY <2>2, <2>3
<1> QED
  BY <1>1, <1>5, <1>6 DEF CandidaciesHold

LEMMA CandidatesCounted ==
  ASSUME CandidaciesHold, ElectionsHold, TablesShaped, NEW e \in DOMAIN elections,
         NEW pending, NEW bs, NEW all, NEW t, Count(e, pending, bs, all, t)
  PROVE  CandidaciesHold'
<1> DEFINE rows == tables.candidacies
           back == Refundable(e, t.counts)
<1>1. /\ candidacies' = Recorded(e, t) /\ tables' = ResolvedRows(e, t)
      /\ elections' = [elections EXCEPT ![e].resolved = TRUE]
  BY DEF Count
<1>2. tables'.candidacies = [k \in DOMAIN rows |->
                        IF k[1] = e /\ k[2] \in DOMAIN t.counts
                        THEN [rows[k] EXCEPT !.votes = t.counts[k[2]]] ELSE rows[k]]
  BY <1>1 DEF ResolvedRows, TablesShaped
<1>3. candidacies' = [k \in DOMAIN candidacies |->
            IF k[1] # e THEN candidacies[k]
            ELSE [candidacies[k] EXCEPT
                !.votes = IF k[2] \in DOMAIN t.counts THEN t.counts[k[2]] ELSE @,
                !.refunded = @ \/ k[2] \in back]]
  BY <1>1 DEF Recorded
<1> HIDE DEF back
<1>4. DOMAIN rows = DOMAIN candidacies
  BY DEF CandidaciesHold
<1>5. /\ DOMAIN elections' = DOMAIN elections
      /\ \A d \in DOMAIN elections : d # e => elections'[d] = elections[d]
      /\ elections'[e].resolved = TRUE
  <2>1. DOMAIN elections[e] = ElectionFields
    BY DEF ElectionsHold, OneElection
  <2>2. elections'[e] = [elections[e] EXCEPT !.resolved = TRUE]
    BY <1>1
  <2>3. elections'[e].resolved = TRUE
    BY <2>1, <2>2 DEF ElectionFields
  <2> QED
    BY <1>1, <2>3
<1>6. /\ DOMAIN candidacies' = DOMAIN candidacies /\ DOMAIN tables'.candidacies = DOMAIN candidacies
  BY <1>2, <1>3, <1>4
<1>7. ASSUME NEW k \in DOMAIN candidacies
      PROVE  OneCandidacy(candidacies'[k], tables'.candidacies[k], elections'[k[1]].resolved)
  <2>1. k[1] \in DOMAIN elections
    BY DEF CandidaciesHold
  <2>2. OneCandidacy(candidacies[k], rows[k], elections[k[1]].resolved)
    BY DEF CandidaciesHold
  <2>3. CASE k[1] # e
    <3>1. candidacies'[k] = candidacies[k] /\ tables'.candidacies[k] = rows[k]
      BY <1>2, <1>3, <1>4, <2>3
    <3>2. elections'[k[1]] = elections[k[1]]
      BY <1>5, <2>1, <2>3
    <3> QED
      BY <2>2, <3>1, <3>2
  <2>4. CASE k[1] = e
    <3>1. PICK c, row, d, w, votes, refunded :
            /\ c = candidacies[k] /\ row = rows[k]
            /\ d = candidacies'[k] /\ w = tables'.candidacies[k]
            /\ votes = IF k[2] \in DOMAIN t.counts THEN t.counts[k[2]] ELSE c.votes
            /\ refunded = (c.refunded \/ k[2] \in back)
      OBVIOUS
    <3>2. d = [c EXCEPT !.votes = votes, !.refunded = refunded]
      BY <1>3, <2>4, <3>1
    <3>3. w = [row EXCEPT !.votes = votes] \/ (w = row /\ votes = c.votes)
      BY <1>2, <1>4, <2>4, <3>1
    <3>4. /\ DOMAIN c = CandidacyFields /\ DOMAIN row = {"party", "spend", "votes"}
          /\ c.spend \in Nat /\ row.spend \in Nat /\ row.spend >= c.spend
          /\ row.party = c.party /\ row.votes = c.votes
      BY <2>2, <3>1 DEF OneCandidacy
    <3>5. /\ DOMAIN d = CandidacyFields /\ d.spend = c.spend /\ d.party = c.party
          /\ d.votes = votes /\ d.refunded = refunded
      BY <3>2, <3>4 DEF CandidacyFields
    <3>6. /\ DOMAIN w = {"party", "spend", "votes"} /\ w.spend = row.spend
          /\ w.party = row.party /\ w.votes = votes
      BY <3>3, <3>4
    <3>7. refunded \in BOOLEAN
      BY <3>1, Zenon
    <3>8. elections'[k[1]].resolved = TRUE
      BY <1>5, <2>4
    <3> HIDE DEF rows
    <3>9. OneCandidacy(d, w, TRUE)
      BY <3>4, <3>5, <3>6, <3>7, Zenon DEF OneCandidacy
    <3> QED
      BY <3>1, <3>8, <3>9
  <2> QED
    BY <2>3, <2>4
<1>8. DOMAIN candidacies' \subseteq (DOMAIN elections') \X Agents
  BY <1>5, <1>6 DEF CandidaciesHold
<1> QED
  BY <1>6, <1>7, <1>8 DEF CandidaciesHold

-----------------------------------------------------------------------------
(* The money *)

Unrefunded(cs) == {k \in DOMAIN cs : ~cs[k].refunded}

MoneyHolds ==
    /\ cash \in [Agents -> Nat] /\ treasury \in Nat /\ outlet \in Nat
    /\ treasury >= Treasury + Fee * Len(parties) + Deposit * Cardinality(Unrefunded(candidacies))

LEMMA CandidaciesFinite ==
  ASSUME CandidaciesHold, ElectionsHold
  PROVE  IsFiniteSet(DOMAIN candidacies)
<1>1. IsFiniteSet(DOMAIN elections)
  <2>1. Len(elections) \in Nat /\ DOMAIN elections = 1..Len(elections)
    BY DEF ElectionsHold, IsSeq
  <2> QED
    BY <2>1, FS_Interval
<1>2. IsFiniteSet((DOMAIN elections) \X Agents)
  BY <1>1, PolityAssumption, FS_Product
<1> QED
  BY <1>2, FS_Subset DEF CandidaciesHold

LEMMA CardinalityNat ==
  ASSUME NEW cs, IsFiniteSet(DOMAIN cs)
  PROVE  IsFiniteSet(Unrefunded(cs)) /\ Cardinality(Unrefunded(cs)) \in Nat
<1>1. Unrefunded(cs) \subseteq DOMAIN cs
  BY DEF Unrefunded
<1>2. IsFiniteSet(Unrefunded(cs))
  BY <1>1, FS_Subset
<1> QED
  BY <1>2, FS_CardinalityType

LEMMA MoneyKept ==
  ASSUME MoneyHolds, UNCHANGED <<cash, treasury, outlet, candidacies>>, Len(parties') = Len(parties)
  PROVE  MoneyHolds'
BY DEF MoneyHolds

LEMMA FeePaid ==
  ASSUME MoneyHolds, PartiesHold, CandidaciesHold, ElectionsHold, Queued, NEW x \in queue, Found(x)
  PROVE  MoneyHolds'
<1>1. /\ cash' = [cash EXCEPT ![x[2]] = @ - Fee] /\ treasury' = treasury + Fee
      /\ UNCHANGED <<outlet, candidacies>> /\ \E p : parties' = Append(parties, p)
      /\ cash[x[2]] >= Fee /\ x[1] = "found"
  BY DEF Found, Resolve, Resolvable, electionVars
<1>2. x[2] \in Agents /\ Fee \in Nat /\ Treasury \in Nat /\ Deposit \in Nat
  BY PolityAssumption DEF Queued
<1>3. Len(parties) \in Nat /\ Len(parties') = Len(parties) + 1
  <2>1. IsSeq(parties)
    BY DEF PartiesHold, PartyLists
  <2> QED
    BY <1>1, <2>1, Appended
<1>4. cash' \in [Agents -> Nat]
  <2>1. cash[x[2]] - Fee \in Nat
    BY <1>1, <1>2 DEF MoneyHolds
  <2> QED
    BY <1>1, <2>1 DEF MoneyHolds
<1>5. Cardinality(Unrefunded(candidacies)) \in Nat
  BY CandidaciesFinite, CardinalityNat
<1>6. PICK n \in Nat, c \in Nat : n = Len(parties) /\ c = Cardinality(Unrefunded(candidacies))
  BY <1>3, <1>5
<1>7. treasury + Fee \in Nat /\ treasury + Fee >= Treasury + Fee * (n + 1) + Deposit * c
  <2>1. treasury \in Nat /\ treasury >= Treasury + Fee * n + Deposit * c
    BY <1>6 DEF MoneyHolds
  <2>2. Fee * (n + 1) = Fee * n + Fee /\ Fee * n \in Nat /\ Deposit * c \in Nat
    BY <1>2
  <2> QED
    BY <1>2, <2>1, <2>2
<1> QED
  BY <1>1, <1>3, <1>4, <1>6, <1>7 DEF MoneyHolds

LEMMA DepositPaid ==
  ASSUME MoneyHolds, PartiesHold, CandidaciesHold, ElectionsHold, Queued, NEW x \in queue, Announce(x)
  PROVE  MoneyHolds'
<1>1. /\ cash' = [cash EXCEPT ![x[2]] = @ - Deposit] /\ treasury' = treasury + Deposit
      /\ UNCHANGED <<outlet, parties>>
      /\ cash[x[2]] >= Deposit /\ x[1] = "announce"
  BY DEF Announce, Resolve, Resolvable, partyVars
<1>2. x[2] \in Agents /\ Fee \in Nat /\ Treasury \in Nat /\ Deposit \in Nat
  BY PolityAssumption DEF Queued
<1>3. Len(parties) \in Nat
  BY DEF PartiesHold, PartyLists, IsSeq
<1>4. cash' \in [Agents -> Nat]
  <2>1. cash[x[2]] - Deposit \in Nat
    BY <1>1, <1>2 DEF MoneyHolds
  <2> QED
    BY <1>1, <2>1 DEF MoneyHolds
<1> DEFINE key == <<x[3], x[2]>>
           U == Unrefunded(candidacies)
           W == Unrefunded(candidacies')
<1>5. IsFiniteSet(U) /\ Cardinality(U) \in Nat
  BY CandidaciesFinite, CardinalityNat
<1>6. W \subseteq U \cup {key}
  <2>1. \A k \in DOMAIN candidacies' : k = key \/ (k \in DOMAIN candidacies /\ candidacies'[k] = candidacies[k])
    BY DEF Announce
  <2> QED
    BY <2>1 DEF Unrefunded
<1> HIDE DEF U, W
<1>7. /\ IsFiniteSet(U \cup {key}) /\ Cardinality(U \cup {key}) \in Nat
      /\ Cardinality(U \cup {key}) <= Cardinality(U) + 1
  <2>1. /\ IsFiniteSet(U \cup {key})
        /\ Cardinality(U \cup {key}) = IF key \in U THEN Cardinality(U) ELSE Cardinality(U) + 1
    BY <1>5, FS_AddElement
  <2> QED
    BY <1>5, <2>1
<1>8. Cardinality(W) \in Nat /\ Cardinality(W) <= Cardinality(U) + 1
  <2>1. /\ IsFiniteSet(W) /\ Cardinality(W) <= Cardinality(U \cup {key})
    BY <1>6, <1>7, FS_Subset
  <2>2. Cardinality(W) \in Nat
    BY <2>1, FS_CardinalityType
  <2> QED
    BY <1>5, <1>7, <2>1, <2>2
<1>9. PICK n \in Nat, c \in Nat, d \in Nat : n = Len(parties) /\ c = Cardinality(U) /\ d = Cardinality(W)
  BY <1>3, <1>5, <1>8
<1>10. treasury + Deposit \in Nat /\ treasury + Deposit >= Treasury + Fee * n + Deposit * d
  <2>1. treasury \in Nat /\ treasury >= Treasury + Fee * n + Deposit * c /\ d <= c + 1
    BY <1>8, <1>9 DEF MoneyHolds, U
  <2>2. Deposit * (c + 1) = Deposit * c + Deposit /\ Fee * n \in Nat /\ Deposit * c \in Nat
    BY <1>2
  <2>3. Deposit * d <= Deposit * (c + 1) /\ Deposit * d \in Nat
    <3>1. PICK r \in Nat : c + 1 = d + r
      BY <2>1
    <3>2. Deposit * (d + r) = Deposit * d + Deposit * r /\ Deposit * r \in Nat /\ Deposit * d \in Nat
      BY <1>2
    <3> QED
      BY <3>1, <3>2
  <2> QED
    BY <1>2, <2>1, <2>2, <2>3
<1> QED
  BY <1>1, <1>4, <1>9, <1>10 DEF MoneyHolds, W

LEMMA CampaignPaid ==
  ASSUME MoneyHolds, CandidaciesHold, Queued, NEW x \in queue, Campaign(x)
  PROVE  MoneyHolds'
<1>1. /\ cash' = [cash EXCEPT ![x[2]] = @ - Paid(x)] /\ outlet' = outlet + Paid(x)
      /\ UNCHANGED <<treasury, parties>> /\ cash[x[2]] >= Paid(x) /\ x[1] = "campaign"
  BY DEF Campaign, Resolve, Resolvable, partyVars
<1>2. x[2] \in Agents /\ Paid(x) \in Nat
  BY <1>1, PolityAssumption DEF Queued, Paid, Spent
<1>3. cash' \in [Agents -> Nat] /\ outlet' \in Nat
  <2>1. cash[x[2]] - Paid(x) \in Nat
    BY <1>1, <1>2 DEF MoneyHolds
  <2> QED
    BY <1>1, <1>2, <2>1 DEF MoneyHolds
<1>4. Unrefunded(candidacies') = Unrefunded(candidacies)
  <2>1. PICK v : candidacies' = [candidacies EXCEPT ![<<x[3], x[4]>>] =
                                    [candidacies[<<x[3], x[4]>>] EXCEPT !.spend = v]]
    BY DEF Campaign
  <2>2. DOMAIN candidacies' = DOMAIN candidacies
    BY <2>1
  <2>3. ASSUME NEW k \in DOMAIN candidacies
        PROVE  candidacies'[k].refunded = candidacies[k].refunded
    <3>1. \/ candidacies'[k] = candidacies[k]
          \/ candidacies'[k] = [candidacies[k] EXCEPT !.spend = v]
      BY <2>1
    <3>2. DOMAIN candidacies[k] = CandidacyFields
      BY DEF CandidaciesHold, OneCandidacy
    <3> QED
      BY <3>1, <3>2 DEF CandidacyFields
  <2> QED
    BY <2>2, <2>3 DEF Unrefunded
<1> QED
  BY <1>1, <1>3, <1>4 DEF MoneyHolds

LEMMA DepositsReturned ==
  ASSUME MoneyHolds, PartiesHold, CandidaciesHold, ElectionsHold, NEW e \in DOMAIN elections, Hold(e)
  PROVE  MoneyHolds'
<1>1. PICK pending, bs, all, t : Count(e, pending, bs, all, t)
  BY DEF Hold
<1> DEFINE back == Refundable(e, t.counts)
           U == Unrefunded(candidacies)
           W == Unrefunded(candidacies')
           B == {e} \X back
<1>2. /\ cash' = [a \in Agents |-> IF a \in back THEN cash[a] + Deposit ELSE cash[a]]
      /\ treasury' = treasury - Deposit * Cardinality(back) /\ outlet' = outlet
      /\ candidacies' = Recorded(e, t)
  BY <1>1 DEF Hold, Count
<1>3. Fee \in Nat /\ Treasury \in Nat /\ Deposit \in Nat
  BY PolityAssumption
<1>4. Len(parties) \in Nat /\ Len(parties') = Len(parties)
  <2>1. parties' = [p \in DOMAIN parties |-> parties'[p]]
    BY <1>1 DEF Count, CycleClosed
  <2>2. IsSeq(parties)
    BY DEF PartiesHold, PartyLists
  <2> QED
    BY <2>1, <2>2, Rewritten
<1>5. cash' \in [Agents -> Nat]
  <2> HIDE DEF back
  <2> QED
    BY <1>2, <1>3 DEF MoneyHolds
<1>6. /\ back \subseteq Agents
      /\ \A c \in back : <<e, c>> \in DOMAIN candidacies /\ ~candidacies[<<e, c>>].refunded
  BY DEF Refundable, Candidates
<1>7. candidacies' = [k \in DOMAIN candidacies |->
            IF k[1] # e THEN candidacies[k]
            ELSE [candidacies[k] EXCEPT
                !.votes = IF k[2] \in DOMAIN t.counts THEN t.counts[k[2]] ELSE @,
                !.refunded = @ \/ k[2] \in back]]
  BY <1>2 DEF Recorded
<1> HIDE DEF back
<1>8. IsFiniteSet(back) /\ Cardinality(back) \in Nat
  <2>1. IsFiniteSet(back)
    BY <1>6, PolityAssumption, FS_Subset
  <2> QED
    BY <2>1, FS_CardinalityType
<1>9. IsFiniteSet(U) /\ Cardinality(U) \in Nat
  BY CandidaciesFinite, CardinalityNat
<1>10. B \subseteq U
  BY <1>6 DEF Unrefunded
<1>11. W \subseteq U \ B
  <2> SUFFICES ASSUME NEW k \in W
               PROVE  k \in U \ B
    OBVIOUS
  <2>1. k \in DOMAIN candidacies /\ ~candidacies'[k].refunded
    BY <1>7 DEF Unrefunded
  <2>2. CASE k[1] # e
    <3>1. candidacies'[k] = candidacies[k]
      BY <1>7, <2>1, <2>2
    <3> QED
      BY <2>1, <2>2, <3>1 DEF Unrefunded
  <2>3. CASE k[1] = e
    <3>1. PICK votes, refunded :
              /\ refunded = (candidacies[k].refunded \/ k[2] \in back)
              /\ candidacies'[k] = [candidacies[k] EXCEPT !.votes = votes, !.refunded = refunded]
      BY <1>7, <2>1, <2>3
    <3>2. DOMAIN candidacies[k] = CandidacyFields
      BY <2>1 DEF CandidaciesHold, OneCandidacy
    <3>3. candidacies'[k].refunded = refunded
      BY <3>1, <3>2 DEF CandidacyFields
    <3>4. ~candidacies[k].refunded /\ k[2] \notin back
      BY <2>1, <3>1, <3>3, Zenon
    <3> QED
      BY <2>1, <3>4 DEF Unrefunded
  <2> QED
    BY <2>2, <2>3
<1>12. IsFiniteSet(B) /\ Cardinality(B) = Cardinality(back)
  <2>1. IsFiniteSet({e}) /\ Cardinality({e}) = 1
    BY FS_Singleton
  <2>2. IsFiniteSet(B) /\ Cardinality(B) = Cardinality({e}) * Cardinality(back)
    BY <1>8, <2>1, FS_Product
  <2> QED
    BY <1>8, <2>1, <2>2
<1> HIDE DEF U, W, B
<1>13. /\ IsFiniteSet(U \ B) /\ Cardinality(U \ B) = Cardinality(U) - Cardinality(B)
  <2>1. U \cap B = B
    BY <1>10
  <2> QED
    BY <1>9, <2>1, FS_Difference
<1>14. Cardinality(W) \in Nat /\ Cardinality(W) <= Cardinality(U) - Cardinality(back)
  <2>1. IsFiniteSet(W) /\ Cardinality(W) <= Cardinality(U \ B)
    BY <1>11, <1>13, FS_Subset
  <2>2. Cardinality(W) \in Nat
    BY <2>1, FS_CardinalityType
  <2> QED
    BY <1>12, <1>13, <2>1, <2>2
<1>15. PICK n \in Nat, c \in Nat, d \in Nat, b \in Nat :
          /\ n = Len(parties) /\ c = Cardinality(U) /\ d = Cardinality(W) /\ b = Cardinality(back)
  BY <1>4, <1>8, <1>9, <1>14
<1>16. /\ treasury - Deposit * b \in Nat
       /\ treasury - Deposit * b >= Treasury + Fee * n + Deposit * d
  <2>1. treasury \in Nat /\ treasury >= Treasury + Fee * n + Deposit * c
    BY <1>15 DEF MoneyHolds, U
  <2>2. PICK r \in Nat : c = d + b + r
    <3>1. d <= c - b
      BY <1>14, <1>15
    <3>2. c - b - d \in Nat /\ c = d + b + (c - b - d)
      BY <3>1
    <3> QED
      BY <3>2
  <2>3. /\ Deposit * c = Deposit * d + Deposit * b + Deposit * r
        /\ Deposit * d \in Nat /\ Deposit * b \in Nat /\ Deposit * r \in Nat /\ Fee * n \in Nat
    BY <1>3, <2>2
  <2> QED
    BY <1>3, <2>1, <2>3
<1> QED
  BY <1>2, <1>4, <1>5, <1>15, <1>16 DEF MoneyHolds, W

-----------------------------------------------------------------------------
(* The offices, the clock and the agents *)

Terms == [start : 0..NoTick, end : 0..NoTick]

HoldersHold == holders \in [Offices -> [Agents -> Terms]]

ClockHolds ==
    /\ tick \in 0..LastTick /\ inputs \in 0..MaxInputs
    /\ stage \in {"gate", "resolve", "officials", "session", "raised"}
    /\ alive \subseteq Agents /\ jailed \subseteq Agents

LEMMA TermFits ==
  ASSUME tick \in 0..LastTick, NEW o \in Offices
  PROVE  [start |-> tick, end |-> IF Term[o] = NoTick THEN NoTick ELSE tick + Term[o]] \in Terms
<1>1. /\ LastTick \in Nat /\ LastTick < NoTick /\ Term[o] \in Nat
      /\ Term[o] = NoTick \/ LastTick + Term[o] <= NoTick
  BY PolityAssumption DEF NoTick
<1>2. tick \in 0..NoTick
  BY <1>1 DEF NoTick
<1>3. (IF Term[o] = NoTick THEN NoTick ELSE tick + Term[o]) \in 0..NoTick
  BY <1>1 DEF NoTick
<1> QED
  BY <1>2, <1>3 DEF Terms

LEMMA AssumedTyped ==
  ASSUME tick \in 0..LastTick, NEW hs \in [Offices -> [Agents -> Terms]], NEW o, NEW a
  PROVE  Assumed(hs, o, a) \in [Offices -> [Agents -> Terms]]
<1> DEFINE term == [start |-> tick, end |-> IF Term[o] = NoTick THEN NoTick ELSE tick + Term[o]]
<1>1. Assumed(hs, o, a) = [hs EXCEPT ![o] = [hs[o] EXCEPT ![a] = term]]
  BY DEF Assumed
<1>2. CASE o \in Offices
  <2>1. term \in Terms
    BY <1>2, TermFits
  <2> HIDE DEF term
  <2> QED
    BY <1>1, <1>2, <2>1
<1>3. CASE o \notin Offices
  <2> HIDE DEF term
  <2> QED
    BY <1>1, <1>3
<1> QED
  BY <1>2, <1>3

LEMMA VacatedTyped ==
  ASSUME tick \in 0..LastTick, HoldersHold, NEW o, NEW a, NEW reason
  PROVE  Vacated(o, a, reason) \in [Offices -> [Agents -> Terms]]
<1> DEFINE hs == [holders EXCEPT ![o][a].end = tick]
<1>1. hs \in [Offices -> [Agents -> Terms]]
  <2>1. ASSUME NEW z \in Terms
        PROVE  [z EXCEPT !.end = tick] \in Terms
    <3>1. tick \in 0..NoTick
      BY PolityAssumption DEF NoTick
    <3> QED
      BY <3>1 DEF Terms
  <2>2. CASE o \in Offices /\ a \in Agents
    <3>1. holders[o][a] \in Terms
      BY <2>2 DEF HoldersHold
    <3>2. [holders[o][a] EXCEPT !.end = tick] \in Terms
      BY <2>1, <3>1
    <3> QED
      BY <2>2, <3>2 DEF HoldersHold
  <2>3. CASE o \notin Offices
    BY <2>3 DEF HoldersHold
  <2>4. CASE o \in Offices /\ a \notin Agents
    BY <2>4 DEF HoldersHold
  <2> QED
    BY <2>2, <2>3, <2>4
<1> HIDE DEF hs
<1>2. \A s : Assumed(hs, "president", s) \in [Offices -> [Agents -> Terms]]
  BY <1>1, AssumedTyped
<1>3. Vacated(o, a, reason) = hs \/ \E s : Vacated(o, a, reason) = Assumed(hs, "president", s)
  BY DEF Vacated, hs
<1> QED
  BY <1>1, <1>2, <1>3

LEMMA ElectedTyped ==
  ASSUME tick \in 0..LastTick, HoldersHold, NEW o, NEW winners
  PROVE  Elected(o, winners) \in [Offices -> [Agents -> Terms]]
<1>1. ASSUME NEW a \in Agents, o \in Offices
      PROVE  Assumed(holders, o, a)[o][a] \in Terms /\ holders[o][a] \in Terms
  <2>1. Assumed(holders, o, a) \in [Offices -> [Agents -> Terms]]
    BY AssumedTyped DEF HoldersHold
  <2> QED
    BY <1>1, <2>1 DEF HoldersHold
<1>2. PICK f : f = [a \in Agents |-> IF a \in winners THEN Assumed(holders, o, a)[o][a]
                                     ELSE holders[o][a]]
  OBVIOUS
<1>3. o \in Offices => f \in [Agents -> Terms]
  BY <1>1, <1>2
<1>4. Elected(o, winners) = [holders EXCEPT ![o] = f]
  BY <1>2 DEF Elected
<1> QED
  BY <1>3, <1>4 DEF HoldersHold

LEMMA ClockStep ==
  ASSUME ClockHolds, [Next]_vars
  PROVE  ClockHolds'
<1> USE PolityAssumption DEF ClockHolds
<1>1. CASE Submit
  BY <1>1 DEF Submit, agentVars
<1>2. CASE EndGate \/ EndResolve \/ BeginSession
  BY <1>2 DEF EndGate, EndResolve, BeginSession, agentVars
<1>3. CASE \E x \in queue : \/ Found(x) \/ Join(x) \/ Announce(x) \/ Campaign(x) \/ Vote(x)
                            \/ Propose(x) \/ Raise(x)
  <2>1. UNCHANGED <<tick, inputs, alive, jailed>> /\ (stage' = stage \/ stage' = "raised")
    BY <1>3 DEF Found, Join, Announce, Campaign, Vote, Propose, Raise, agentVars
  <2> QED
    BY <2>1
<1>4. CASE \E x \in Steps : Call(x) \/ Appoint(x) \/ Remove(x)
  <2>1. UNCHANGED <<tick, stage, alive, jailed>> /\ inputs' = inputs + 1 /\ inputs < MaxInputs
    BY <1>4 DEF Call, Appoint, Remove, Step, agentVars
  <2> QED
    BY <2>1
<1>5. CASE \E x \in Steps : Leaves(x)
  <2>1. PICK x \in Steps : Leaves(x)
    BY <1>5
  <2>2. UNCHANGED <<tick, stage>> /\ inputs' = inputs + 1 /\ inputs < MaxInputs /\ x[2] \in alive
    BY <2>1 DEF Leaves, Step, Free
  <2>3. alive' \subseteq alive /\ jailed' \subseteq jailed \cup {x[2]}
    BY <2>1 DEF Leaves
  <2> QED
    BY <2>2, <2>3
<1>6. CASE \E e \in DOMAIN elections : Hold(e) \/ Rerun(e)
  BY <1>6 DEF Hold, Rerun, clockVars, agentVars
<1>7. CASE \E i \in DOMAIN proposals : Block(i) \/ EnactByGovernor(i)
  BY <1>7 DEF Block, EnactByGovernor, Decide, clockVars, agentVars
<1>8. CASE \E i \in DOMAIN proposals : \E yeas \in 0..Members : \E nays \in 0..(Members - yeas) :
             Reject(i, yeas, nays) \/ Veto(i, yeas, nays) \/ EnactByCouncil(i, yeas, nays)
  BY <1>8 DEF Reject, Veto, EnactByCouncil, CouncilVote, Decide, clockVars, agentVars
<1>9. CASE EndTick
  BY <1>9 DEF EndTick, agentVars
<1>10. CASE Ended \/ UNCHANGED vars
  BY <1>10 DEF Ended, vars, clockVars, agentVars
<1> QED
  BY <1>1, <1>2, <1>3, <1>4, <1>5, <1>6, <1>7, <1>8, <1>9, <1>10 DEF Next

LEMMA HoldersStep ==
  ASSUME HoldersHold, tick \in 0..LastTick, [Next]_vars
  PROVE  HoldersHold'
<1>1. ASSUME UNCHANGED holders
      PROVE  HoldersHold'
  BY <1>1 DEF HoldersHold
<1>2. CASE Submit \/ EndGate \/ EndResolve \/ BeginSession \/ EndTick
  BY <1>1, <1>2 DEF Submit, EndGate, EndResolve, BeginSession, EndTick
<1>3. CASE \E x \in queue : \/ Found(x) \/ Join(x) \/ Announce(x) \/ Campaign(x) \/ Vote(x)
                            \/ Propose(x) \/ Raise(x)
  BY <1>1, <1>3 DEF Found, Join, Announce, Campaign, Vote, Propose, Raise
<1>4. CASE \E x \in Steps : Call(x)
  BY <1>1, <1>4 DEF Call
<1>5. CASE \E x \in Steps : Appoint(x)
  <2>1. \E o, a : holders' = Assumed(holders, o, a)
    BY <1>5 DEF Appoint
  <2> QED
    BY <2>1, AssumedTyped DEF HoldersHold
<1>6. CASE \E x \in Steps : Remove(x) \/ Leaves(x)
  <2>1. holders' = holders \/ \E o, a, reason : holders' = Vacated(o, a, reason)
    BY <1>6 DEF Remove, Leaves
  <2> QED
    BY <1>1, <2>1, VacatedTyped DEF HoldersHold
<1>7. CASE \E e \in DOMAIN elections : Hold(e)
  <2>1. \E o, winners : holders' = Elected(o, winners)
    BY <1>7 DEF Hold, Count
  <2> QED
    BY <2>1, ElectedTyped DEF HoldersHold
<1>8. CASE \E e \in DOMAIN elections : Rerun(e)
  BY <1>1, <1>8 DEF Rerun
<1>9. CASE \E i \in DOMAIN proposals : Block(i) \/ EnactByGovernor(i)
  BY <1>1, <1>9 DEF Block, EnactByGovernor, Decide
<1>10. CASE \E i \in DOMAIN proposals : \E yeas \in 0..Members : \E nays \in 0..(Members - yeas) :
              Reject(i, yeas, nays) \/ Veto(i, yeas, nays) \/ EnactByCouncil(i, yeas, nays)
  BY <1>1, <1>10 DEF Reject, Veto, EnactByCouncil, CouncilVote, Decide
<1>11. CASE Ended \/ UNCHANGED vars
  BY <1>1, <1>11 DEF Ended, vars
<1> QED
  BY <1>2, <1>3, <1>4, <1>5, <1>6, <1>7, <1>8, <1>9, <1>10, <1>11 DEF Next

-----------------------------------------------------------------------------
(* All registers *)

IInv ==
    /\ ClockHolds /\ Queued /\ HoldersHold
    /\ PartiesHold /\ ElectionsHold /\ CandidaciesHold /\ MoneyHolds
    /\ PoliciesHold

Counts == ElectionsHold /\ CandidaciesHold /\ MoneyHolds

\* A step that touches no election, candidacy or account.
Quiet ==
    /\ UNCHANGED <<cash, treasury, outlet, elections, candidacies, ballots, results>>
    /\ tables'.elections = tables.elections /\ tables'.candidacies = tables.candidacies
    /\ queue' \subseteq queue /\ Moves /\ Len(parties') = Len(parties)

LEMMA QuietKeeps ==
  ASSUME IInv, Quiet
  PROVE  Counts'
<1>1. tick \in Int
  BY PolityAssumption DEF IInv, ClockHolds
<1>2. ElectionsHold'
  BY <1>1, ElectionsKept DEF IInv, Quiet
<1>3. CandidaciesHold'
  BY CandidaciesKept DEF IInv, Quiet
<1>4. MoneyHolds'
  BY MoneyKept DEF IInv, Quiet
<1> QED
  BY <1>2, <1>3, <1>4 DEF Counts

LEMMA CountsStep ==
  ASSUME IInv, [Next]_vars
  PROVE  Counts'
<1>a. /\ tick \in Int /\ TablesShaped /\ Queued /\ PartiesHold /\ ElectionsHold
      /\ CandidaciesHold /\ MoneyHolds
  BY PolityAssumption DEF IInv, ClockHolds, PoliciesHold, TablesShaped
<1>b. DOMAIN tables = {"parties", "elections", "candidacies", "policies"} /\ IsSeq(parties)
  BY <1>a DEF TablesShaped, PartiesHold, PartyLists
<1>1. CASE Submit
  <2>1. ElectionsHold'
    BY <1>a, <1>1, ActionQueued
  <2>2. UNCHANGED <<cash, treasury, outlet, elections, candidacies, tables, parties>>
    BY <1>1 DEF Submit, moneyVars, electionVars, partyVars
  <2>3. CandidaciesHold'
    BY <1>a, <2>2, CandidaciesKept
  <2>4. MoneyHolds'
    BY <1>a, <2>2, MoneyKept
  <2> QED
    BY <2>1, <2>3, <2>4 DEF Counts
<1>2. CASE EndGate \/ EndResolve
  <2>1. Quiet
    BY <1>2 DEF EndGate, EndResolve, Quiet, Moves, Early, moneyVars, electionVars, partyVars
  <2> QED
    BY <2>1, QuietKeeps
<1>3. CASE \E x \in queue : Found(x)
  <2>1. PICK x \in queue : Found(x)
    BY <1>3
  <2>2. /\ UNCHANGED <<tick, stage, elections, candidacies, ballots, results>> /\ queue' \subseteq queue
        /\ \E v : tables' = [tables EXCEPT !.parties = v]
    BY <2>1 DEF Found, Resolve, Turn, electionVars
  <2>3. tables'.elections = tables.elections /\ tables'.candidacies = tables.candidacies
    BY <1>b, <2>2
  <2>4. ElectionsHold'
    BY <1>a, <2>2, <2>3, ElectionsKept DEF Moves
  <2>5. CandidaciesHold'
    BY <1>a, <2>2, <2>3, CandidaciesKept
  <2>6. MoneyHolds'
    BY <1>a, <2>1, FeePaid
  <2> QED
    BY <2>4, <2>5, <2>6 DEF Counts
<1>4. CASE \E x \in queue : Join(x)
  <2>1. PICK x \in queue : Join(x)
    BY <1>4
  <2>2. /\ UNCHANGED <<tick, stage, cash, treasury, outlet, elections, candidacies, ballots, results, tables>>
        /\ queue' \subseteq queue
    BY <2>1 DEF Join, Resolve, Turn, moneyVars, electionVars
  <2>3. Len(parties') = Len(parties)
    <3>1. CASE membership[x[2]] = x[3]
      BY <2>1, <3>1 DEF Join, partyVars
    <3>2. CASE membership[x[2]] # x[3]
      <4>1. PICK a \in Agents, p \in Live : a = x[2] /\ p = x[3]
        BY <1>a, <2>1, PolityAssumption DEF Join, Resolve, Resolvable, Queued
      <4>2. parties' = Joined(parties, a, p)
        BY <2>1, <3>2, <4>1 DEF Join
      <4>3. Switched(parties, parties', a, p, membership[a])
        BY <1>a, <3>2, <4>1, <4>2, JoinedSwitches
      <4>4. parties' = [q \in DOMAIN parties |-> parties'[q]]
        BY <4>3 DEF Switched
      <4> QED
        BY <1>b, <4>4, Rewritten
    <3> QED
      BY <3>1, <3>2
  <2>4. Quiet
    BY <2>2, <2>3 DEF Quiet, Moves
  <2> QED
    BY <2>4, QuietKeeps
<1>5. CASE \E x \in queue : Announce(x)
  <2>1. PICK x \in queue : Announce(x)
    BY <1>5
  <2>2. /\ UNCHANGED <<tick, stage, elections, ballots, results>> /\ queue' \subseteq queue
        /\ \E v : tables' = [tables EXCEPT !.candidacies = v]
    BY <2>1 DEF Announce, Resolve, Turn
  <2>3. tables'.elections = tables.elections
    BY <1>b, <2>2
  <2>4. ElectionsHold'
    BY <1>a, <2>2, <2>3, ElectionsKept DEF Moves
  <2>5. CandidaciesHold'
    BY <1>a, <2>1, CandidacyAnnounced
  <2>6. MoneyHolds'
    BY <1>a, <2>1, DepositPaid
  <2> QED
    BY <2>4, <2>5, <2>6 DEF Counts
<1>6. CASE \E x \in queue : Campaign(x)
  <2>1. PICK x \in queue : Campaign(x)
    BY <1>6
  <2>2. /\ UNCHANGED <<tick, stage, elections, ballots, results>> /\ queue' \subseteq queue
        /\ \E v : tables' = [tables EXCEPT !.candidacies[<<x[3], x[4]>>].spend = v]
    BY <2>1 DEF Campaign, Resolve, Turn
  <2>3. tables'.elections = tables.elections
    BY <1>b, <2>2
  <2>4. ElectionsHold'
    BY <1>a, <2>2, <2>3, ElectionsKept DEF Moves
  <2>5. CandidaciesHold'
    BY <1>a, <2>1, CandidateCampaigns
  <2>6. MoneyHolds'
    BY <1>a, <2>1, CampaignPaid
  <2> QED
    BY <2>4, <2>5, <2>6 DEF Counts
<1>7. CASE \E x \in queue : Vote(x)
  <2>1. PICK x \in queue : Vote(x)
    BY <1>7
  <2>2. UNCHANGED <<cash, treasury, outlet, elections, candidacies, tables, parties>>
    BY <2>1 DEF Vote, moneyVars, partyVars
  <2>3. ElectionsHold'
    BY <1>a, <2>1, BallotCast
  <2>4. CandidaciesHold'
    BY <1>a, <2>2, CandidaciesKept
  <2>5. MoneyHolds'
    BY <1>a, <2>2, MoneyKept
  <2> QED
    BY <2>3, <2>4, <2>5 DEF Counts
<1>8. CASE \E x \in queue : Propose(x) \/ Raise(x)
  <2>1. Quiet
    BY <1>8 DEF Propose, Raise, Resolve, Turn, Quiet, Moves, Early, moneyVars, electionVars, partyVars
  <2> QED
    BY <2>1, QuietKeeps
<1>9. CASE \E x \in Steps : Appoint(x) \/ Remove(x) \/ Leaves(x)
  <2>1. Quiet
    BY <1>9 DEF Appoint, Remove, Leaves, Step, Quiet, Moves, moneyVars, electionVars, partyVars
  <2> QED
    BY <2>1, QuietKeeps
<1>10. CASE \E x \in Steps : Call(x)
  <2>1. PICK x \in Steps : Call(x)
    BY <1>10
  <2>2. /\ UNCHANGED <<cash, treasury, outlet, candidacies, parties>>
        /\ \E v : tables' = [tables EXCEPT !.elections = v]
        /\ \E v : elections' = Append(elections, v)
    BY <2>1 DEF Call, moneyVars, partyVars
  <2>3. tables'.candidacies = tables.candidacies
    BY <1>b, <2>2
  <2>4. /\ DOMAIN elections \subseteq DOMAIN elections'
        /\ \A e \in DOMAIN elections : elections'[e] = elections[e]
    <3>1. IsSeq(elections)
      BY <1>a DEF ElectionsHold
    <3>2. /\ DOMAIN elections = 1..Len(elections) /\ DOMAIN elections' = 1..(Len(elections) + 1)
          /\ Len(elections) \in Nat /\ \A e \in DOMAIN elections : elections'[e] = elections[e]
      BY <2>2, <3>1, Appended
    <3> QED
      BY <3>2
  <2>5. ElectionsHold'
    BY <1>a, <2>1, ElectionCalled
  <2>6. CandidaciesHold'
    BY <1>a, <2>2, <2>3, <2>4, CandidaciesKept
  <2>7. MoneyHolds'
    BY <1>a, <2>2, MoneyKept
  <2> QED
    BY <2>5, <2>6, <2>7 DEF Counts
<1>11. CASE \E e \in DOMAIN elections : Hold(e)
  <2>1. PICK e \in DOMAIN elections : Hold(e)
    BY <1>11
  <2>2. ElectionsHold'
    BY <1>a, <2>1, ElectionHeld
  <2>3. CandidaciesHold'
    <3>1. PICK pending, bs, all, t : Count(e, pending, bs, all, t)
      BY <2>1 DEF Hold
    <3> QED
      BY <1>a, <3>1, CandidatesCounted
  <2>4. MoneyHolds'
    BY <1>a, <2>1, DepositsReturned
  <2> QED
    BY <2>2, <2>3, <2>4 DEF Counts
<1>12. CASE \E e \in DOMAIN elections : Rerun(e)
  <2>1. PICK e \in DOMAIN elections : Rerun(e)
    BY <1>12
  <2>2. /\ UNCHANGED <<cash, treasury, outlet, candidacies, parties>>
        /\ \E v : tables' = [tables EXCEPT !.elections[e] = v]
        /\ \E v : elections' = [elections EXCEPT ![e] = v]
    BY <2>1 DEF Rerun, moneyVars, partyVars
  <2>3. tables'.candidacies = tables.candidacies
    BY <1>b, <2>2
  <2>4. ElectionsHold' /\ elections'[e].resolved = elections[e].resolved
    BY <1>a, <2>1, ElectionAgain
  <2>5. /\ DOMAIN elections \subseteq DOMAIN elections'
        /\ \A d \in DOMAIN elections : elections'[d].resolved = elections[d].resolved
    <3>1. DOMAIN elections' = DOMAIN elections /\ \A d \in DOMAIN elections : d # e => elections'[d] = elections[d]
      BY <2>2
    <3> QED
      BY <2>4, <3>1
  <2>6. CandidaciesHold'
    BY <1>a, <2>2, <2>3, <2>5, CandidaciesKept
  <2>7. MoneyHolds'
    BY <1>a, <2>2, MoneyKept
  <2> QED
    BY <2>4, <2>6, <2>7 DEF Counts
<1>13. CASE BeginSession
  <2>1. ElectionsHold'
    BY <1>a, <1>13, SessionOpens
  <2>2. UNCHANGED <<cash, treasury, outlet, elections, candidacies, tables, parties>>
    BY <1>13 DEF BeginSession, moneyVars, partyVars
  <2>3. CandidaciesHold'
    BY <1>a, <2>2, CandidaciesKept
  <2>4. MoneyHolds'
    BY <1>a, <2>2, MoneyKept
  <2> QED
    BY <2>1, <2>3, <2>4 DEF Counts
<1>14. ASSUME NEW i, Decide(i), tables' = tables \/ \E p, v : tables' = [tables EXCEPT !.policies[p] = v]
       PROVE  Counts'
  <2>1. tables'.elections = tables.elections /\ tables'.candidacies = tables.candidacies
    BY <1>b, <1>14
  <2>2. Quiet
    BY <1>14, <2>1 DEF Decide, Quiet, Moves, clockVars, moneyVars, electionVars, partyVars
  <2> QED
    BY <2>2, QuietKeeps
<1>15. CASE \E i \in DOMAIN proposals : Block(i) \/ EnactByGovernor(i)
  BY <1>14, <1>15 DEF Block, EnactByGovernor, Enact
<1>16. CASE \E i \in DOMAIN proposals : \E yeas \in 0..Members : \E nays \in 0..(Members - yeas) :
              Reject(i, yeas, nays) \/ Veto(i, yeas, nays) \/ EnactByCouncil(i, yeas, nays)
  <2>1. PICK i, yeas, nays :
              Reject(i, yeas, nays) \/ Veto(i, yeas, nays) \/ EnactByCouncil(i, yeas, nays)
    BY <1>16
  <2> QED
    BY <1>14, <2>1 DEF Reject, Veto, EnactByCouncil, CouncilVote, Enact
<1>17. CASE EndTick
  <2>1. /\ UNCHANGED <<queue, cash, treasury, outlet, elections, candidacies, ballots, results>>
        /\ tick' = tick + 1
        /\ \E v : tables' = [tables EXCEPT !.parties = v] /\ parties' = [p \in DOMAIN parties |-> parties'[p]]
    BY <1>17 DEF EndTick, moneyVars, electionVars
  <2>2. tables'.elections = tables.elections /\ tables'.candidacies = tables.candidacies
    BY <1>b, <2>1
  <2>3. Len(parties') = Len(parties)
    BY <1>b, <2>1, Rewritten
  <2>4. Quiet
    BY <2>1, <2>2, <2>3 DEF Quiet, Moves
  <2> QED
    BY <2>4, QuietKeeps
<1>18. CASE Ended \/ UNCHANGED vars
  <2>1. Quiet
    BY <1>18 DEF Ended, vars, Quiet, Moves, clockVars, moneyVars, electionVars, partyVars
  <2> QED
    BY <2>1, QuietKeeps
<1> QED
  BY <1>1, <1>2, <1>3, <1>4, <1>5, <1>6, <1>7, <1>8, <1>9, <1>10, <1>11, <1>12, <1>13, <1>15, <1>16,
     <1>17, <1>18 DEF Next

LEMMA InvInit ==
  ASSUME Init
  PROVE  IInv
<1>1. PICK office, method :
        /\ elections = <<Election(office, method, Agents)>>
        /\ tables = [parties |-> <<>>, elections |-> <<ElectionRow(elections[1])>>,
                     candidacies |-> <<>>, policies |-> [p \in Params |-> <<>>]]
  BY DEF Init
<1>2. /\ tick = 0 /\ stage = "gate" /\ queue = {} /\ inputs = 0
      /\ alive = Agents /\ jailed = {}
      /\ cash = [a \in Agents |-> Cash] /\ treasury = Treasury /\ outlet = 0
      /\ parties = <<>> /\ membership = [a \in Agents |-> None]
      /\ candidacies = <<>> /\ ballots = <<>> /\ results = <<>>
      /\ holders = [o \in Offices |-> [a \in Agents |-> [start |-> NoTick, end |-> NoTick]]]
  BY DEF Init
<1>3. /\ tables.parties = <<>> /\ tables.elections = <<ElectionRow(elections[1])>>
      /\ tables.candidacies = <<>>
  BY <1>1
<1>4. IsSeq(<<>>) /\ Len(<<>>) = 0 /\ DOMAIN <<>> = {}
  BY DEF IsSeq, Range
<1>5. ClockHolds /\ Queued
  BY <1>2, PolityAssumption DEF ClockHolds, Queued
<1>6. HoldersHold
  <2>1. [start |-> NoTick, end |-> NoTick] \in Terms
    BY DEF Terms, NoTick
  <2> QED
    BY <1>2, <2>1 DEF HoldersHold
<1>7. PartiesHold
  <2>1. \A a \in Agents : membership[a] = None
    BY <1>2
  <2>2. tables.parties = [p \in DOMAIN parties |-> PartyRow(parties[p])]
    BY <1>2, <1>3, <1>4
  <2>3. membership \in [Agents -> DOMAIN parties \cup {None}]
    BY <1>2
  <2> QED
    BY <1>2, <1>4, <2>1, <2>2, <2>3 DEF PartiesHold, PartyLists
<1>8. ElectionsHold
  <2>1. PICK el : el = Election(office, method, Agents)
    OBVIOUS
  <2>2. elections = <<el>> /\ tables.elections = <<ElectionRow(el)>>
    BY <1>1, <1>3, <2>1
  <2>3. OneElection(el, ElectionRow(el), tick, stage)
    BY <1>2, <2>1, ElectionIsSound
  <2>4. \A z : IsSeq(<<z>>) /\ Len(<<z>>) = 1 /\ DOMAIN <<z>> = {1} /\ <<z>>[1] = z
    BY DEF IsSeq, Range
  <2>5. /\ IsSeq(elections) /\ IsSeq(tables.elections) /\ Len(tables.elections) = Len(elections)
        /\ DOMAIN elections = {1} /\ elections[1] = el /\ tables.elections[1] = ElectionRow(el)
    BY <2>2, <2>4
  <2> QED
    BY <1>2, <1>4, <2>3, <2>5 DEF ElectionsHold
<1>9. CandidaciesHold
  BY <1>2, <1>3, <1>4 DEF CandidaciesHold
<1>10. MoneyHolds
  <2>1. Unrefunded(candidacies) = {}
    BY <1>2, <1>4 DEF Unrefunded
  <2>2. Cardinality(Unrefunded(candidacies)) = 0
    BY <2>1, FS_EmptySet
  <2>3. Cash \in Nat /\ Treasury \in Nat /\ Fee \in Nat /\ Deposit \in Nat
    BY PolityAssumption
  <2>4. Treasury >= Treasury + Fee * 0 + Deposit * 0
    BY <2>3
  <2> QED
    BY <1>2, <1>4, <2>2, <2>3, <2>4 DEF MoneyHolds
<1>11. PoliciesHold
  BY PoliciesInit
<1> QED
  BY <1>5, <1>6, <1>7, <1>8, <1>9, <1>10, <1>11 DEF IInv

LEMMA InvStep ==
  ASSUME IInv, [Next]_vars
  PROVE  IInv'
<1>1. tick \in Nat /\ tick <= LastTick /\ TablesShaped
  BY DEF IInv, PoliciesHold, TablesShaped
<1>2. ClockHolds'
  BY ClockStep DEF IInv
<1>3. Queued'
  BY QueueStep DEF IInv
<1>4. HoldersHold'
  BY HoldersStep DEF IInv, ClockHolds
<1>5. PartiesHold'
  BY <1>1, PartiesStep DEF IInv
<1>6. ElectionsHold' /\ CandidaciesHold' /\ MoneyHolds'
  BY CountsStep DEF Counts
<1>7. PoliciesHold'
  BY PoliciesStep DEF IInv
<1> QED
  BY <1>2, <1>3, <1>4, <1>5, <1>6, <1>7 DEF IInv

LEMMA TypesHold ==
  ASSUME IInv
  PROVE  TypeOK
<1>1. /\ tick \in 0..LastTick /\ inputs \in 0..MaxInputs
      /\ stage \in {"gate", "resolve", "officials", "session", "raised"}
      /\ queue \subseteq Actions /\ alive \subseteq Agents /\ jailed \subseteq Agents
  BY DEF IInv, ClockHolds, Queued
<1>2. cash \in [Agents -> Nat] /\ treasury \in Nat /\ outlet \in Nat
  BY DEF IInv, MoneyHolds
<1>3. /\ membership \in [Agents -> DOMAIN parties \cup {None}]
      /\ \A p \in DOMAIN parties : parties[p].members \in [Agents -> Nat]
  BY DEF IInv, PartiesHold, PartyLists
<1>4. DOMAIN candidacies \cup DOMAIN ballots \subseteq (DOMAIN elections) \X Agents
  BY DEF IInv, CandidaciesHold, ElectionsHold
<1>5. holders \in [Offices -> [Agents -> [start : 0..NoTick, end : 0..NoTick]]]
  BY DEF IInv, HoldersHold, Terms
<1> QED
  BY <1>1, <1>2, <1>3, <1>4, <1>5 DEF TypeOK

LEMMA ListsHold ==
  ASSUME IInv
  PROVE  MembersListed /\ DepositsHeld
<1>1. PartyLists(parties, membership, tables.parties)
  BY DEF IInv, PartiesHold
<1>2. ASSUME NEW a \in Agents, membership[a] # None
      PROVE  membership[a] \in Live /\ a \in Listed(parties[membership[a]].members)
  <2>1. membership[a] \in DOMAIN parties
    BY <1>1, <1>2 DEF PartyLists
  <2>2. /\ parties[membership[a]].dissolved = NoTick /\ parties[membership[a]].members[a] > 0
    BY <1>1, <1>2 DEF PartyLists
  <2> QED
    BY <2>1, <2>2 DEF Live, Listed
<1>3. ASSUME NEW p \in Live, NEW a \in Listed(parties[p].members)
      PROVE  membership[a] = p \/ \E q \in DOMAIN parties : parties[q].founder = a
  <2>1. /\ p \in DOMAIN parties /\ parties[p].dissolved = NoTick
        /\ a \in Agents /\ parties[p].members[a] > 0
    BY DEF Live, Listed
  <2> QED
    BY <1>1, <2>1 DEF PartyLists
<1>4. MembersListed
  BY <1>2, <1>3 DEF MembersListed
<1>5. DepositsHeld
  BY DEF IInv, MoneyHolds, DepositsHeld, Unrefunded
<1> QED
  BY <1>4, <1>5

LEMMA TablesHold ==
  ASSUME IInv
  PROVE  TablesAgree
<1>1. tables.parties = [p \in DOMAIN parties |->
            [founded |-> parties[p].founded, dissolved |-> parties[p].dissolved]]
  BY DEF IInv, PartiesHold, PartyLists, PartyRow
<1>2. DOMAIN tables.elections = DOMAIN elections
  BY DEF IInv, ElectionsHold, IsSeq
<1>3. ASSUME NEW e \in DOMAIN elections
      PROVE  LET row == tables.elections[e]
             IN /\ row = [ElectionRow(elections[e]) EXCEPT !.winners = row.winners]
                /\ e \in DOMAIN results => row.winners = results[e].winners
                /\ ~elections[e].resolved => row.winners = {}
  <2>1. /\ OneElection(elections[e], tables.elections[e], tick, stage)
        /\ e \in DOMAIN results => tables.elections[e].winners = results[e].winners
    BY DEF IInv, ElectionsHold
  <2>2. /\ tables.elections[e] = [ElectionRow(elections[e]) EXCEPT !.winners = tables.elections[e].winners]
        /\ ~elections[e].resolved => tables.elections[e].winners = {}
    BY <2>1 DEF OneElection
  <2> QED
    BY <2>1, <2>2
<1>4. DOMAIN tables.candidacies = DOMAIN candidacies
  BY DEF IInv, CandidaciesHold
<1>5. ASSUME NEW k \in DOMAIN candidacies
      PROVE  LET row == tables.candidacies[k]
             IN /\ row.party = candidacies[k].party /\ row.votes = candidacies[k].votes
                /\ row.spend >= candidacies[k].spend
  <2>1. OneCandidacy(candidacies[k], tables.candidacies[k], elections[k[1]].resolved)
    BY DEF IInv, CandidaciesHold
  <2> QED
    BY <2>1 DEF OneCandidacy
<1>6. ASSUME NEW p \in Params, NEW i \in DOMAIN records[p]
      PROVE  LET row == tables.policies[p][i]
                 restored == i < Len(records[p]) /\ records[p][i + 1].new = records[p][i].old
             IN /\ row.old = records[p][i].old /\ row.new = records[p][i].new
                /\ row.effective = records[p][i].effective
                /\ row.repealed = IF restored THEN records[p][i].repealed ELSE NoTick
  <2>1. Rows(records[p], tables.policies[p])
    BY DEF IInv, PoliciesHold, RowsHold
  <2> QED
    BY <2>1 DEF Rows
<1> QED
  BY <1>1, <1>2, <1>3, <1>4, <1>5, <1>6 DEF TablesAgree

LEMMA InvAlways == Spec => []IInv
<1>1. IInv /\ [Next]_vars => IInv'
  BY InvStep
<1> QED
  BY <1>1, InvInit, PTL DEF Spec

\* The registers of parties, deposits and policies agree with each other and with their tables,
\* for every electorate, set of actions, method of counting and number of ticks.
THEOREM RegistersAlwaysAgree == Spec => []RegistersAgree
<1>1. IInv => RegistersAgree
  <2> SUFFICES ASSUME IInv
               PROVE  RegistersAgree
    OBVIOUS
  <2>1. OverlayIsRecord
    BY RecordsTell DEF IInv
  <2> QED
    BY <2>1, TypesHold, ListsHold, TablesHold DEF RegistersAgree
<1> QED
  BY <1>1, InvAlways, PTL

=============================================================================
