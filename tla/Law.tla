-------------------------------- MODULE Law ---------------------------------
(***************************************************************************)
(* Crime, police, courts, penalties and prison (society/law.py), driven by *)
(* the phases of society/runtime.py and paying through the adapter of      *)
(* society/ledger.py.                                                      *)
(*                                                                         *)
(* An agent has one liquid account, cash or a deposit; only accounts of    *)
(* one kind pay each other.  Crimes and receivables are numbered in the    *)
(* order they arise; their ids are hashes, so where the code walks them in *)
(* the order of ids the model takes any order.  A case id is a hash of     *)
(* filer, defendant, tick and the number of open cases: here that tuple.   *)
(* Evidence strength and skill are tenths.  The events a suit or an        *)
(* investigation may cite are a constant; what a judge answers is an input.*)
(***************************************************************************)
EXTENDS Integers, Sequences, FiniteSets, SequencesExt, FiniteSetsExt

CONSTANTS
  Agents, Chief,           \* Chief: who holds the office, Government when vacant
  Banked, Poor,            \* owners paying from deposits; agents below both wealth percentiles
  Lawyers,                 \* [counsel -> [fee, skill]]
  StartMoney, Home, Prisons,
  Evidence,                \* <<[tick, about, source, holders]>>, by event seq
  Secrets, Obligations,    \* what an insider knows; what a debtor owes
  Offences, Suits, Clients, Testimony, Offers, Incomes, Trades,  \* the inputs
  JudgeOutputs,            \* parsed answers of the JUDGE call
  Cfg,                     \* settings.law and the policy parameters
  LastTick, MaxInputs        \* bounds: ticks, and actions taken by agents

Government == "government"
NoOne == "none"
Owners == Agents \cup {Government}
CrimeTypes == {"theft", "fraud", "insider_trading", "assault", "contract_breach",
               "embezzlement", "perjury"}

ASSUME LawAssumption ==
  /\ Chief \in Owners /\ Poor \subseteq Agents /\ Banked \subseteq Owners
  /\ DOMAIN Lawyers \subseteq Agents /\ \A l \in DOMAIN Lawyers : Lawyers[l].fee \in Nat
  /\ StartMoney \in [Owners -> Nat] /\ DOMAIN Home = Agents /\ Prisons \in Seq(ToSet(Prisons))
  /\ Evidence \in Seq(ToSet(Evidence)) /\ LastTick \in Nat /\ MaxInputs \in Nat

\* What agents may try, and what a judge may answer: no amount is negative.
ASSUME InputAssumption ==
  /\ \A o \in Offences : /\ o[1] \in Agents /\ o[2] \in CrimeTypes
                         /\ o[3] \in Agents \cup {NoOne} /\ o[4] \in Nat
  /\ \A o \in Obligations : o.creditor \in Agents /\ o.amount \in Nat
  /\ \A t \in Trades : t[1] \in Agents
  /\ \A w \in Testimony : w[1] \in Agents
  /\ \A s \in Suits : /\ s[1] \in Agents /\ s[2] \in Agents /\ s[4] \in Nat /\ s[5] \in Nat
                      /\ IsFiniteSet(s[6]) /\ s[7] \in {"civil", "criminal"}
  /\ Clients \subseteq Agents
  /\ \A o \in Offers : o[1] \in Agents /\ o[2] \in Nat
  /\ \A i \in Incomes : i[1] \in Agents /\ i[2] \in Nat
  /\ \A j \in JudgeOutputs : {j.fine, j.sentence, j.damages, j.restitution} \subseteq Nat

\* Ranges go from less to more.
ASSUME SettingsAssumption ==
  /\ {Cfg.case_budget, Cfg.filing_fee, Cfg.garnishment_tenths, Cfg.prison_capacity,
      Cfg.sentencing_bp, Cfg.base_evidence} \subseteq Nat
  /\ Cfg.conviction_threshold \in 1..10
  /\ Cfg.ticks_per_day \in Nat \ {0} /\ Cfg.strength_norm \in Nat \ {0}
  /\ \A c \in CrimeTypes : LET base == Cfg.statutory[c]
                           IN  /\ {base[1], base[2], base[3], base[4]} \subseteq Nat
                               /\ base[1] <= base[2] /\ base[3] <= base[4]

VARIABLES
  tick, stage, inputs,
  todo,         \* investigations or hearings this phase may still hold
  crimes, cases,
  money, receivables,
  paid,         \* what each owner has paid on judgments (ledger entries of fines and awards)
  sentences, location, records,
  tables        \* the rows LawProjection writes from the events: crimes, cases, criminal records

vars == <<tick, stage, inputs, todo, crimes, cases, money, receivables, paid, sentences,
          location, records, tables>>
custodyVars == <<sentences, location, records>>
debtVars == <<receivables, paid>>

Least(a, b) == IF a < b THEN a ELSE b
SumOf(f) == MapThenSumSet(LAMBDA x : f[x], DOMAIN f)

-----------------------------------------------------------------------------
(* EconomyLedgerAdapter *)

compatible_balance(m, payer, payee) ==
  IF (payer \in Banked) = (payee \in Banked) THEN m[payer] ELSE 0

can_pay(payer, cents, payee) == compatible_balance(money, payer, payee) >= cents

Transfer(m, payer, payee, cents) ==
  [o \in Owners |-> m[o] - (IF o = payer THEN cents ELSE 0) + (IF o = payee THEN cents ELSE 0)]

-----------------------------------------------------------------------------
(* LawLegalityOracle: an offence is recorded, never refused *)

is_incarcerated(a) ==
  a \in DOMAIN sentences /\ sentences[a].started <= tick /\ tick < sentences[a].release

Recorded(type, perpetrator, victim, cents) ==
  Append(crimes,
         [type |-> type, tick |-> tick, perpetrator |-> perpetrator, victim |-> victim,
          amount |-> cents, detected |-> FALSE, reported |-> FALSE, investigated |-> FALSE])

CrimeRow(type, perpetrator, victim, cents) ==
  [type |-> type, tick |-> tick, perpetrator |-> perpetrator, victim |-> victim,
   amount |-> cents, detected |-> FALSE, reported |-> FALSE]

\* CRIME_COMMITTED: the register and its row.
Offend(type, perpetrator, victim, cents) ==
  /\ crimes' = Recorded(type, perpetrator, victim, cents)
  /\ tables' = [tables EXCEPT !.crimes = Append(@, CrimeRow(type, perpetrator, victim, cents))]

\* MnpiIndex.holds: a memory of an event about the issuer, recent and not disclosed yet.
HoldsMnpi(a, issuer) ==
  \E s \in Secrets : /\ s.issuer = issuer /\ a \in s.holders
                     /\ tick - s.tick \in 0..Cfg.mnpi_window
                     /\ ~(s.disclosed <= tick)

\* ObligationIndex.missed_with_capacity: the first due obligation the debtor could have met.
Missed(a) ==
  LET met == {o \in Obligations : o.debtor = a /\ o.due <= tick /\ money[a] >= o.amount}
  IN  {o \in met : \A p \in met : o.due <= p.due}

\* An agent may act in the phase of the actions, and not from prison.
Acts(a) == /\ stage = "actions" /\ inputs < MaxInputs
           /\ ~is_incarcerated(a)
           /\ inputs' = inputs + 1
           /\ UNCHANGED <<tick, stage, todo>>

\* _commit_crime: only a theft moves money.
Stolen(type, perpetrator, victim, cents) ==
  IF type = "theft" /\ victim # NoOne
  THEN Least(cents, compatible_balance(money, victim, perpetrator)) ELSE 0

\* check_locality.  The courthouse a witness has to be in is not modelled.
AtHand(type, perpetrator, victim) ==
  type \in {"theft", "assault"} /\ victim # NoOne => location[perpetrator] = location[victim]

\* COMMIT_CRIME, or an action one of the derived predicates flags.
CommitCrime(o) ==
  LET perpetrator == o[1]  type == o[2]  victim == o[3]
      taken == Stolen(type, perpetrator, victim, o[4])
  IN  /\ Acts(perpetrator)
      /\ AtHand(type, perpetrator, victim)
      \* The event carries what was intended; the register is corrected to what was taken,
      \* unless that was nothing.
      /\ crimes' = Recorded(type, perpetrator, victim, IF taken > 0 THEN taken ELSE o[4])
      /\ tables' = [tables EXCEPT !.crimes = Append(@, CrimeRow(type, perpetrator, victim, o[4]))]
      /\ money' = IF taken > 0 THEN Transfer(money, victim, perpetrator, taken) ELSE money
      /\ UNCHANGED <<cases, debtVars, custodyVars>>

\* SUBMIT_ORDER or SHORT by an insider.
TradeInside(t) ==
  /\ Acts(t[1])
  /\ HoldsMnpi(t[1], t[2])
  /\ Offend("insider_trading", t[1], NoOne, 0)
  /\ UNCHANGED <<cases, money, debtVars, custodyVars>>

\* DEFAULT by a debtor who could pay.
DefaultFunded(a) ==
  /\ Acts(a)
  /\ \E o \in Missed(a) : Offend("contract_breach", a, o.creditor, o.amount)
  /\ UNCHANGED <<cases, money, debtVars, custodyVars>>

\* REPORT_CRIME: the parties of a crime remember it.
Report(r, c) ==
  /\ Acts(r)
  /\ r \in {crimes[c].perpetrator, crimes[c].victim}
  /\ crimes' = [crimes EXCEPT ![c].reported = TRUE]
  /\ tables' = [tables EXCEPT !.crimes[c].reported = TRUE]
  /\ UNCHANGED <<cases, money, debtVars, custodyVars>>

-----------------------------------------------------------------------------
(* CourtService: filing, counsel, testimony, settlement *)

OpenCases == {k \in DOMAIN cases : cases[k].status = "open"}

CaseKey(filer, defendant) == <<filer, defendant, tick, Cardinality(OpenCases)>>

\* file: the repository keeps the first case of an id.
Filed(type, filer, defendant, crime, cause, claim, evidence) ==
  LET key == CaseKey(filer, defendant)
      case == [type |-> type, plaintiff |-> filer, defendant |-> defendant, crime |-> crime,
               cause |-> cause, claim |-> claim, filed |-> tick, evidence |-> evidence,
               counsel |-> NoOne, defence |-> NoOne, witnesses |-> {}, admitted |-> {},
               strength |-> 0, status |-> "open", resolved |-> -1, judgment |-> {}]
  IN  [k \in DOMAIN cases \cup {key} |-> IF k \in DOMAIN cases THEN cases[k] ELSE case]

\* SUIT_FILED in LawProjection: a second case of an id overwrites the row and opens it again.
CaseRows(type, filer, defendant, crime, cause, claim, evidence) ==
  LET key == CaseKey(filer, defendant)
      rows == tables.cases
      row == [type |-> type, plaintiff |-> filer, defendant |-> defendant, crime |-> crime,
              cause |-> cause, claim |-> claim, filed |-> tick, evidence |-> evidence,
              counsel |-> NoOne, defence |-> NoOne, admitted |-> {}, status |-> "open",
              resolved |-> -1, judgment |-> {}]
      again == [rows[key] EXCEPT !.crime = crime, !.cause = cause, !.claim = claim,
                                 !.evidence = evidence, !.status = "open", !.resolved = -1]
  IN  [k \in DOMAIN rows \cup {key} |->
         IF k # key THEN rows[k] ELSE IF key \in DOMAIN rows THEN again ELSE row]

File(type, filer, defendant, crime, cause, claim, evidence) ==
  /\ cases' = Filed(type, filer, defendant, crime, cause, claim, evidence)
  /\ tables' = [tables EXCEPT !.cases =
                  CaseRows(type, filer, defendant, crime, cause, claim, evidence)]

\* file_criminal: filed by the chief, then given the strength the police found.
FileCriminal(c, evidence, strength) ==
  LET accused == crimes[c].perpetrator
  IN  /\ cases' = [Filed("criminal", Chief, accused, c, crimes[c].type, crimes[c].amount, evidence)
                     EXCEPT ![CaseKey(Chief, accused)].strength = strength]
      /\ tables' = [tables EXCEPT !.cases = CaseRows("criminal", Chief, accused, c,
                                               crimes[c].type, crimes[c].amount, evidence)]

FilingFee(filer) == IF filer \in Poor THEN 0 ELSE Cfg.filing_fee

\* FILE_SUIT of <<filer, defendant, cause, claim, crime (0: none), evidence, type>>; only the
\* chief may file a criminal case.
FileSuit(s) ==
  LET fee == IF s[7] = "criminal" THEN 0 ELSE FilingFee(s[1])
  IN  /\ Acts(s[1])
      /\ s[5] <= Len(crimes)
      /\ s[7] = "criminal" => s[1] = Chief
      /\ fee > 0 => can_pay(s[1], fee, Government)
      /\ File(s[7], s[1], s[2], s[5], s[3], s[4], s[6])
      /\ money' = Transfer(money, s[1], Government, fee)
      /\ UNCHANGED <<crimes, debtVars, custodyVars>>

Retained(k, client, counsel) ==
  IF client = cases[k].defendant THEN [cases[k] EXCEPT !.defence = counsel]
  ELSE [cases[k] EXCEPT !.counsel = counsel]

\* COUNSEL_RETAINED in LawProjection, by the side the event names.
CounselRow(k, client, counsel) ==
  IF client = cases[k].defendant THEN [tables EXCEPT !.cases[k].defence = counsel]
  ELSE [tables EXCEPT !.cases[k].counsel = counsel]

\* RETAIN_COUNSEL, by anybody, at the price the lawyer asks.
Retain(client, k, counsel) ==
  /\ Acts(client)
  /\ Lawyers[counsel].skill >= Cfg.min_counsel_skill
  /\ counsel \notin {cases[k].plaintiff, cases[k].defendant}
  /\ ~is_incarcerated(counsel)
  /\ can_pay(client, Lawyers[counsel].fee, counsel)
  /\ cases' = [cases EXCEPT ![k] = Retained(k, client, counsel)]
  /\ tables' = CounselRow(k, client, counsel)
  /\ money' = Transfer(money, client, counsel, Lawyers[counsel].fee)
  /\ UNCHANGED <<crimes, debtVars, custodyVars>>

\* TESTIFY: once a witness is listed only listed ones are heard.  A lie about what the
\* witness remembers is perjury.
Testify(w, k, lies) ==
  /\ Acts(w)
  /\ cases[k].witnesses # {} => w \in cases[k].witnesses
  /\ cases' = [cases EXCEPT ![k].witnesses = @ \cup {w}]
  /\ IF lies THEN Offend("perjury", w, NoOne, 0) ELSE UNCHANGED <<crimes, tables>>
  /\ UNCHANGED <<money, debtVars, custodyVars>>

\* SETTLE: whoever acts pays the plaintiff, and the case is closed.
Settle(a, k, cents) ==
  LET amount == Least(cents, cases[k].claim)
  IN  /\ Acts(a)
      /\ can_pay(a, cents, cases[k].plaintiff)
      /\ cases[k].status = "open"
      /\ money' = Transfer(money, a, cases[k].plaintiff, amount)
      /\ cases' = [cases EXCEPT ![k].status = "settled", ![k].resolved = tick]
      /\ tables' = [tables EXCEPT !.cases[k].status = "settled", !.cases[k].resolved = tick]
      /\ UNCHANGED <<crimes, debtVars, custodyVars>>

-----------------------------------------------------------------------------
(* PenaltyService.garnish, called by the payroll with the net pay *)

\* One receivable of the loop: what is due, within the cap left and the balance.
Collected(st, r) ==
  LET amount == Least(Least(st.due[r].outstanding, st.cap),
                      compatible_balance(st.money, st.due[r].debtor, st.due[r].creditor))
  IN  [st EXCEPT !.due[r].outstanding = @ - amount, !.cap = @ - amount,
                 !.money = Transfer(@, st.due[r].debtor, st.due[r].creditor, amount),
                 !.paid = @ + amount]

\* The loop over what is owed, in that order.
Garnished(start, order) ==
  LET after[i \in 0..Len(order)] ==
        IF i = 0 THEN start ELSE Collected(after[i - 1], order[i])
  IN  after[Len(order)]

\* Half even, as round: income and rate are such that no half occurs.
GarnishCap(income) == (income * Cfg.garnishment_tenths + 5) \div 10

\* The pay comes from an employer outside the model.
PayAndGarnish(a, income) ==
  LET owed == {r \in DOMAIN receivables :
                 receivables[r].debtor = a /\ receivables[r].outstanding > 0}
      start == [money |-> [money EXCEPT ![a] = @ + income], due |-> receivables,
                cap |-> GarnishCap(income), paid |-> paid[a]]
  IN  /\ stage = "actions" /\ inputs < MaxInputs
      /\ \E order \in SetToSeqs(owed) :
           \E end \in {Garnished(start, order)} :
             /\ money' = end.money
             /\ receivables' = end.due
             /\ paid' = [paid EXCEPT ![a] = end.paid]
      /\ inputs' = inputs + 1
      /\ UNCHANGED <<tick, stage, todo, crimes, cases, custodyVars, tables>>

-----------------------------------------------------------------------------
(* SocietyRuntime.phase7: detection, the investigation queue, releases *)

StartsDay == tick % Cfg.ticks_per_day = 0
CourtDay == StartsDay /\ (tick \div Cfg.ticks_per_day) % 7 \in {0, 3}

EndActions ==
  /\ stage = "actions"
  /\ stage' = IF StartsDay THEN "hazard" ELSE "night"
  /\ UNCHANGED <<tick, inputs, todo, crimes, cases, money, debtVars, custodyVars, tables>>

\* p_detect is positive exactly when the police has a budget and the type can be detected.
Detectable == {c \in DOMAIN crimes : /\ ~crimes[c].detected
                                     /\ tick - crimes[c].tick <= Cfg.detection_window
                                     /\ Cfg.police_budget > 0}

investigation_slots == Cfg.police_budget \div Cfg.cost_per_investigation

\* The register and its rows alike (CRIME_DETECTED).
DetectedIn(all, found) ==
  [c \in DOMAIN all |-> IF c \in found THEN [all[c] EXCEPT !.detected = TRUE] ELSE all[c]]

run_hazard ==
  /\ stage = "hazard"
  /\ \E found \in SUBSET Detectable :
       /\ crimes' = DetectedIn(crimes, found)
       /\ tables' = [tables EXCEPT !.crimes = DetectedIn(@, found)]
  /\ stage' = "queue" /\ todo' = investigation_slots
  /\ UNCHANGED <<tick, inputs, cases, money, debtVars, custodyVars>>

TypeWeight == [assault |-> 500, embezzlement |-> 400, fraud |-> 350, insider_trading |-> 300,
               theft |-> 250, perjury |-> 200, contract_breach |-> 100]

\* _severity in hundredths; Cfg.log1p[n + 1] is log1p(n).
Severity(c) == Cfg.log1p[crimes[c].amount + 1] + TypeWeight[crimes[c].type]
                 + (tick - crimes[c].tick)

Queue == {c \in DOMAIN crimes : /\ crimes[c].detected \/ crimes[c].reported
                                /\ ~crimes[c].investigated}

\* PoliceService.evidence: the events about the parties around the crime, and their weight.
EvidenceOf(c) ==
  {e \in DOMAIN Evidence :
     /\ Evidence[e].tick \in (crimes[c].tick - Cfg.evidence_window)..(crimes[c].tick + Cfg.evidence_window)
     /\ Evidence[e].about \cap {crimes[c].perpetrator, crimes[c].victim} # {}}

Directness(e) == CASE Evidence[e].source = "ledger" -> 10
                   [] Evidence[e].source = "testimony" -> 6
                   [] Evidence[e].source = "social" -> 3
                   [] OTHER -> 1

StrengthOf(E) ==
  LET n == Cardinality(E)
      corroboration == 10 + 2 * (IF n = 0 THEN 0 ELSE n - 1)
  IN  Least(10, (SumOf([e \in E |-> Directness(e)]) * corroboration) \div (10 * Cfg.strength_norm))

CloseFile(c) == crimes' = [crimes EXCEPT ![c].investigated = TRUE]

\* process_queue, one candidate: the most severe; with evidence enough, arrest and charge.
Investigate(c) ==
  /\ stage = "queue" /\ todo > 0 /\ c \in Queue
  /\ \A d \in Queue : Severity(d) <= Severity(c)
  /\ \E strength \in {StrengthOf(EvidenceOf(c))} :
       IF strength >= Cfg.charge_threshold
       THEN FileCriminal(c, EvidenceOf(c), strength)
       ELSE UNCHANGED <<cases, tables>>
  /\ CloseFile(c)
  /\ todo' = todo - 1
  /\ UNCHANGED <<tick, stage, inputs, money, debtVars, custodyVars>>

EndQueue ==
  /\ stage = "queue" /\ (todo = 0 \/ Queue = {})
  /\ stage' = "release"
  /\ UNCHANGED <<tick, inputs, todo, crimes, cases, money, debtVars, custodyVars, tables>>

cases_per_session == Cfg.case_budget \div Cfg.cost_per_case

\* release_due: to the home of the household, or to where the agent was taken from.
ReleasedTo(due) ==
  [a \in Agents |-> IF a \notin due THEN location[a]
                    ELSE IF Home[a] # NoOne THEN Home[a]
                    ELSE IF sentences[a].prior # NoOne THEN sentences[a].prior
                    ELSE location[a]]

release_due ==
  LET due == {a \in DOMAIN sentences : sentences[a].release <= tick}
  IN  /\ stage = "release"
      /\ location' = ReleasedTo(due)
      /\ sentences' = [a \in DOMAIN sentences \ due |-> sentences[a]]
      /\ stage' = IF CourtDay THEN "court" ELSE "night"
      /\ todo' = IF CourtDay THEN cases_per_session ELSE 0
      /\ UNCHANGED <<tick, inputs, crimes, cases, money, debtVars, records, tables>>

-----------------------------------------------------------------------------
(* CourtService.hold_session *)

\* assign_public_defender: the cheapest able lawyer, paid by the government.
Defenders(case) ==
  LET able == {l \in DOMAIN Lawyers : Lawyers[l].skill >= Cfg.min_counsel_skill}
  IN  IF case.type = "criminal" /\ case.defence = NoOne /\ case.defendant \in Poor
      THEN {l \in able : \A o \in able : Lawyers[l].fee <= Lawyers[o].fee} ELSE {}

Admissible(case, e) ==
  /\ Evidence[e].about \cap {case.plaintiff, case.defendant} # {}
  /\ \/ Evidence[e].source \in {"ledger", "published", "public"}
     \/ Evidence[e].holders \cap case.witnesses # {}

\* admit_evidence: the first of the admissible events, as many as counsel surfaces.
Surfaced(case) ==
  LET admissible == {e \in case.evidence : Admissible(case, e)}
      counsel == IF case.counsel # NoOne THEN case.counsel ELSE case.defence
      skill == IF counsel \in DOMAIN Lawyers THEN Lawyers[counsel].skill ELSE 0
      count == (10 * Cfg.base_evidence + Cfg.skill_factor * skill + 5) \div 10
  IN  {e \in admissible : Cardinality({f \in admissible : f < e}) < count}

WithEvidence(case) ==
  IF case.admitted # {} THEN case
  ELSE LET shown == Surfaced(case)
           strength == Least(10, (10 * Cardinality(shown)) \div Max({1, Cfg.base_evidence}))
       IN  [case EXCEPT !.admitted = shown, !.strength = Max({@, strength})]

\* statutory_range, as <<fine_lo, fine_hi, sentence_lo, sentence_hi>>.
Statutory(case) ==
  LET type == IF case.crime # 0 THEN crimes[case.crime].type ELSE case.cause
      amount == IF case.crime # 0 THEN crimes[case.crime].amount ELSE case.claim
      base == Cfg.statutory[type]
      fines == CASE type = "theft" -> <<amount, 3 * amount>>
                 [] type = "contract_breach" -> <<amount, 2 * amount>>
                 [] type \in {"fraud", "embezzlement"} -> <<2 * amount, 5 * amount>>
                 [] type = "insider_trading" -> <<3 * amount, 10 * amount>>
                 [] OTHER -> <<base[1], base[2]>>
      scaled(n) == (n * Cfg.sentencing_bp) \div 10000
  IN  IF type \notin CrimeTypes THEN <<0, case.claim, 0, 0>>
      ELSE <<scaled(fines[1]), scaled(fines[2]),
             scaled(base[3] * Cfg.ticks_per_day), scaled(base[4] * Cfg.ticks_per_day)>>

\* round: base plus x / d to the nearest integer, a half to the even one.
Rounded(base, x, d) ==
  LET whole == base + x \div d
      twice == 2 * (x % d)
  IN  IF twice > d \/ (twice = d /\ whole % 2 = 1) THEN whole + 1 ELSE whole

\* bench_verdict: nothing below the threshold, then linear in the strength.
BenchPenalty(strength, lo, hi) ==
  LET th == Cfg.conviction_threshold
  IN  IF strength < th THEN 0 ELSE IF th >= 10 THEN lo
      ELSE Rounded(lo, (hi - lo) * (strength - th), 10 - th)

Bench(case, range) ==
  [verdict |-> IF case.strength >= Cfg.conviction_threshold
               THEN IF case.type = "criminal" THEN "guilty" ELSE "liable"
               ELSE IF case.type = "criminal" THEN "not_guilty" ELSE "not_liable",
   fine |-> BenchPenalty(case.strength, range[1], range[2]),
   sentence |-> BenchPenalty(case.strength, range[3], range[4]),
   damages |-> 0, restitution |-> 0]

AllowedVerdicts(case) == IF case.type = "criminal" THEN {"guilty", "not_guilty", "dismissed"}
                         ELSE {"liable", "not_liable", "dismissed"}

\* _clamp_judgment.  Damages and restitution do not depend on the verdict.
Clamped(case, range, o) ==
  LET within(lo, hi, n) == Least(hi, Max({lo, n}))
  IN  [verdict |-> o.verdict,
       fine |-> IF o.verdict \in {"guilty", "liable"} THEN within(range[1], range[2], o.fine) ELSE 0,
       sentence |-> IF o.verdict = "guilty" THEN within(range[3], range[4], o.sentence) ELSE 0,
       damages |-> Least(case.claim, o.damages),
       restitution |-> IF case.crime = 0 THEN 0 ELSE Least(crimes[case.crime].amount, o.restitution)]

\* _decide: an answer that fits the type of the case, within three attempts, or the bench.
Decisions(case) ==
  LET range == Statutory(case)
  IN  {Clamped(case, range, o) : o \in {o \in JudgeOutputs : o.verdict \in AllowedVerdicts(case)}}
      \cup {Bench(case, range)}

\* PenaltyService.apply: whom a judgment makes the defendant pay, and how much; an award of
\* nothing changes nothing.
Awards(case, j) ==
  LET victim == IF case.crime = 0 THEN NoOne ELSE crimes[case.crime].victim
      costs == Cfg.loser_pays /\ j.verdict \in {"guilty", "liable"}
  IN  <<<<Government, j.fine>>, <<case.plaintiff, j.damages>>,
        <<victim, IF victim = NoOne THEN 0 ELSE j.restitution>>,
        <<case.plaintiff, IF costs THEN Cfg.filing_fee ELSE 0>>>>

\* Mutant: the receivable is entered with the amount awarded, not with the shortfall.
AwardedTwice(st, debtor, award) ==
  LET now == Least(award[2], compatible_balance(st.money, debtor, award[1]))
  IN  [money |-> Transfer(st.money, debtor, award[1], now),
       paid |-> st.paid + now,
       due |-> IF award[2] = now THEN st.due
               ELSE Append(st.due, [debtor |-> debtor, creditor |-> award[1],
                                    outstanding |-> award[2]])]

\* _award: what the debtor has is paid at once, the shortfall becomes a receivable.
Awarded(st, debtor, award) ==
  LET now == Least(award[2], compatible_balance(st.money, debtor, award[1]))
      rest == award[2] - now
  IN  [money |-> Transfer(st.money, debtor, award[1], now),
       paid |-> st.paid + now,
       due |-> IF rest = 0 THEN st.due
               ELSE Append(st.due, [debtor |-> debtor, creditor |-> award[1], outstanding |-> rest])]

\* apply: the awards in their order.
Penalised(st, debtor, awards) ==
  Awarded(Awarded(Awarded(Awarded(st, debtor, awards[1]), debtor, awards[2]),
                  debtor, awards[3]), debtor, awards[4])

\* record_conviction.
Convicted(a, j) ==
  records' = [records EXCEPT ![a] = @ + (IF j.verdict = "guilty" THEN 1 ELSE 0)]

\* Incarceration.commit.  Over capacity the sentence is not served, and is left to the callback
\* conversion_fine, which nothing outside the unit tests passes: without it there is no fine.
Jailed(a, j) ==
  LET occupied == Cardinality(DOMAIN sentences)
      place == Prisons[(occupied % Len(Prisons)) + 1]
      sentence == [started |-> tick, release |-> tick + j.sentence, prior |-> location[a]]
  IN  IF j.sentence = 0 \/ Prisons = <<>> \/ occupied >= Cfg.prison_capacity
      THEN UNCHANGED <<sentences, location>>
      ELSE /\ sentences' = [b \in DOMAIN sentences \cup {a} |->
                              IF b = a THEN sentence ELSE sentences[b]]
           /\ location' = [location EXCEPT ![a] = place]

\* Mutant: the docket takes the newest cases first.
NextOnDocketNewest == {k \in OpenCases : \A o \in OpenCases : cases[k].filed >= cases[o].filed}

\* Mutant: the docket still holds the cases that were settled.
NextOnDocketSettled ==
  LET listed == {k \in DOMAIN cases : cases[k].status # "resolved"}
  IN  {k \in listed : \A o \in listed : cases[k].filed <= cases[o].filed}

\* open_cases: by the tick of filing.
NextOnDocket == {k \in OpenCases : \A o \in OpenCases : cases[k].filed <= cases[o].filed}

\* EVIDENCE_ADMITTED and JUDGMENT_RENDERED in LawProjection.
JudgedRows(t, k, heard, j) ==
  [t EXCEPT !.cases[k].admitted = heard.admitted, !.cases[k].status = "resolved",
            !.cases[k].resolved = tick, !.cases[k].judgment = {j},
            !.records[t.cases[k].defendant] = @ + (IF j.verdict = "guilty" THEN 1 ELSE 0)]

\* The evidence, the judgment and its penalties of one case.
Hear(k, case, m, t) ==
  \E heard \in {WithEvidence(case)} : \E j \in Decisions(heard) :
    \E end \in {Penalised([money |-> m, paid |-> paid[case.defendant], due |-> receivables],
                          case.defendant, Awards(heard, j))} :
      /\ cases' = [cases EXCEPT ![k] = [heard EXCEPT !.status = "resolved", !.resolved = tick,
                                                     !.judgment = {j}]]
      /\ money' = end.money
      /\ paid' = [paid EXCEPT ![case.defendant] = end.paid]
      /\ receivables' = end.due
      /\ tables' = JudgedRows(t, k, heard, j)
      /\ Convicted(case.defendant, j)
      /\ Jailed(case.defendant, j)
      /\ todo' = todo - 1
      /\ UNCHANGED <<tick, stage, inputs, crimes>>

HearWithoutDefender ==
  /\ stage = "court" /\ todo > 0
  /\ \E k \in NextOnDocket : /\ Defenders(cases[k]) = {}
                             /\ Hear(k, cases[k], money, tables)

HearWithDefender ==
  /\ stage = "court" /\ todo > 0
  /\ \E k \in NextOnDocket : \E l \in Defenders(cases[k]) :
       /\ compatible_balance(money, Government, l) >= Lawyers[l].fee
       /\ Hear(k, Retained(k, cases[k].defendant, l),
               Transfer(money, Government, l, Lawyers[l].fee),
               CounselRow(k, cases[k].defendant, l))

\* The government cannot pay the defender: post_transfer raises and the run ends.
DefenderUnpaid ==
  /\ stage = "court" /\ todo > 0
  /\ \E k \in NextOnDocket : \E l \in Defenders(cases[k]) :
       compatible_balance(money, Government, l) < Lawyers[l].fee
  /\ stage' = "raised"
  /\ UNCHANGED <<tick, inputs, todo, crimes, cases, money, debtVars, custodyVars, tables>>

EndSession ==
  /\ stage = "court" /\ (todo = 0 \/ OpenCases = {})
  /\ stage' = "night"
  /\ UNCHANGED <<tick, inputs, todo, crimes, cases, money, debtVars, custodyVars, tables>>

NextTick ==
  /\ stage = "night" /\ tick < LastTick
  /\ tick' = tick + 1 /\ stage' = "actions" /\ todo' = 0
  /\ UNCHANGED <<inputs, crimes, cases, money, debtVars, custodyVars, tables>>

Ended == (stage = "raised" \/ (stage = "night" /\ tick = LastTick)) /\ UNCHANGED vars

-----------------------------------------------------------------------------
Init ==
  /\ tick = 0 /\ stage = "actions" /\ inputs = 0 /\ todo = 0
  /\ crimes = <<>> /\ cases = <<>>
  /\ money = StartMoney
  /\ receivables = <<>> /\ paid = [o \in Owners |-> 0]
  /\ sentences = <<>> /\ location = [a \in Agents |-> Home[a]]
  /\ records = [a \in Agents |-> 0]
  /\ tables = [crimes |-> <<>>, cases |-> <<>>, records |-> records]

Next ==
  \/ \E o \in Offences : CommitCrime(o)
  \/ \E t \in Trades : TradeInside(t)
  \/ \E a \in Agents : DefaultFunded(a)
  \/ \E c \in DOMAIN crimes, r \in Agents : Report(r, c)
  \/ \E s \in Suits : FileSuit(s)
  \/ \E k \in DOMAIN cases, l \in DOMAIN Lawyers, a \in Clients : Retain(a, k, l)
  \/ \E k \in DOMAIN cases, w \in Testimony : Testify(w[1], k, w[2])
  \/ \E k \in DOMAIN cases, o \in Offers : Settle(o[1], k, o[2])
  \/ \E i \in Incomes : PayAndGarnish(i[1], i[2])
  \/ EndActions
  \/ run_hazard
  \/ \E c \in DOMAIN crimes : Investigate(c)
  \/ EndQueue
  \/ release_due
  \/ HearWithoutDefender
  \/ HearWithDefender
  \/ DefenderUnpaid
  \/ EndSession
  \/ NextTick
  \/ Ended

Spec == Init /\ [][Next]_vars

-----------------------------------------------------------------------------
(* Properties *)

\* Every value keeps its type; no account of an agent or of the government goes below zero.
TypeOK ==
  /\ tick \in 0..LastTick /\ inputs \in 0..MaxInputs
  /\ stage \in {"actions", "hazard", "queue", "release", "court", "night", "raised"}
  /\ money \in [Owners -> Nat]
  /\ \A r \in DOMAIN receivables : receivables[r].outstanding \in Nat
  /\ \A k \in DOMAIN cases : cases[k].status \in {"open", "settled", "resolved"}
  /\ location \in [Agents -> {Home[a] : a \in Agents} \cup ToSet(Prisons)]

JudgedAgainst(d) == {k \in DOMAIN cases : cases[k].status = "resolved" /\ cases[k].defendant = d}

Penalty(case) ==
  LET awards == Awards(case, CHOOSE j \in case.judgment : TRUE)
  IN  awards[1][2] + awards[2][2] + awards[3][2] + awards[4][2]

DebtsOf(d) == {r \in DOMAIN receivables : receivables[r].debtor = d}

\* A penalty in money is never written off: what the judgments against a defendant come to is
\* what it has paid, at once or by garnishment, and what it still owes (apply, _award, garnish).
\* A sentence is no such penalty: what does not fit into the prison becomes the fine of
\* docs/07-SOCIETY-SPEC.md:1660-1662 only where conversion_fine is given, and is lost where it
\* is not.
PenaltiesAccounted ==
  \A d \in Agents :
    SumOf([k \in JudgedAgainst(d) |-> Penalty(cases[k])])
      = paid[d] + SumOf([r \in DebtsOf(d) |-> receivables[r].outstanding])

\* The backlog is worked off in order: no case is judged while one filed on an earlier tick
\* is left open (open_cases, hold_session).
OldestFirst ==
  \A k \in OpenCases : \A o \in DOMAIN cases :
    cases[o].status = "resolved" /\ cases[o].resolved >= cases[k].filed =>
      cases[o].filed <= cases[k].filed

\* A case that was settled or judged stays as it was closed (settle, hold_session).
ClosedIsFinal ==
  [][\A k \in DOMAIN cases : cases[k].status # "open" =>
       /\ cases'[k].status = cases[k].status
       /\ cases'[k].judgment = cases[k].judgment]_vars

\* The record of an agent counts its convictions, served or not (record_conviction).
RecordCountsConvictions ==
  \A a \in Agents :
    records[a] = Cardinality({k \in DOMAIN cases :
                   cases[k].defendant = a /\ \E j \in cases[k].judgment : j.verdict = "guilty"})

\* Those whose household takes them back, somewhere that is no prison.
Homed == {a \in Agents : Home[a] \notin ToSet(Prisons) \cup {NoOne}}

\* The sentenced are in prison, no more than it holds while its capacity stays what it is; who
\* has served leaves when the next day begins, and, with a home to go to, nobody else is in
\* prison.  Without one (the default household_return) who was nowhere before, or was sentenced
\* again in prison, stays there (commit, release_due).
PrisonHoldsTheSentenced ==
  /\ \A a \in DOMAIN sentences : location[a] \in ToSet(Prisons)
  /\ \A a \in Homed : location[a] \in ToSet(Prisons) => a \in DOMAIN sentences
  /\ Cardinality(DOMAIN sentences) <= Cfg.prison_capacity
  /\ stage = "night" /\ StartsDay => \A a \in DOMAIN sentences : sentences[a].release > tick

\* The chief may file a criminal case by hand, which closes no file of the police.
HandCharges == \E s \in Suits : s[7] = "criminal" /\ s[1] = Chief

\* The police charges a crime at most once, however often it is detected and reported
\* (process_queue, mark_investigated), where nobody charges by hand.
ChargedOnce ==
  ~HandCharges => \A c \in DOMAIN crimes :
    Cardinality({k \in DOMAIN cases : cases[k].type = "criminal" /\ cases[k].crime = c}) <= 1

Shows(k, fields) == \A f \in fields : tables.cases[k][f] = cases[k][f]

\* The rows written from the events say what the registers say, but for two kinds.  The row of
\* a theft keeps the amount that was intended where the victim had less.  After a settlement the
\* number of open cases is what it was, and the next suit of the same parties on that tick may
\* get an id that is taken: the register drops the suit, and the projection writes its claim
\* over the row of the earlier one, open again (_commit_crime, file, LawProjection.apply).
TablesAgree ==
  /\ tables.records = records
  /\ DOMAIN tables.crimes = DOMAIN crimes
  /\ \A c \in DOMAIN crimes :
       /\ \A f \in DOMAIN crimes[c] \ {"investigated", "amount"} : tables.crimes[c][f] = crimes[c][f]
       /\ \/ tables.crimes[c].amount = crimes[c].amount
          \/ crimes[c].type = "theft" /\ tables.crimes[c].amount > crimes[c].amount
  /\ DOMAIN tables.cases = DOMAIN cases
  /\ \A k \in DOMAIN cases :
       /\ Shows(k, {"type", "plaintiff", "defendant", "filed", "counsel", "defence", "admitted",
                    "judgment"})
       /\ \/ Shows(k, {"status", "resolved"})
          \/ /\ cases[k].status = "settled" /\ cases[k].resolved = cases[k].filed
             /\ tables.cases[k].status = "open"
       /\ \/ Shows(k, {"crime", "cause", "claim", "evidence"})
          \/ \E o \in DOMAIN cases : cases[o].status = "settled" /\ cases[o].resolved = cases[k].filed

\* The courts' books add up: penalties in money are paid or owed, records count convictions,
\* the prison holds the sentenced, and the tables show what the registers hold.
JudgmentsAccounted ==
  /\ TypeOK
  /\ PenaltiesAccounted
  /\ RecordCountsConvictions
  /\ PrisonHoldsTheSentenced
  /\ TablesAgree

\* The docket is worked off in order and holds a crime once (hold_session, process_queue).
DocketInOrder == OldestFirst /\ ChargedOnce
=============================================================================
