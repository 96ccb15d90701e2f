----------------------------- MODULE WageRates -----------------------------
(***************************************************************************)
(* The wage rules of a company (PaymentService), and the two ways a salary *)
(* is resolved from them: SalaryService.calculate for one worker (payslips *)
(* and the salary screen), and calculateMany for many at once (dashboard,  *)
(* profit and loss).                                                       *)
(*                                                                         *)
(* A rule belongs to a company and a profession and holds for one site, or *)
(* for the company (NoSite).  The unique index on the three columns treats *)
(* every NULL as a different value, so it does not cover company-wide      *)
(* rules.  A creation is two statements, find and insert; other operations *)
(* on a rule name it by id and amount to one step.                         *)
(*                                                                         *)
(* A calculation reads the rules in one statement, so its result is a      *)
(* function of the worker it read and the table at that moment.  Currency  *)
(* and rounding are left out; hours are those of ATTENDANCE days.          *)
(***************************************************************************)
EXTENDS Naturals, FiniteSets

CONSTANTS
  Callers,      \* POST /wage-rates calls that can be in flight at once
  Ids,          \* primary keys of ProfessionWageRate
  Companies, Professions,
  Sites,        \* primary keys of Site, all created before the behaviour starts
  Terms,        \* what a rule says: wage, rateType and calcMode
  Hours,        \* hours a worker attended in a period
  Wages,        \* wages of WorkerSalaryData
  NoSite, NoRate, NoCall, NoWage, NoPay

AllTerms == [wage     : Nat,
             rateType : {"HOURLY", "MONTHLY"},
             calcMode : {"FIXED", "ISRAELI_LABOR_LAW"}]

Trade  == [company : Companies, profession : Professions]
Slot   == [trade : Trade, site : Sites \cup {NoSite}]
Rate   == [slot : Slot, terms : Terms]
Worker == [trade : Trade, wage : Wages \cup {NoWage}]

ASSUME TermsAssumption == Terms \subseteq AllTerms
ASSUME WagesAssumption == Wages \subseteq Nat /\ Hours \subseteq Nat
ASSUME NullsAssumption == /\ NoSite \notin Sites
                          /\ NoRate \notin Rate
                          /\ NoCall \notin Slot
                          /\ NoWage \notin Wages
ASSUME FiniteAssumption == IsFiniteSet(Ids) /\ IsFiniteSet(Callers)

VARIABLES
  rate,      \* the table, by id
  sites,     \* the sites that have not been removed
  call,      \* the slot a creation found free, and will insert into
  peak,      \* history: most creations of a trade's company-wide rule past the find
  promoted   \* history: site rules of a trade that lost their site

vars == <<rate, sites, call, peak, promoted>>

Present      == {i \in Ids : rate[i] # NoRate}
RatesIn(t)   == {i \in Present : rate[i].slot = t}
Creating(t)  == {c \in Callers : call[c] = t}
CompanyWide(k) == [trade |-> k, site |-> NoSite]
AtSite(k, s)   == [trade |-> k, site |-> s]

TypeOK ==
  /\ rate     \in [Ids -> Rate \cup {NoRate}]
  /\ sites    \in SUBSET Sites
  /\ call     \in [Callers -> Slot \cup {NoCall}]
  /\ peak     \in [Trade -> Nat]
  /\ promoted \in [Trade -> Nat]

Init ==
  /\ rate     = [i \in Ids |-> NoRate]
  /\ sites    = Sites
  /\ call     = [c \in Callers |-> NoCall]
  /\ peak     = [k \in Trade |-> 0]
  /\ promoted = [k \in Trade |-> 0]

-----------------------------------------------------------------------------
(* PaymentService.                                                         *)

\* The largest number of creations of k past the find, counting one more.
NewPeak(k) == LET n == Cardinality(Creating(CompanyWide(k))) + 1
              IN  IF n > peak[k] THEN n ELSE peak[k]

\* Mutant: create inserts without looking.
FindExistingNot(c, t) ==
  /\ call[c] = NoCall
  /\ call' = [call EXCEPT ![c] = t]
  /\ peak' = IF t.site = NoSite THEN [peak EXCEPT ![t.trade] = NewPeak(t.trade)] ELSE peak
  /\ UNCHANGED <<rate, sites, promoted>>

\* create: a rule that is found is a 409.  The company is the caller's own; the
\* site of the body is not looked up.
FindExisting(c, t) ==
  /\ call[c] = NoCall
  /\ RatesIn(t) = {}
  /\ call' = [call EXCEPT ![c] = t]
  /\ peak' = IF t.site = NoSite THEN [peak EXCEPT ![t.trade] = NewPeak(t.trade)] ELSE peak
  /\ UNCHANGED <<rate, sites, promoted>>

\* The unique index holds for site rules only; the foreign key wants the site.
InsertRate(c) ==
  /\ call[c] # NoCall
  /\ call[c].site # NoSite => call[c].site \in sites /\ RatesIn(call[c]) = {}
  /\ \E i \in Ids \ Present, terms \in Terms :
       rate' = [rate EXCEPT ![i] = [slot |-> call[c], terms |-> terms]]
  /\ call' = [call EXCEPT ![c] = NoCall]
  /\ UNCHANGED <<sites, peak, promoted>>

\* The index or the foreign key refuses the row, or the call is cut off.
InsertFails(c) ==
  /\ call[c] # NoCall
  /\ call' = [call EXCEPT ![c] = NoCall]
  /\ UNCHANGED <<rate, sites, peak, promoted>>

\* Mutant: the body replaces the row instead of being merged into it.
UpdateRateReplace(i) ==
  /\ i \in Present
  /\ \E terms \in Terms : rate' = [rate EXCEPT ![i] = terms]
  /\ UNCHANGED <<sites, call, peak, promoted>>

\* update: the slot of a rule cannot be changed.
UpdateRate(i) ==
  /\ i \in Present
  /\ \E terms \in Terms : rate' = [rate EXCEPT ![i].terms = terms]
  /\ UNCHANGED <<sites, call, peak, promoted>>

RemoveRate(i) ==
  /\ i \in Present
  /\ rate' = [rate EXCEPT ![i] = NoRate]
  /\ UNCHANGED <<sites, call, peak, promoted>>

\* SitesService.remove.  The foreign key of a rule is ON DELETE SET NULL: what
\* was a rule for the site becomes one for the company.
RemoveSite(s) ==
  /\ s \in sites
  /\ sites' = sites \ {s}
  /\ rate' = [i \in Ids |-> IF i \in Present /\ rate[i].slot.site = s
                            THEN [rate[i] EXCEPT !.slot = CompanyWide(rate[i].slot.trade)]
                            ELSE rate[i]]
  /\ promoted' = [k \in Trade |-> promoted[k] + Cardinality(RatesIn(AtSite(k, s)))]
  /\ UNCHANGED <<call, peak>>

Next ==
  \/ \E c \in Callers : \/ \E t \in Slot : FindExisting(c, t)
                        \/ InsertRate(c) \/ InsertFails(c)
  \/ \E i \in Ids : UpdateRate(i) \/ RemoveRate(i)
  \/ \E s \in Sites : RemoveSite(s)

Spec == Init /\ [][Next]_vars

-----------------------------------------------------------------------------
(* SalaryService.                                                          *)

\* WHERE (siteId = s OR siteId IS NULL), for the trades of some workers.
Fetched(W, s) ==
  {i \in Present : /\ rate[i].slot.trade.company \in {w.trade.company : w \in W}
                   /\ rate[i].slot.trade.profession \in {w.trade.profession : w \in W}
                   /\ rate[i].slot.site \in {s, NoSite}}

\* The rule one row of a set is, and none of an empty set: rows that tie come
\* in any order.
AnyOf(rows) == IF rows = {} THEN {NoRate} ELSE {rate[i] : i \in rows}

\* calculate: findFirst with ORDER BY "siteId" DESC.  Postgres puts NULL first.
SingleRules(w, s) ==
  LET rows  == Fetched({w}, s)
      first == {i \in rows : rate[i].slot.site = NoSite}
  IN  AnyOf(IF first # {} THEN first ELSE rows)

\* Mutant: the candidates of a worker are told apart by profession only.
BatchRulesAnyCompany(w, W, s) ==
  LET candidates == {i \in Fetched(W, s) : rate[i].slot.trade.profession = w.trade.profession}
      specific   == {i \in candidates : rate[i].slot.site = s}
      general    == {i \in candidates : rate[i].slot.site = NoSite}
  IN  AnyOf(IF specific # {} THEN specific ELSE general)

\* calculateMany, for one worker w of the batch W: find the site's rule, else
\* the company's, among the candidates of w's company and profession.
BatchRules(w, W, s) ==
  LET candidates == {i \in Fetched(W, s) : rate[i].slot.trade = w.trade}
      specific   == {i \in candidates : rate[i].slot.site = s}
      general    == {i \in candidates : rate[i].slot.site = NoSite}
  IN  AnyOf(IF specific # {} THEN specific ELSE general)

HourlyWage(w, r) ==
  IF w.wage # NoWage THEN w.wage ELSE IF r # NoRate THEN r.terms.wage ELSE 0

CalcMode(r) == IF r = NoRate THEN "FIXED" ELSE r.terms.calcMode

\* Both strategies pay by the hour; a monthly rule of mode FIXED is paid as it is.
Gross(w, r, h) ==
  IF CalcMode(r) = "FIXED" /\ r # NoRate /\ r.terms.rateType = "MONTHLY"
  THEN r.terms.wage ELSE h * HourlyWage(w, r)

\* NoPay: calculate throws 'No wage configured', calculateMany skips the worker.
Salary(w, r, h) ==
  IF HourlyWage(w, r) <= 0 /\ w.wage = NoWage THEN NoPay
  ELSE [gross |-> Gross(w, r, h), hourlyWage |-> HourlyWage(w, r), mode |-> CalcMode(r)]

Calculate(w, s, h)        == {Salary(w, r, h) : r \in SingleRules(w, s)}
CalculateMany(w, W, s, h) == {Salary(w, r, h) : r \in BatchRules(w, W, s)}

-----------------------------------------------------------------------------
\* PaymentService.create refuses a second rule for a slot, and the index helps it
\* only where there is a site.  A trade has at most as many company-wide rules,
\* those about to be inserted included, as creations have overlapped at once and
\* sites that had a rule have been removed.  A site has at most one.
SlotsBounded ==
  \A k \in Trade :
    /\ Cardinality(RatesIn(CompanyWide(k))) + Cardinality(Creating(CompanyWide(k)))
         <= peak[k] + promoted[k]
    /\ \A s \in Sites : \A i, j \in RatesIn(AtSite(k, s)) : i = j

\* A site rule and a company rule both apply to the worker at the site.
Overridden(w, s) ==
  /\ s # NoSite
  /\ RatesIn(AtSite(w.trade, s)) # {}
  /\ RatesIn(CompanyWide(w.trade)) # {}

\* The trade has company-wide rules that say different things.
Contradicted(k) ==
  \E i, j \in RatesIn(CompanyWide(k)) : rate[i].terms # rate[j].terms

\* Whatever rows the database returns first, calculate and calculateMany give a worker
\* one and the same salary, whoever else is in the batch and though two creations raced
\* or a site was removed under its rule.  The exceptions are a site rule next to a company
\* rule (see SameSalary) and company-wide duplicates of different terms, of which each
\* call takes any.
PaidAlike ==
  \A w, v \in Worker, s \in Sites \cup {NoSite}, h \in Hours :
    ~Overridden(w, s) /\ ~Contradicted(w.trade) =>
      \A a \in Calculate(w, s, h), b \in CalculateMany(w, {w, v}, s, h) : a = b

-----------------------------------------------------------------------------
(* What a comment of the service says and the code does not keep.          *)

\* calculateMany: "byte-for-byte identical to calling `calculate()` per worker",
\* "a site-specific rate beats the global one".
SameSalary ==
  \A w \in Worker, s \in Sites \cup {NoSite}, h \in Hours :
    \A a \in Calculate(w, s, h), b \in CalculateMany(w, {w}, s, h) : a = b
=============================================================================
