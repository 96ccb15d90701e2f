---------------------------- MODULE SalaryProofs ----------------------------
(***************************************************************************)
(* What a worker is paid, and the slip that says so.  WageRates for every  *)
(* set of callers, ids, companies, professions, sites and terms: type      *)
(* correctness, the bound on the rules of a slot, and the agreement of the *)
(* two salary resolutions.  Then RenderJob for any callers and any         *)
(* deadline: the bound on its polls, and that it keeps its promise.  Last  *)
(* PayslipShare, for any sites and hours: it uses RenderJob as specified,  *)
(* and its slips add up.                                                   *)
(***************************************************************************)
EXTENDS WageRates, PayslipShare, FiniteSetTheorems, TLAPS

\* The sets of rows and of calls that are counted are finite.
LEMMA CountedAreFinite ==
  ASSUME NEW t
  PROVE  /\ IsFiniteSet(RatesIn(t)) /\ Cardinality(RatesIn(t)) \in Nat
         /\ IsFiniteSet(Creating(t)) /\ Cardinality(Creating(t)) \in Nat
<1>1. RatesIn(t) \subseteq Ids /\ Creating(t) \subseteq Callers
  BY DEF RatesIn, Present, Creating
<1> QED
  BY <1>1, FiniteAssumption, FS_Subset, FS_CardinalityType

\* A slot is not the null value of a call, nor a rule that of the table.
LEMMA SlotsAndRates ==
  ASSUME NEW k \in Trade, NEW s \in Sites
  PROVE  /\ CompanyWide(k) \in Slot /\ AtSite(k, s) \in Slot
         /\ CompanyWide(k) # NoCall /\ AtSite(k, s) # NoCall
         /\ CompanyWide(k) # AtSite(k, s)
         /\ CompanyWide(k).trade = k /\ CompanyWide(k).site = NoSite
         /\ AtSite(k, s).trade = k /\ AtSite(k, s).site = s
BY NullsAssumption DEF CompanyWide, AtSite, Slot

\* WageRates keeps its types: the rules of the table have a slot and terms.
THEOREM TypeCorrect == Spec => []TypeOK
<1>1. Init => TypeOK
  BY DEF Init, TypeOK
<1>2. TypeOK /\ [Next]_vars => TypeOK'
  <2> SUFFICES ASSUME TypeOK, [Next]_vars PROVE TypeOK'
    OBVIOUS
  <2> USE DEF TypeOK
  <2>1. CASE UNCHANGED vars
    BY <2>1 DEF vars
  <2>2. ASSUME NEW c \in Callers, NEW t \in Slot, FindExisting(c, t) PROVE TypeOK'
    <3>1. t.trade \in Trade
      BY DEF Slot
    <3>2. NewPeak(t.trade) \in Nat
      BY <3>1, CountedAreFinite DEF NewPeak
    <3> QED
      BY <2>2, <3>1, <3>2 DEF FindExisting
  <2>3. ASSUME NEW c \in Callers, InsertRate(c) PROVE TypeOK'
    <3>1. call[c] \in Slot
      BY <2>3 DEF InsertRate
    <3>2. \A terms \in Terms : [slot |-> call[c], terms |-> terms] \in Rate
      BY <3>1 DEF Rate
    <3> QED
      BY <2>3, <3>2 DEF InsertRate, Present
  <2>4. ASSUME NEW c \in Callers, InsertFails(c) PROVE TypeOK'
    BY <2>4 DEF InsertFails
  <2>5. ASSUME NEW i \in Ids, UpdateRate(i) PROVE TypeOK'
    <3>1. rate[i] \in Rate
      BY <2>5 DEF UpdateRate, Present
    <3>2. \A terms \in Terms : [rate[i] EXCEPT !.terms = terms] \in Rate
      BY <3>1 DEF Rate
    <3> QED
      BY <2>5, <3>2 DEF UpdateRate
  <2>6. ASSUME NEW i \in Ids, RemoveRate(i) PROVE TypeOK'
    BY <2>6 DEF RemoveRate
  <2>7. ASSUME NEW s \in Sites, RemoveSite(s) PROVE TypeOK'
    <3>1. rate' \in [Ids -> Rate \cup {NoRate}]
      <4>1. ASSUME NEW i \in Present
            PROVE  [rate[i] EXCEPT !.slot = CompanyWide(rate[i].slot.trade)] \in Rate
        BY DEF Present, Rate, Slot, CompanyWide
      <4> QED
        BY <2>7, <4>1 DEF RemoveSite
    <3>2. promoted' \in [Trade -> Nat]
      BY <2>7, CountedAreFinite DEF RemoveSite
    <3> QED
      BY <2>7, <3>1, <3>2 DEF RemoveSite
  <2> QED
    BY <2>1, <2>2, <2>3, <2>4, <2>5, <2>6, <2>7 DEF Next
<1> QED
  BY <1>1, <1>2, PTL DEF Spec

-----------------------------------------------------------------------------
\* The sum of a company-wide slot's rules, present and about to be inserted.
Claims(k) == Cardinality(RatesIn(CompanyWide(k))) + Cardinality(Creating(CompanyWide(k)))

\* The two conjuncts of SlotsBounded.
CompanyBounded == \A k \in Trade : Claims(k) <= peak[k] + promoted[k]
SitesBounded   == \A k \in Trade, s \in Sites : \A i, j \in RatesIn(AtSite(k, s)) : i = j

\* Removing and changing elements: the facts about cardinalities the steps need.
LEMMA SubsetCounts ==
  ASSUME NEW S, IsFiniteSet(S), NEW T, T \subseteq S
  PROVE  Cardinality(T) \in Nat /\ Cardinality(S) \in Nat /\ Cardinality(T) <= Cardinality(S)
BY FS_Subset, FS_CardinalityType

\* A union has at most as many elements as its parts together.
LEMMA UnionCounts ==
  ASSUME NEW S, IsFiniteSet(S), NEW T, IsFiniteSet(T)
  PROVE  Cardinality(S \cup T) <= Cardinality(S) + Cardinality(T)
<1>1. Cardinality(S \cup T) = Cardinality(S) + Cardinality(T) - Cardinality(S \cap T)
  BY FS_Union
<1>2. IsFiniteSet(S \cap T)
  BY FS_Subset
<1> QED
  BY <1>1, <1>2, FS_CardinalityType, FS_Union

\* The claims on company-wide slots stay bounded: an insertion turns a pending
\* creation into a rule, and a removed site adds what promoted counts.
LEMMA CompanyBoundedStep ==
  ASSUME TypeOK, CompanyBounded, [Next]_vars
  PROVE  CompanyBounded'
<1> SUFFICES ASSUME NEW k \in Trade PROVE (Claims(k) <= peak[k] + promoted[k])'
  BY DEF CompanyBounded
<1> DEFINE t0 == CompanyWide(k)
           R  == RatesIn(t0)
           C  == Creating(t0)
<1>a. /\ IsFiniteSet(R) /\ Cardinality(R) \in Nat
      /\ IsFiniteSet(C) /\ Cardinality(C) \in Nat
  BY CountedAreFinite
<1>b. Cardinality(R) + Cardinality(C) <= peak[k] + promoted[k]
  BY DEF CompanyBounded, Claims
<1>c. peak[k] \in Nat /\ promoted[k] \in Nat
  BY DEF TypeOK
<1>d. t0 \in Slot /\ t0 # NoCall /\ t0.trade = k /\ t0.site = NoSite
  BY NullsAssumption DEF CompanyWide, Slot
<1>e. SUFFICES Cardinality(R') + Cardinality(C') <= peak'[k] + promoted'[k]
  BY DEF Claims
<1> HIDE DEF t0
<1>1. CASE UNCHANGED vars
  BY <1>1, <1>b DEF vars, RatesIn, Present, Creating, t0
<1>2. ASSUME NEW c \in Callers, NEW t \in Slot, FindExisting(c, t)
      PROVE  Cardinality(R') + Cardinality(C') <= peak'[k] + promoted'[k]
  <2>1. R' = R
    BY <1>2 DEF FindExisting, RatesIn, Present, t0
  <2>2. CASE t # t0
    <3>1. C' = C
      BY <1>2, <2>2, <1>d DEF FindExisting, Creating, TypeOK, t0
    <3>2. peak'[k] = peak[k]
      BY <1>2, <2>2 DEF FindExisting, TypeOK, t0, CompanyWide, Slot
    <3> QED
      BY <1>2, <2>1, <3>1, <3>2, <1>b DEF FindExisting
  <2>3. CASE t = t0
    <3>1. C' = C \cup {c} /\ c \notin C
      BY <1>2, <2>3, <1>d DEF FindExisting, Creating, TypeOK, t0
    <3>2. Cardinality(C') = Cardinality(C) + 1
      BY <3>1, <1>a, FS_AddElement
    <3>3. Cardinality(R) = 0
      BY <1>2, <2>3, FS_EmptySet DEF FindExisting, t0
    <3>4. peak'[k] = NewPeak(k)
      BY <1>2, <2>3, <1>d DEF FindExisting, TypeOK
    <3>5. NewPeak(k) >= Cardinality(C) + 1 /\ NewPeak(k) \in Nat
      BY <1>a, <1>c DEF NewPeak, t0
    <3>6. promoted'[k] = promoted[k]
      BY <1>2 DEF FindExisting
    <3> HIDE DEF R, C
    <3> QED
      BY <2>1, <3>2, <3>3, <3>4, <3>5, <3>6, <1>a, <1>c
  <2> QED
    BY <2>2, <2>3
<1>3. ASSUME NEW c \in Callers, InsertRate(c)
      PROVE  Cardinality(R') + Cardinality(C') <= peak'[k] + promoted'[k]
  <2>1. PICK i \in Ids \ Present, terms \in Terms :
          rate' = [rate EXCEPT ![i] = [slot |-> call[c], terms |-> terms]]
    BY <1>3 DEF InsertRate
  <2>2. [slot |-> call[c], terms |-> terms] # NoRate
    BY <1>3, NullsAssumption DEF InsertRate, TypeOK, Rate
  <2>3. peak' = peak /\ promoted' = promoted
    BY <1>3 DEF InsertRate
  <2>4. CASE call[c] = t0
    <3>1. R' = R \cup {i} /\ i \notin R
      BY <2>1, <2>2, <2>4 DEF RatesIn, Present, TypeOK, t0
    <3>2. C' = C \ {c} /\ c \in C
      BY <1>3, <2>4, <1>d DEF InsertRate, Creating, TypeOK, t0
    <3>3. Cardinality(R') = Cardinality(R) + 1
      BY <3>1, <1>a, FS_AddElement
    <3>4. Cardinality(C') = Cardinality(C) - 1
      BY <3>2, <1>a, FS_RemoveElement
    <3> HIDE DEF R, C
    <3> QED
      BY <2>3, <3>3, <3>4, <1>a, <1>b, <1>c
  <2>5. CASE call[c] # t0
    <3>1. R' = R
      BY <2>1, <2>2, <2>5 DEF RatesIn, Present, TypeOK, t0
    <3>2. C' = C
      BY <1>3, <2>5, <1>d DEF InsertRate, Creating, TypeOK, t0
    <3> QED
      BY <2>3, <3>1, <3>2, <1>b
  <2> QED
    BY <2>4, <2>5
<1>4. ASSUME NEW c \in Callers, InsertFails(c)
      PROVE  Cardinality(R') + Cardinality(C') <= peak'[k] + promoted'[k]
  <2>1. R' = R /\ peak' = peak /\ promoted' = promoted
    BY <1>4 DEF InsertFails, RatesIn, Present, t0
  <2>2. C' \subseteq C
    BY <1>4, <1>d DEF InsertFails, Creating, TypeOK, t0
  <2>3. Cardinality(C') \in Nat /\ Cardinality(C') <= Cardinality(C)
    BY <2>2, <1>a, SubsetCounts
  <2> HIDE DEF R, C
  <2> QED
    BY <2>1, <2>3, <1>a, <1>b, <1>c
<1>5. ASSUME NEW i \in Ids, UpdateRate(i)
      PROVE  Cardinality(R') + Cardinality(C') <= peak'[k] + promoted'[k]
  <2>1. PICK terms \in Terms : rate' = [rate EXCEPT ![i].terms = terms]
    BY <1>5 DEF UpdateRate
  <2>2. rate[i] \in Rate /\ rate'[i] = [rate[i] EXCEPT !.terms = terms]
    BY <1>5, <2>1 DEF UpdateRate, Present, TypeOK
  <2>3. rate'[i] # NoRate /\ rate'[i].slot = rate[i].slot
    BY <2>2, NullsAssumption DEF Rate
  <2>4. \A j \in Ids \ {i} : rate'[j] = rate[j]
    BY <2>1 DEF TypeOK
  <2>5. R' = R
    BY <1>5, <2>3, <2>4 DEF UpdateRate, RatesIn, Present, t0
  <2>6. C' = C /\ peak' = peak /\ promoted' = promoted
    BY <1>5 DEF UpdateRate, Creating, t0
  <2> QED
    BY <2>5, <2>6, <1>b
<1>6. ASSUME NEW i \in Ids, RemoveRate(i)
      PROVE  Cardinality(R') + Cardinality(C') <= peak'[k] + promoted'[k]
  <2>1. R' \subseteq R
    BY <1>6 DEF RemoveRate, RatesIn, Present, TypeOK, t0
  <2>2. Cardinality(R') \in Nat /\ Cardinality(R') <= Cardinality(R)
    BY <2>1, <1>a, SubsetCounts
  <2>3. C' = C /\ peak' = peak /\ promoted' = promoted
    BY <1>6 DEF RemoveRate, Creating, t0
  <2> HIDE DEF R, C
  <2> QED
    BY <2>2, <2>3, <1>a, <1>b, <1>c
<1>7. ASSUME NEW s \in Sites, RemoveSite(s)
      PROVE  Cardinality(R') + Cardinality(C') <= peak'[k] + promoted'[k]
  <2> DEFINE M == RatesIn(AtSite(k, s))
  <2>1. IsFiniteSet(M) /\ Cardinality(M) \in Nat
    BY CountedAreFinite
  <2>2. R' \subseteq R \cup M
    <3>1. \A i \in Present : rate[i] \in Rate /\ rate[i].slot \in Slot
      BY DEF Present, TypeOK, Rate
    <3> SUFFICES ASSUME NEW i \in Ids, rate'[i] # NoRate, rate'[i].slot = t0
                 PROVE  i \in R \cup M
      BY DEF RatesIn, Present, t0
    <3>2. CASE i \in Present /\ rate[i].slot.site = s
      <4>1. rate'[i] = [rate[i] EXCEPT !.slot = CompanyWide(rate[i].slot.trade)]
        BY <1>7, <3>2 DEF RemoveSite
      <4>2. rate'[i].slot = CompanyWide(rate[i].slot.trade)
        BY <4>1, <3>1, <3>2 DEF Rate
      <4>3. rate[i].slot.trade = k
        BY <4>2 DEF CompanyWide, t0
      <4>4. rate[i].slot = AtSite(k, s)
        BY <4>3, <3>1, <3>2 DEF AtSite, Slot
      <4> QED
        BY <3>2, <4>4 DEF RatesIn
    <3>3. CASE ~(i \in Present /\ rate[i].slot.site = s)
      <4>1. rate'[i] = rate[i]
        BY <1>7, <3>3 DEF RemoveSite
      <4> QED
        BY <4>1 DEF RatesIn, Present, t0
    <3> QED
      BY <3>2, <3>3
  <2>3. IsFiniteSet(R \cup M)
    BY <1>a, <2>1, FS_Union
  <2>4. Cardinality(R') \in Nat /\ Cardinality(R') <= Cardinality(R \cup M)
        /\ Cardinality(R \cup M) \in Nat
    BY <2>2, <2>3, SubsetCounts
  <2>5. Cardinality(R \cup M) <= Cardinality(R) + Cardinality(M)
    BY <1>a, <2>1, UnionCounts
  <2>6. C' = C /\ peak' = peak
    BY <1>7 DEF RemoveSite, Creating, t0
  <2>7. promoted'[k] = promoted[k] + Cardinality(M)
    BY <1>7 DEF RemoveSite
  <2> HIDE DEF R, C, M
  <2> QED
    BY <2>1, <2>4, <2>5, <2>6, <2>7, <1>a, <1>b, <1>c
<1> QED
  BY <1>1, <1>2, <1>3, <1>4, <1>5, <1>6, <1>7 DEF Next

\* A site keeps at most one rule of a trade: an insertion finds none, and the
\* other operations move no rule to a site.
LEMMA SitesBoundedStep ==
  ASSUME TypeOK, SitesBounded, [Next]_vars
  PROVE  SitesBounded'
<1> SUFFICES ASSUME NEW k \in Trade, NEW s \in Sites
             PROVE  \A i, j \in RatesIn(AtSite(k, s))' : i = j
  BY DEF SitesBounded
<1> DEFINE t0 == AtSite(k, s)
<1>a. t0 \in Slot /\ t0 # NoCall /\ t0.site = s /\ s # NoSite
  BY NullsAssumption DEF AtSite, Slot
<1>b. \A i, j \in RatesIn(t0) : i = j
  BY DEF SitesBounded
<1>c. ASSUME RatesIn(t0)' \subseteq RatesIn(t0) PROVE \A i, j \in RatesIn(t0)' : i = j
  BY <1>b, <1>c
<1> HIDE DEF t0
<1>d. SUFFICES \/ RatesIn(t0)' \subseteq RatesIn(t0)
               \/ \A i, j \in RatesIn(t0)' : i = j
  BY <1>c DEF t0
<1>1. ASSUME UNCHANGED rate PROVE RatesIn(t0)' \subseteq RatesIn(t0)
  BY <1>1 DEF RatesIn, Present, t0
<1>2. ASSUME NEW c \in Callers, InsertRate(c)
      PROVE  \/ RatesIn(t0)' \subseteq RatesIn(t0)
             \/ \A i, j \in RatesIn(t0)' : i = j
  <2>1. PICK i \in Ids \ Present, terms \in Terms :
          rate' = [rate EXCEPT ![i] = [slot |-> call[c], terms |-> terms]]
    BY <1>2 DEF InsertRate
  <2>2. CASE call[c] # t0
    BY <2>1, <2>2 DEF RatesIn, Present, TypeOK, t0
  <2>3. CASE call[c] = t0
    <3>1. RatesIn(t0) = {}
      BY <1>2, <1>a, <2>3 DEF InsertRate
    <3>2. RatesIn(t0)' \subseteq {i}
      BY <2>1, <3>1 DEF RatesIn, Present, TypeOK, t0
    <3> QED
      BY <3>2
  <2> QED
    BY <2>2, <2>3
<1>3. ASSUME NEW i \in Ids, UpdateRate(i)
      PROVE  RatesIn(t0)' \subseteq RatesIn(t0)
  <2>1. PICK terms \in Terms : rate' = [rate EXCEPT ![i].terms = terms]
    BY <1>3 DEF UpdateRate
  <2>2. rate[i] \in Rate /\ rate'[i] = [rate[i] EXCEPT !.terms = terms]
    BY <1>3, <2>1 DEF UpdateRate, Present, TypeOK
  <2>3. rate'[i].slot = rate[i].slot
    BY <2>2 DEF Rate
  <2>4. \A j \in Ids \ {i} : rate'[j] = rate[j]
    BY <2>1 DEF TypeOK
  <2> QED
    BY <1>3, <2>3, <2>4 DEF UpdateRate, RatesIn, Present, t0
<1>4. ASSUME NEW i \in Ids, RemoveRate(i)
      PROVE  RatesIn(t0)' \subseteq RatesIn(t0)
  BY <1>4 DEF RemoveRate, RatesIn, Present, TypeOK, t0
<1>5. ASSUME NEW r \in Sites, RemoveSite(r)
      PROVE  RatesIn(t0)' \subseteq RatesIn(t0)
  <2> SUFFICES ASSUME NEW i \in Ids, rate'[i] # NoRate, rate'[i].slot = t0
               PROVE  i \in RatesIn(t0)
    BY DEF RatesIn, Present, t0
  <2>1. CASE i \in Present /\ rate[i].slot.site = r
    <3>1. rate[i] \in Rate
      BY <2>1 DEF Present, TypeOK
    <3>2. rate'[i] = [rate[i] EXCEPT !.slot = CompanyWide(rate[i].slot.trade)]
      BY <1>5, <2>1 DEF RemoveSite
    <3>3. rate'[i].slot = CompanyWide(rate[i].slot.trade)
      BY <3>1, <3>2 DEF Rate
    <3>4. rate'[i].slot.site = NoSite
      BY <3>3 DEF CompanyWide
    <3> QED
      BY <3>4, <1>a
  <2>2. CASE ~(i \in Present /\ rate[i].slot.site = r)
    <3>1. rate'[i] = rate[i]
      BY <1>5, <2>2 DEF RemoveSite
    <3> QED
      BY <3>1 DEF RatesIn, Present, t0
  <2> QED
    BY <2>1, <2>2
<1>6. CASE UNCHANGED vars
  BY <1>1, <1>6 DEF vars
<1>7. ASSUME NEW c \in Callers, \/ InsertFails(c) \/ \E t \in Slot : FindExisting(c, t)
      PROVE  RatesIn(t0)' \subseteq RatesIn(t0)
  BY <1>1, <1>7 DEF InsertFails, FindExisting
<1> QED
  BY <1>2, <1>3, <1>4, <1>5, <1>6, <1>7 DEF Next

\* PaymentService and the removal of sites keep the rules of a slot within the
\* creations that overlapped and the site rules that lost their site.
THEOREM RulesPerSlotAreBounded == Spec => []SlotsBounded
<1> DEFINE Inv == CompanyBounded /\ SitesBounded
<1>1. Init => Inv
  <2> SUFFICES ASSUME Init PROVE Inv
    OBVIOUS
  <2>1. \A t \in Slot : RatesIn(t) = {}
    BY DEF Init, RatesIn, Present
  <2>2. \A t \in Slot : Creating(t) = {}
    BY NullsAssumption DEF Init, Creating
  <2>3. CompanyBounded
    <3> SUFFICES ASSUME NEW k \in Trade PROVE Claims(k) <= peak[k] + promoted[k]
      BY DEF CompanyBounded
    <3>1. CompanyWide(k) \in Slot
      BY DEF CompanyWide, Slot
    <3>2. Claims(k) = 0
      BY <3>1, <2>1, <2>2, FS_EmptySet DEF Claims
    <3> QED
      BY <3>2 DEF Init
  <2>4. SitesBounded
    BY <2>1, SlotsAndRates DEF SitesBounded
  <2> QED
    BY <2>3, <2>4
<1>2. TypeOK /\ Inv /\ [Next]_vars => Inv'
  BY CompanyBoundedStep, SitesBoundedStep
<1>3. Inv => SlotsBounded
  BY DEF CompanyBounded, SitesBounded, SlotsBounded, Claims
<1> HIDE DEF Inv
<1> QED
  BY <1>1, <1>2, <1>3, TypeCorrect, PTL DEF Spec

-----------------------------------------------------------------------------
\* What the batch query returns for a worker of the batch, once the candidates
\* are filtered, is what the single query returns.
LEMMA SameCandidates ==
  ASSUME TypeOK, NEW W \in SUBSET Worker, NEW w \in W, NEW s
  PROVE  {i \in Fetched(W, s) : rate[i].slot.trade = w.trade} = Fetched({w}, s)
<1>1. \A i \in Present : rate[i].slot.trade \in Trade
  BY DEF Present, TypeOK, Rate, Slot
<1>2. w.trade \in Trade
  BY DEF Worker
<1>3. \A i \in Present : rate[i].slot.trade = w.trade
        <=> /\ rate[i].slot.trade.company = w.trade.company
            /\ rate[i].slot.trade.profession = w.trade.profession
  BY <1>1, <1>2 DEF Trade
<1> QED
  BY <1>3 DEF Fetched

\* A rule fetched for a worker is of the worker's trade.
LEMMA FetchedRules ==
  ASSUME TypeOK, NEW w \in Worker, NEW s
  PROVE  \A i \in Fetched({w}, s) :
           /\ i \in Present /\ rate[i].slot \in Slot /\ rate[i].slot.trade = w.trade
           /\ rate[i].slot.site = NoSite => i \in RatesIn(CompanyWide(w.trade))
           /\ rate[i].slot.site = s      => i \in RatesIn(AtSite(w.trade, s))
<1> SUFFICES ASSUME NEW i \in Fetched({w}, s)
             PROVE  /\ i \in Present /\ rate[i].slot \in Slot /\ rate[i].slot.trade = w.trade
                    /\ rate[i].slot.site = NoSite => i \in RatesIn(CompanyWide(w.trade))
                    /\ rate[i].slot.site = s      => i \in RatesIn(AtSite(w.trade, s))
  OBVIOUS
<1>1. i \in Present /\ rate[i].slot \in Slot /\ rate[i].slot.trade \in Trade /\ w.trade \in Trade
  BY DEF Fetched, Present, TypeOK, Rate, Slot, Worker
<1>2. rate[i].slot.trade = w.trade
  BY <1>1 DEF Fetched, Trade
<1> QED
  BY <1>1, <1>2 DEF RatesIn, CompanyWide, AtSite, Slot

\* Rows that say the same make one salary.
LEMMA OneSalary ==
  ASSUME NEW w, NEW h, NEW rows,
         \A i, j \in rows : rate[i].terms = rate[j].terms,
         NEW r \in AnyOf(rows), NEW q \in AnyOf(rows), \A i \in rows : rate[i] # NoRate
  PROVE  Salary(w, r, h) = Salary(w, q, h)
<1>1. CASE rows = {}
  BY <1>1 DEF AnyOf
<1>2. CASE rows # {}
  <2>1. r # NoRate /\ q # NoRate /\ r.terms = q.terms
    BY <1>2 DEF AnyOf
  <2> QED
    BY <2>1 DEF Salary, Gross, HourlyWage, CalcMode
<1> QED
  BY <1>1, <1>2

\* SalaryService.calculate and calculateMany pay a worker the same, for every reachable
\* table, every batch and every order of the rows, unless a site rule and a company rule
\* both apply or the company-wide rules contradict each other: a site has one rule.
THEOREM ResolutionsAgree == Spec => []PaidAlike
<1>1. TypeOK /\ SlotsBounded => PaidAlike
  <2> SUFFICES ASSUME TypeOK, SlotsBounded, NEW w \in Worker, NEW v \in Worker,
                      NEW s \in Sites \cup {NoSite}, NEW h \in Hours,
                      ~Overridden(w, s), ~Contradicted(w.trade),
                      NEW r \in SingleRules(w, s), NEW q \in BatchRules(w, {w, v}, s)
               PROVE  Salary(w, r, h) = Salary(w, q, h)
    BY DEF PaidAlike, Calculate, CalculateMany
  <2> DEFINE F == Fetched({w}, s)
             general  == {i \in F : rate[i].slot.site = NoSite}
             specific == {i \in F : rate[i].slot.site = s}
  <2>1. {i \in Fetched({w, v}, s) : rate[i].slot.trade = w.trade} = F
    BY SameCandidates
  <2>2. q \in AnyOf(IF specific # {} THEN specific ELSE general)
    BY <2>1 DEF BatchRules
  <2>3. r \in AnyOf(IF general # {} THEN general ELSE F)
    BY DEF SingleRules
  <2>4. F = general \cup specific
    BY DEF Fetched
  <2>5. s = NoSite \/ general = {} \/ specific = {}
    BY FetchedRules DEF Overridden
  <2>6. \A i, j \in general : rate[i].terms = rate[j].terms
    BY FetchedRules DEF Contradicted
  <2>7. w.trade \in Trade
    BY DEF Worker
  <2>8. s # NoSite => \A i, j \in specific : i = j
    BY <2>7, FetchedRules DEF SlotsBounded
  <2>9. \A i \in F : rate[i] # NoRate
    BY DEF Fetched, Present
  <2>10. s = NoSite => general = specific
    OBVIOUS
  <2> HIDE DEF F, general, specific
  <2>11. PICK rows \in {general, specific} :
           /\ r \in AnyOf(rows) /\ q \in AnyOf(rows)
           /\ rows \subseteq F
           /\ \A i, j \in rows : rate[i].terms = rate[j].terms
    <3>1. CASE s = NoSite
      BY <2>2, <2>3, <2>4, <2>6, <2>10, <3>1
    <3>2. CASE s # NoSite /\ general = {}
      BY <2>2, <2>3, <2>4, <2>8, <3>2
    <3>3. CASE s # NoSite /\ specific = {}
      BY <2>2, <2>3, <2>4, <2>6, <3>3
    <3> QED
      BY <2>5, <3>1, <3>2, <3>3
  <2> QED
    BY <2>9, <2>11, OneSalary
<1> QED
  BY <1>1, TypeCorrect, RulesPerSlotAreBounded, PTL

-----------------------------------------------------------------------------
(* RenderJob.                                                              *)

\* A caller between its first poll and the answer that settles the job has sent one
\* poll per interval at most, and sleeps only before the deadline.
CadenceInv ==
  \A c \in Handlers :
    /\ stage[c] \in {"poll", "answered", "sleep"} => polls[c] <= clock[c] + 1
    /\ stage[c] = "sleep" => ~Expired(c)

\* The inductive invariant of RenderSpec.
RenderInv == RenderTypeOK /\ CadenceInv /\ PollsBounded

LEMMA RenderInitInv == RenderInit => RenderInv
BY PollTimeoutAssumption DEF RenderInit, RenderInv, RenderTypeOK, Statuses, CadenceInv, PollsBounded

\* The steps that only move a caller to a stage where no poll is due.
LEMMA GotoInv ==
  ASSUME RenderInv, NEW c \in Handlers, NEW s, Goto(c, s),
         s \in {"idle", "local", "pdf", "error", "create", "download"},
         job' \in [Handlers -> Statuses],
         UNCHANGED <<answer, clock, polls>>
  PROVE  RenderInv'
<1> USE DEF RenderInv
<1>1. RenderTypeOK'
  BY DEF RenderTypeOK, Goto, Fetching
<1>2. CadenceInv'
  BY DEF CadenceInv, RenderTypeOK, Goto, Expired
<1>3. PollsBounded'
  BY DEF PollsBounded
<1> QED
  BY <1>1, <1>2, <1>3

LEMMA CreateJobInv ==
  ASSUME RenderInv, NEW c \in Handlers, CreateJob(c)
  PROVE  RenderInv'
<1> USE PollTimeoutAssumption DEF RenderInv
<1>1. RenderTypeOK'
  BY DEF CreateJob, Goto, RenderTypeOK, Fetching, Statuses
<1>2. CadenceInv'
  BY DEF CreateJob, Goto, RenderTypeOK, CadenceInv, Expired
<1>3. PollsBounded'
  BY DEF CreateJob, RenderTypeOK, PollsBounded
<1> QED
  BY <1>1, <1>2, <1>3

\* Serving and settling a poll: an answer that settles nothing leads to a sleep only
\* while the deadline has not passed.
LEMMA AnswerInv ==
  ASSUME RenderInv, NEW c \in Handlers, Serve(c) \/ Receive(c)
  PROVE  RenderInv'
<1> USE DEF RenderInv
<1>1. /\ stage[c] \in {"poll", "answered"}
      /\ UNCHANGED <<job, clock, polls>> /\ answer' \in [Handlers -> Statuses]
  BY DEF Serve, Receive, RenderTypeOK
<1>2. PICK s \in {"answered", "download", "error", "sleep"} :
        Goto(c, s) /\ (s = "sleep" => ~Expired(c))
  BY DEF Serve, Receive, Continue
<1>3. RenderTypeOK'
  BY <1>1, <1>2 DEF Goto, RenderTypeOK, Fetching
<1>4. CadenceInv'
  BY <1>1, <1>2 DEF Goto, RenderTypeOK, CadenceInv, Expired
<1>5. PollsBounded'
  BY <1>1 DEF PollsBounded
<1> QED
  BY <1>3, <1>4, <1>5

\* Time passes, on the network or in the sleep before the next poll.
LEMMA TimeInv ==
  ASSUME RenderInv, NEW c \in Handlers, Wait(c) \/ Wake(c)
  PROVE  RenderInv'
<1> USE PollTimeoutAssumption DEF RenderInv
<1>1. /\ clock[c] \in 0..(PollTimeout + 1) /\ polls[c] \in 0..(PollTimeout + 3)
      /\ stage[c] \in {"poll", "answered", "sleep"}
      /\ polls[c] <= clock[c] + 1 /\ clock[c] <= PollTimeout
      /\ clock' = [clock EXCEPT ![c] = clock[c] + 1]
      /\ UNCHANGED <<job, answer>>
  BY DEF Wait, Wake, Later, Expired, RenderTypeOK, CadenceInv
<1>2. CASE Wait(c)
  <2>1. RenderTypeOK'
    BY <1>1, <1>2 DEF Wait, RenderTypeOK
  <2>2. CadenceInv' /\ PollsBounded'
    BY <1>1, <1>2 DEF Wait, RenderTypeOK, CadenceInv, PollsBounded, Expired
  <2> QED
    BY <2>1, <2>2
<1>3. CASE Wake(c)
  <2>1. polls' = [polls EXCEPT ![c] = polls[c] + 1] /\ Goto(c, "poll")
    <3>1. ~(polls[c] > PollTimeout + 2)
      BY <1>1
    <3> QED
      BY <1>3, <3>1 DEF Wake
  <2>2. RenderTypeOK'
    BY <1>1, <2>1 DEF Goto, RenderTypeOK, Fetching
  <2>3. CadenceInv'
    BY <1>1, <2>1 DEF Goto, RenderTypeOK, CadenceInv, Expired
  <2>4. PollsBounded'
    BY <1>1, <2>1 DEF RenderTypeOK, PollsBounded
  <2> QED
    BY <2>2, <2>3, <2>4
<1> QED
  BY <1>2, <1>3

LEMMA TakeRenderInv ==
  ASSUME RenderInv, NEW c \in Handlers, TakeRender(c)
  PROVE  RenderInv'
<1> USE PollTimeoutAssumption DEF RenderInv
<1>1. RenderTypeOK'
  BY DEF TakeRender, Goto, RenderTypeOK, Statuses
<1>2. CadenceInv'
  BY DEF TakeRender, Goto, RenderTypeOK, CadenceInv, Expired
<1>3. PollsBounded'
  BY DEF TakeRender, RenderTypeOK, PollsBounded
<1> QED
  BY <1>1, <1>2, <1>3

\* The remaining steps of a caller move it with Goto, or only its job.
LEMMA OtherSteps ==
  ASSUME RenderInv, NEW c \in Handlers,
         StartRender(c) \/ RenderInProcess(c) \/ Download(c) \/ FetchFails(c)
  PROVE  \E s \in {"local", "pdf", "error", "create"} :
           /\ Goto(c, s)
           /\ job' \in [Handlers -> Statuses]
           /\ UNCHANGED <<answer, clock, polls>>
BY DEF StartRender, RenderInProcess, Download, FetchFails, RenderInv, RenderTypeOK, Statuses

LEMMA RenderNextInv == RenderInv /\ [RenderNext]_renderVars => RenderInv'
<1> SUFFICES ASSUME RenderInv, [RenderNext]_renderVars PROVE RenderInv'
  OBVIOUS
<1>1. CASE UNCHANGED renderVars
  BY <1>1 DEF renderVars, RenderInv, RenderTypeOK, CadenceInv, PollsBounded, Expired
<1>2. ASSUME NEW c \in Handlers,
             StartRender(c) \/ RenderInProcess(c) \/ Download(c) \/ FetchFails(c)
      PROVE  RenderInv'
  BY <1>2, OtherSteps, GotoInv
<1>3. ASSUME NEW c \in Handlers, Progress(c) PROVE RenderInv'
  BY <1>3 DEF Progress, RenderInv, RenderTypeOK, Statuses, CadenceInv, PollsBounded, Expired
<1> QED
  BY <1>1, <1>2, <1>3, CreateJobInv, AnswerInv, TimeInv, TakeRenderInv
     DEF RenderNext, RenderStep, Environment

LEMMA RenderInvariance == RenderSpec => []RenderInv
BY RenderInitInv, RenderNextInv, PTL DEF RenderSpec

\* htmlToPdf, "bounded - never spins forever": whatever the provider answers and however
\* late, a rendering sends one poll per interval of the deadline and one more.
THEOREM PollsAreBounded == RenderSpec => []PollsBounded
<1>1. RenderInv => PollsBounded
  BY DEF RenderInv
<1> QED
  BY <1>1, RenderInvariance, PTL

-----------------------------------------------------------------------------
(* The promise.                                                            *)

\* What a caller can tell of a rendering changes with the stage, for that caller only.
LEMMA OutcomeMoves ==
  ASSUME RenderTypeOK, NEW c \in Handlers, NEW s, Goto(c, s)
  PROVE  /\ Outcome[c] = OutcomeOf(stage[c])
         /\ Outcome' = [Outcome EXCEPT ![c] = OutcomeOf(s)]
<1>1. \A d \in Handlers : stage'[d] = IF d = c THEN s ELSE stage[d]
  BY DEF RenderTypeOK, Goto
<1>2. Outcome' = [d \in Handlers |-> OutcomeOf(stage'[d])]
  BY DEF Outcome, OutcomeOf
<1>3. \A d \in Handlers : Outcome'[d] = IF d = c THEN OutcomeOf(s) ELSE Outcome[d]
  BY <1>1, <1>2 DEF Outcome
<1> QED
  BY <1>2, <1>3 DEF Outcome

\* A step that leaves the stages leaves what can be told.
LEMMA OutcomeStays ==
  ASSUME stage' = stage
  PROVE  Outcome' = Outcome
BY DEF Outcome

LEMMA RunningToRunning ==
  ASSUME RenderTypeOK, NEW c \in Handlers, NEW s, Goto(c, s),
         OutcomeOf(s) = OutcomeOf(stage[c])
  PROVE  Outcome' = Outcome
<1>1. Outcome' = [Outcome EXCEPT ![c] = Outcome[c]]
  BY OutcomeMoves
<1> QED
  BY <1>1 DEF Outcome

\* The event loop and the provider drive a rendering that runs: it keeps running or
\* ends with a PDF or an error.
LEMMA RunningSteps ==
  ASSUME RenderTypeOK, NEW c \in Handlers, RenderStep(c)
  PROVE  Outcome' = Outcome \/ Promise!Finish(c)
<1>1. PICK s \in Fetching \cup {"sleep", "pdf", "error"} : Goto(c, s)
  BY DEF RenderStep, RenderInProcess, CreateJob, Serve, Receive, Wake, Download, FetchFails, Fetching
<1>2. stage[c] \in Fetching \cup {"local", "sleep"}
  BY DEF RenderStep, RenderInProcess, CreateJob, Serve, Receive, Wake, Download, FetchFails, Fetching
<1>3. OutcomeOf(stage[c]) = "running"
  BY <1>2 DEF OutcomeOf, Fetching
<1>4. CASE s \in {"pdf", "error"}
  <2>1. OutcomeOf(s) = s
    BY <1>4 DEF OutcomeOf
  <2> QED
    BY <1>1, <1>3, <1>4, <2>1, OutcomeMoves DEF Promise!Finish
<1>5. CASE s \notin {"pdf", "error"}
  <2>1. OutcomeOf(s) = "running"
    BY <1>1, <1>5 DEF OutcomeOf, Fetching
  <2> QED
    BY <1>1, <1>3, <2>1, RunningToRunning
<1> QED
  BY <1>4, <1>5

LEMMA StepIsPromised ==
  ASSUME RenderTypeOK, [RenderNext]_renderVars
  PROVE  [Promise!Next]_Outcome
<1>1. CASE UNCHANGED renderVars
  BY <1>1, OutcomeStays DEF renderVars
<1>2. ASSUME NEW c \in Handlers, StartRender(c) PROVE Promise!Start(c)
  <2>1. PICK s \in {"create", "local"} : Goto(c, s)
    BY <1>2 DEF StartRender
  <2>2. OutcomeOf(stage[c]) = "none" /\ OutcomeOf(s) = "running"
    BY <1>2, <2>1 DEF StartRender, OutcomeOf
  <2> QED
    BY <2>1, <2>2, OutcomeMoves DEF Promise!Start
<1>3. ASSUME NEW c \in Handlers, TakeRender(c) PROVE Promise!Take(c)
  <2>1. stage[c] \in {"pdf", "error"} /\ Goto(c, "idle")
    BY <1>3 DEF TakeRender
  <2>2. OutcomeOf(stage[c]) \in {"pdf", "error"} /\ OutcomeOf("idle") = "none"
    BY <2>1 DEF OutcomeOf
  <2> QED
    BY <2>1, <2>2, OutcomeMoves DEF Promise!Take
<1>4. ASSUME NEW c \in Handlers, Environment(c) PROVE Outcome' = Outcome
  BY <1>4, OutcomeStays DEF Environment, Progress, Wait
<1> QED
  BY <1>1, <1>2, <1>3, <1>4, RunningSteps DEF RenderNext, Promise!Next

\* ReportsService.renderPdf: whichever of the two renderers runs, a rendering that was
\* started ends once, with a PDF or an error, and what it ended with stands until the
\* caller takes it.  (That it does end is checked by TLC.)
THEOREM RenderingKeepsItsPromise == RenderSpec => Promise!Steps
<1>1. RenderInit => Promise!Init
  BY DEF RenderInit, Promise!Init, Outcome, OutcomeOf
<1>2. RenderInv /\ [RenderNext]_renderVars => [Promise!Next]_Outcome
  BY StepIsPromised DEF RenderInv
<1> QED
  BY <1>1, <1>2, RenderInvariance, PTL DEF RenderSpec, Promise!Steps

-----------------------------------------------------------------------------
(* PayslipShare.                                                           *)

\* The steps of an endpoint that touch the renderer start a rendering, wait for it or
\* take what it ended with.
LEMMA SlipStepIsRenderStep ==
  ASSUME [SlipNext]_slipVars
  PROVE  [RenderNext]_renderVars
<1>1. CASE UNCHANGED slipVars
  BY <1>1 DEF slipVars
<1>2. ASSUME NEW c \in Handlers, NEW kind, NEW site, BeginShare(c, kind, site)
      PROVE  UNCHANGED renderVars
  BY <1>2 DEF BeginShare
<1>3. ASSUME NEW c \in Handlers, Handler(c)
      PROVE  StartRender(c) \/ TakeRender(c) \/ UNCHANGED renderVars
  BY <1>3 DEF Handler, ReadSalary, ReadHours, ReadFails, RenderFailed, Rendered,
              Upload, HandOver, DeliveryFails
<1>4. ASSUME NEW c \in Handlers, Rendering(c)
      PROVE  RenderStep(c) \/ Environment(c)
  BY <1>4 DEF Rendering
<1>5. CASE EditHours \/ EditWorker \/ RemoveWorker
  BY <1>5 DEF EditHours, EditWorker, RemoveWorker
<1> QED
  BY <1>1, <1>2, <1>3, <1>4, <1>5 DEF SlipNext, RenderNext

\* The actions of the payslip endpoints are built from RenderJob's, so what holds of every
\* rendering holds of theirs.
LEMMA EndpointsUseTheRenderer == SlipSpec => RenderSpec
<1>1. SlipInit => RenderInit
  BY DEF SlipInit
<1> QED
  BY <1>1, SlipStepIsRenderStep, PTL DEF SlipSpec, RenderSpec

\* The hours of a worker are finitely many, and there are no more of them at one place.
LEMMA HoursAreCounted ==
  ASSUME worked \in SUBSET Hour, NEW p
  PROVE  /\ Cardinality(worked) \in Nat
         /\ Cardinality(HoursAt(p)) \in Nat
         /\ Cardinality(HoursAt(p)) <= Cardinality(worked)
<1>1. IsFiniteSet(Places)
  BY SharesAssumption, FS_AddElement DEF Places
<1>2. IsFiniteSet(1..MaxHours)
  BY SharesAssumption, FS_Interval
<1>3. IsFiniteSet(Hour)
  BY <1>1, <1>2, FS_Product DEF Hour
<1>4. IsFiniteSet(worked)
  BY <1>3, FS_Subset
<1>5. HoursAt(p) \in SUBSET worked
  BY DEF HoursAt
<1>6. IsFiniteSet(HoursAt(p)) /\ Cardinality(HoursAt(p)) <= Cardinality(worked)
  BY <1>4, <1>5, FS_Subset
<1> QED
  BY <1>4, <1>6, FS_CardinalityType

\* Between its two queries a share has the hours the worker has, unless a record changed
\* since.
SumsInv ==
  \A c \in Handlers :
    step[c] = "hours" /\ ~share[c].between => share[c].paid = Cardinality(worked)

\* The inductive invariant of SlipSpec, beside the types.
SlipInv == SumsInv /\ SlipsAddUp

\* A share that is at step s with the locals v, when the worker has the hours W.
Fits(s, v, W) ==
  \/ s = "idle" /\ v = NoShare
  \/ /\ s \in {"salary", "hours", "render", "send", "upload", "sign"}
     /\ v \in Share
     /\ s = "hours" /\ ~v.between => v.paid = Cardinality(W)
     /\ s \in {"render", "send", "upload", "sign"} /\ ~v.between =>
          IF v.site = AllSites THEN v.table = v.paid ELSE v.table <= v.paid

\* c's share moves to a step and locals that fit; the others and the records stay.
LEMMA OneShareMoves ==
  ASSUME SlipTypeOK, SlipInv, NEW c \in Handlers, NEW s, NEW v, Fits(s, v, worked),
         To(c, s), share' = [share EXCEPT ![c] = v], UNCHANGED workerVars,
         RenderTypeOK', stage'[c] # "idle" <=> s = "render",
         \A d \in Handlers \ {c} : stage'[d] = stage[d]
  PROVE  SlipTypeOK' /\ SlipInv'
<1>1. /\ step'[c] = s /\ share'[c] = v
      /\ \A d \in Handlers \ {c} : step'[d] = step[d] /\ share'[d] = share[d]
  BY DEF To, SlipTypeOK
<1>2. SlipTypeOK'
  <2>1. /\ step'  \in [Handlers -> {"idle", "salary", "hours", "render", "send", "upload", "sign"}]
        /\ share' \in [Handlers -> Share \cup {NoShare}]
    BY DEF To, SlipTypeOK, Fits
  <2>2. \A d \in Handlers : /\ step'[d] = "idle" <=> share'[d] = NoShare
                            /\ stage'[d] # "idle" <=> step'[d] = "render"
    BY <1>1, SharesAssumption DEF SlipTypeOK, Fits
  <2> QED
    BY <2>1, <2>2 DEF SlipTypeOK, workerVars
<1>3. SumsInv'
  BY <1>1 DEF SlipInv, SumsInv, workerVars, Fits
<1>4. SlipsAddUp'
  BY <1>1 DEF SlipInv, SlipsAddUp, Fits
<1> QED
  BY <1>2, <1>3, <1>4 DEF SlipInv

LEMMA BeginShareInv ==
  ASSUME SlipTypeOK, SlipInv, RenderTypeOK', NEW c \in Handlers,
         NEW kind \in Kinds, NEW site \in WorkSites \cup {AllSites}, BeginShare(c, kind, site)
  PROVE  SlipTypeOK' /\ SlipInv'
<1> DEFINE v == [kind |-> kind, site |-> site, paid |-> 0, table |-> 0, between |-> FALSE]
<1>1. v \in Share
  BY DEF Share
<1>2. /\ To(c, "salary") /\ share' = [share EXCEPT ![c] = v] /\ UNCHANGED workerVars
      /\ stage' = stage /\ stage[c] = "idle"
  BY DEF BeginShare, renderVars, SlipTypeOK
<1> HIDE DEF v
<1>3. Fits("salary", v, worked)
  BY <1>1 DEF Fits
<1> QED
  BY <1>2, <1>3, OneShareMoves

\* A call that throws or has answered leaves nothing behind.
LEMMA EndShareInv ==
  ASSUME SlipTypeOK, SlipInv, RenderTypeOK', NEW c \in Handlers,
         To(c, "idle"), share' = [share EXCEPT ![c] = NoShare], UNCHANGED workerVars,
         stage'[c] = "idle", \A d \in Handlers \ {c} : stage'[d] = stage[d]
  PROVE  SlipTypeOK' /\ SlipInv'
<1>1. Fits("idle", NoShare, worked)
  BY DEF Fits
<1> QED
  BY <1>1, OneShareMoves

\* Taking the outcome of a rendering makes its caller idle.
LEMMA TakenIsIdle ==
  ASSUME SlipTypeOK, NEW c \in Handlers, TakeRender(c)
  PROVE  stage'[c] = "idle" /\ \A d \in Handlers \ {c} : stage'[d] = stage[d]
BY DEF TakeRender, Goto, SlipTypeOK, RenderTypeOK

\* A share whose handler is at a step has its locals.
LEMMA ShareThere ==
  ASSUME SlipTypeOK, NEW c \in Handlers, step[c] # "idle"
  PROVE  share[c] \in Share
BY DEF SlipTypeOK

LEMMA ReadSalaryInv ==
  ASSUME SlipTypeOK, SlipInv, RenderTypeOK', NEW c \in Handlers, ReadSalary(c)
  PROVE  SlipTypeOK' /\ SlipInv'
<1> DEFINE v == [share[c] EXCEPT !.paid = Cardinality(worked)]
<1>1. share[c] \in Share
  BY ShareThere DEF ReadSalary
<1>2. Cardinality(worked) \in Nat
  BY HoursAreCounted DEF SlipTypeOK
<1>3. v \in Share /\ v.paid = Cardinality(worked)
  BY <1>1, <1>2 DEF Share
<1>4. /\ To(c, "hours") /\ share' = [share EXCEPT ![c] = v] /\ UNCHANGED workerVars
      /\ stage' = stage /\ stage[c] = "idle"
  BY DEF ReadSalary, renderVars, SlipTypeOK
<1> HIDE DEF v
<1>5. Fits("hours", v, worked)
  BY <1>3 DEF Fits
<1> QED
  BY <1>4, <1>5, OneShareMoves

LEMMA ReadHoursInv ==
  ASSUME SlipTypeOK, SlipInv, RenderTypeOK', NEW c \in Handlers, ReadHours(c)
  PROVE  SlipTypeOK' /\ SlipInv'
<1> DEFINE n == TableHours(share[c].site)
           v == [share[c] EXCEPT !.table = n]
<1>1. share[c] \in Share
  BY ShareThere DEF ReadHours
<1>2. /\ n \in Nat
      /\ share[c].site = AllSites => n = Cardinality(worked)
      /\ n <= Cardinality(worked) /\ Cardinality(worked) \in Nat
  BY HoursAreCounted DEF SlipTypeOK, TableHours
<1> HIDE DEF n
<1>3. /\ v \in Share /\ v.table = n
      /\ v.paid = share[c].paid /\ v.site = share[c].site /\ v.between = share[c].between
  BY <1>1, <1>2 DEF Share
<1>4. ~share[c].between => share[c].paid = Cardinality(worked)
  BY DEF ReadHours, SlipInv, SumsInv
<1>5. ~v.between => IF v.site = AllSites THEN v.table = v.paid ELSE v.table <= v.paid
  BY <1>2, <1>3, <1>4
<1>6. /\ To(c, "render") /\ share' = [share EXCEPT ![c] = v] /\ UNCHANGED workerVars
      /\ StartRender(c)
  BY DEF ReadHours, n
<1>7. stage'[c] # "idle" /\ \A d \in Handlers \ {c} : stage'[d] = stage[d]
  BY <1>6 DEF StartRender, Goto, SlipTypeOK, RenderTypeOK
<1> HIDE DEF v
<1>8. Fits("render", v, worked)
  BY <1>3, <1>5 DEF Fits
<1> QED
  BY <1>6, <1>7, <1>8, OneShareMoves

\* From the rendering on, a share carries its two numbers unchanged.
LEMMA CarryInv ==
  ASSUME SlipTypeOK, SlipInv, RenderTypeOK', NEW c \in Handlers, Rendered(c) \/ Upload(c)
  PROVE  SlipTypeOK' /\ SlipInv'
<1>1. step[c] \in {"render", "upload"}
  BY DEF Rendered, Upload, SlipTypeOK
<1>2. share[c] \in Share
  BY <1>1, ShareThere
<1>3. share' = [share EXCEPT ![c] = share[c]] /\ UNCHANGED workerVars
  BY DEF Rendered, Upload, SlipTypeOK
<1>4. PICK s \in {"send", "upload", "sign"} : To(c, s)
  BY DEF Rendered, Upload
<1>5. stage'[c] = "idle" /\ \A d \in Handlers \ {c} : stage'[d] = stage[d]
  BY <1>1, TakenIsIdle DEF Rendered, Upload, renderVars, SlipTypeOK
<1>6. ~share[c].between =>
        IF share[c].site = AllSites THEN share[c].table = share[c].paid
                                    ELSE share[c].table <= share[c].paid
  BY <1>1 DEF SlipInv, SlipsAddUp
<1>7. Fits(s, share[c], worked)
  BY <1>2, <1>4, <1>6 DEF Fits
<1> QED
  BY <1>3, <1>4, <1>5, <1>7, OneShareMoves

LEMMA HandlerInv ==
  ASSUME SlipTypeOK, SlipInv, RenderTypeOK', NEW c \in Handlers, Handler(c)
  PROVE  SlipTypeOK' /\ SlipInv'
<1>1. CASE ReadFails(c) \/ HandOver(c) \/ DeliveryFails(c)
  <2>1. /\ To(c, "idle") /\ share' = [share EXCEPT ![c] = NoShare] /\ UNCHANGED workerVars
        /\ stage' = stage /\ stage[c] = "idle"
    BY <1>1 DEF ReadFails, HandOver, DeliveryFails, Fail, workerVars, renderVars, SlipTypeOK
  <2> QED
    BY <2>1, EndShareInv
<1>2. CASE RenderFailed(c)
  BY <1>2, TakenIsIdle, EndShareInv DEF RenderFailed, Fail
<1> QED
  BY <1>1, <1>2, ReadSalaryInv, ReadHoursInv, CarryInv DEF Handler

\* A change of the records marks every share that is between its queries, so that
\* nothing is claimed of it.
LEMMA RecordsChangeInv ==
  ASSUME SlipTypeOK, SlipInv, EditHours \/ RemoveWorker
  PROVE  SlipTypeOK' /\ SlipInv'
<1>1. UNCHANGED <<stage, job, answer, clock, polls, address, step>>
  BY DEF EditHours, RemoveWorker, renderVars
<1>2. share' = [d \in Handlers |-> IF step[d] = "hours"
                                  THEN [share[d] EXCEPT !.between = TRUE] ELSE share[d]]
  BY DEF EditHours, RemoveWorker
<1>3. employed' \in BOOLEAN /\ worked' \in SUBSET Hour
  <2>1. CASE RemoveWorker
    BY <2>1 DEF RemoveWorker
  <2>2. CASE EditHours
    <3>1. PICK p \in Places, q \in Places :
            \E had \in SUBSET HoursAt(p), has \in SUBSET ({q} \X (1..MaxHours)) :
              worked' = (worked \ had) \cup has
      BY <2>2 DEF EditHours
    <3> QED
      BY <2>2, <3>1 DEF EditHours, SlipTypeOK, Hour
  <2> QED
    BY <2>1, <2>2
<1>4. \A d \in Handlers :
        IF step[d] = "hours"
        THEN share'[d] \in Share /\ share'[d] # NoShare /\ share'[d].between
        ELSE share'[d] = share[d]
  <2> SUFFICES ASSUME NEW d \in Handlers, step[d] = "hours"
               PROVE  share'[d] \in Share /\ share'[d] # NoShare /\ share'[d].between
    BY <1>2
  <2>1. share[d] \in Share
    BY ShareThere
  <2>2. share'[d] = [share[d] EXCEPT !.between = TRUE]
    BY <1>2
  <2>3. share'[d] \in Share /\ share'[d].between
    BY <2>1, <2>2 DEF Share
  <2> QED
    BY <2>3, SharesAssumption
<1>5. share' \in [Handlers -> Share \cup {NoShare}]
  <2>1. DOMAIN share' = Handlers /\ share' = [d \in Handlers |-> share'[d]]
    BY <1>2
  <2>2. \A d \in Handlers : share'[d] \in Share \cup {NoShare}
    BY <1>4 DEF SlipTypeOK
  <2> QED
    BY <2>1, <2>2
<1>6. SlipTypeOK'
  <2>1. RenderTypeOK'
    BY <1>1 DEF SlipTypeOK, RenderTypeOK
  <2>2. \A d \in Handlers : step'[d] = "idle" <=> share'[d] = NoShare
    BY <1>1, <1>4 DEF SlipTypeOK
  <2> QED
    BY <1>1, <1>3, <1>5, <2>1, <2>2 DEF SlipTypeOK
<1>7. SumsInv'
  BY <1>1, <1>4 DEF SumsInv
<1>8. SlipsAddUp'
  BY <1>1, <1>4 DEF SlipInv, SlipsAddUp
<1> QED
  BY <1>6, <1>7, <1>8 DEF SlipInv

\* A rendering that goes on stays with the share that waits for it.
LEMMA RenderingInv ==
  ASSUME SlipTypeOK, SlipInv, RenderTypeOK', NEW c \in Handlers, Rendering(c)
  PROVE  SlipTypeOK' /\ SlipInv'
<1>1. UNCHANGED <<employed, address, worked, step, share>>
  BY DEF Rendering, workerVars, shareVars
<1>2. \A d \in Handlers : stage'[d] # "idle" <=> stage[d] # "idle"
  <2>1. CASE Environment(c)
    BY <2>1 DEF Environment, Progress, Wait
  <2>2. CASE RenderStep(c)
    <3>1. PICK s \in Fetching \cup {"sleep", "pdf", "error"} : Goto(c, s)
      BY <2>2 DEF RenderStep, RenderInProcess, CreateJob, Serve, Receive, Wake, Download, FetchFails, Fetching
    <3>2. stage[c] # "idle"
      BY <2>2 DEF RenderStep, RenderInProcess, CreateJob, Serve, Receive, Wake, Download, FetchFails, Fetching
    <3> QED
      BY <3>1, <3>2 DEF Goto, SlipTypeOK, RenderTypeOK, Fetching
  <2> QED
    BY <2>1, <2>2 DEF Rendering
<1>3. SlipTypeOK'
  BY <1>1, <1>2 DEF SlipTypeOK
<1>4. SlipInv'
  BY <1>1 DEF SlipInv, SumsInv, SlipsAddUp
<1> QED
  BY <1>3, <1>4

LEMMA SlipStepInv ==
  ASSUME SlipTypeOK, SlipInv, RenderTypeOK', [SlipNext]_slipVars
  PROVE  SlipTypeOK' /\ SlipInv'
<1>1. CASE UNCHANGED slipVars
  <2>1. UNCHANGED <<stage, employed, address, worked, step, share>>
    BY <1>1 DEF slipVars, renderVars, workerVars, shareVars
  <2> QED
    BY <2>1 DEF SlipTypeOK, SlipInv, SumsInv, SlipsAddUp
<1>2. CASE EditWorker
  <2>1. UNCHANGED <<stage, employed, worked, step, share>> /\ address' \in Addresses \cup {NoAddress}
    BY <1>2 DEF EditWorker, renderVars, shareVars
  <2> QED
    BY <2>1 DEF SlipTypeOK, SlipInv, SumsInv, SlipsAddUp
<1> QED
  BY <1>1, <1>2, BeginShareInv, HandlerInv, RenderingInv, RecordsChangeInv DEF SlipNext

LEMMA SlipInvariance == SlipSpec => [](SlipTypeOK /\ SlipInv)
<1>1. SlipInit => SlipTypeOK /\ SlipInv
  <2> SUFFICES ASSUME SlipInit PROVE SlipTypeOK /\ SlipInv
    OBVIOUS
  <2>1. RenderTypeOK
    BY RenderInitInv DEF SlipInit, RenderInv
  <2>2. \A c \in Handlers : step[c] = "idle" /\ share[c] = NoShare /\ stage[c] = "idle"
    BY DEF SlipInit, RenderInit
  <2>3. SlipTypeOK
    BY <2>1, <2>2 DEF SlipInit, SlipTypeOK
  <2>4. SlipInv
    BY <2>2 DEF SlipInv, SumsInv, SlipsAddUp
  <2> QED
    BY <2>3, <2>4
<1>2. RenderInv' => RenderTypeOK'
  BY DEF RenderInv
<1>3. SlipTypeOK /\ SlipInv /\ RenderInv' /\ [SlipNext]_slipVars => SlipTypeOK' /\ SlipInv'
  BY <1>2, SlipStepInv
<1> QED
  BY <1>1, <1>3, RenderInvariance, EndpointsUseTheRenderer, PTL DEF SlipSpec

\* Type correctness of the payslip endpoints: a handler has its locals exactly while it
\* is at work, and waits in renderPdf exactly while its rendering is under way.
THEOREM SlipTypesCorrect == SlipSpec => []SlipTypeOK
BY SlipInvariance, PTL

\* ReportsService.payslipPdf, for any sites, hours and number of handlers: a slip pays
\* the hours it lists unless a record changed between its two queries, and at least the
\* hours it lists when it is a slip of one site.
THEOREM SlipsDoAddUp == SlipSpec => []SlipsAddUp
<1>1. SlipInv => SlipsAddUp
  BY DEF SlipInv
<1> QED
  BY <1>1, SlipInvariance, PTL

\* What was shown of the renderer on its own holds of it behind the endpoints: the polls
\* are bounded, and a rendering ends once and keeps its outcome until it is taken.
THEOREM EndpointsKeepTheBound == SlipSpec => []PollsBounded /\ Promise!Steps
BY PollsAreBounded, RenderingKeepsItsPromise, EndpointsUseTheRenderer, PTL
=============================================================================
