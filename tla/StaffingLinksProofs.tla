------------------------ MODULE StaffingLinksProofs ------------------------
(***************************************************************************)
(* Theorems about StaffingLinks, for every set of companies, names and     *)
(* managers and any number of changes.                                     *)
(***************************************************************************)
EXTENDS StaffingLinks, TLAPS

\* A call that found its company: the row is there with the name the call has read,
\* or was renamed since, or is gone for good.
FoundInv ==
  \A k \in Callers :
    call[k] # NoCall /\ call[k].found /\ call[k].want # NoCompany =>
      /\ call[k].want \in Exist \cup gone
      /\ call[k].want \in Exist /\ ~call[k].renamed => call[k].text = name[call[k].want]

\* What an untouched form holds, it was filled with: the worker's key, or a company
\* that was listed under the worker's name when there was no key.
Filled(pick, key, matches) == pick = key \/ (key = NoCompany /\ pick \in matches)
FilledInv ==
  /\ form # NoForm /\ ~form.touched => Filled(form.pick, form.key, form.matches)
  /\ \A k \in Callers : call[k] # NoCall /\ call[k].untouched =>
       Filled(call[k].want, call[k].key, call[k].matches)

IInv == TypeOK /\ FoundInv /\ CopyMatchesLink /\ FilledInv

-----------------------------------------------------------------------------
(* The preselection.                                                       *)

LEMMA PreselectionType ==
  ASSUME NEW seen \in Seen, NEW listed \in [Companies -> Text]
  PROVE  /\ Matching(seen, listed) \subseteq Companies
         /\ Preselection(seen, listed) \in Link
         /\ Filled(Preselection(seen, listed), seen.link, Matching(seen, listed))
<1>1. Matching(seen, listed) \subseteq Companies
  BY DEF Matching
<1>2. CASE seen.link # NoCompany
  BY <1>1, <1>2 DEF Preselection, Filled, Seen
<1>3. CASE seen.link = NoCompany /\ Matching(seen, listed) # {}
  <2>1. (CHOOSE c \in Matching(seen, listed) : TRUE) \in Matching(seen, listed)
    BY <1>3
  <2> QED
    BY <1>1, <1>3, <2>1 DEF Preselection, Filled, Link
<1>4. CASE seen.link = NoCompany /\ Matching(seen, listed) = {}
  BY <1>1, <1>4 DEF Preselection, Filled, Link
<1> QED
  BY <1>2, <1>3, <1>4

\* A form as the invariants want it, whichever effect has or has not run.
FormOK(f) == f \in Form /\ (~f.touched => Filled(f.pick, f.key, f.matches))

LEMMA PreselectOK ==
  ASSUME NEW f, FormOK(f)
  PROVE  FormOK(Preselect(f))
<1>1. CASE f.preselected \/ f.pick # NoCompany \/ ~f.loaded
  BY <1>1 DEF Preselect
<1>2. CASE ~(f.preselected \/ f.pick # NoCompany \/ ~f.loaded)
  <2> DEFINE p == Preselection(f.seen, f.listed)
             m == Matching(f.seen, f.listed)
  <2>1. f \in Form /\ f.seen \in Seen /\ f.listed \in [Companies -> Text]
    BY DEF FormOK, Form
  <2>2. m \subseteq Companies /\ p \in Link /\ Filled(p, f.seen.link, m) /\ f.seen.link \in Link
    BY <2>1, PreselectionType DEF Seen
  <2>3. Preselect(f) = [f EXCEPT !.pick = p, !.preselected = TRUE, !.key = f.seen.link,
                                 !.matches = m]
    BY <1>2 DEF Preselect
  <2> HIDE DEF p, m
  <2>4. Preselect(f) \in Form
    BY <2>1, <2>2, <2>3 DEF Form
  <2>5. Preselect(f).pick = p /\ Preselect(f).key = f.seen.link /\ Preselect(f).matches = m
    BY <2>1, <2>3 DEF Form
  <2> QED
    BY <2>2, <2>4, <2>5 DEF FormOK
<1> QED
  BY <1>1, <1>2

LEMMA FormInv ==
  ASSUME IInv, form # NoForm
  PROVE  FormOK(form)
BY DEF IInv, TypeOK, FilledInv, FormOK

-----------------------------------------------------------------------------
LEMMA InitInv == Init => IInv
<1> SUFFICES ASSUME Init PROVE IInv
  OBVIOUS
<1>1. Exist = {}
  BY DEF Init, Exist
<1>2. TypeOK
  <2>1. /\ name \in [Companies -> Text] /\ text \in Text
        /\ call \in [Callers -> Call \cup {NoCall}]
    BY DEF Init, Text
  <2>2. changes \in 0..MaxChanges /\ apart \in BOOLEAN
    <3>1. changes \in 0..MaxChanges
      BY CallersAssumption DEF Init
    <3>2. apart \in BOOLEAN
      BY Zenon DEF Init
    <3> QED
      BY <3>1, <3>2
  <2>3. archived \subseteq Exist /\ gone \subseteq Companies \ Exist
    BY <1>1 DEF Init
  <2> QED
    BY <1>1, <2>1, <2>2, <2>3 DEF Init, TypeOK
<1>3. FoundInv /\ CopyMatchesLink /\ FilledInv
  BY DEF Init, FoundInv, CopyMatchesLink, FilledInv
<1> QED
  BY <1>2, <1>3 DEF IInv

\* The companies.
LEMMA CreateInv ==
  ASSUME IInv, NEW c \in Companies, NEW n \in Names, Create(c, n)
  PROVE  IInv'
<1>0. TypeOK
  BY DEF IInv
<1>1. /\ name' = [name EXCEPT ![c] = n] /\ c \notin Exist \cup gone
      /\ changes' \in 0..MaxChanges
      /\ UNCHANGED <<archived, gone, link, text, form, call, apart>>
  BY <1>0, CallersAssumption DEF Create, Change, worker, TypeOK
<1>2. Exist' = Exist \cup {c}
  BY <1>0, <1>1, NullsAssumption DEF Exist, TypeOK
<1>3. \A d \in Exist : name'[d] = name[d]
  BY <1>0, <1>1 DEF TypeOK, Exist
<1>4. name'[c] = n
  BY <1>0, <1>1 DEF TypeOK
<1>5. TypeOK'
  <2>1. \A d, e \in Exist' : name'[d] = name'[e] => d = e
    BY <1>0, <1>2, <1>3, <1>4 DEF Create, FreeName, TypeOK
  <2> QED
    BY <1>0, <1>1, <1>2, <2>1 DEF TypeOK, Text
<1>6. FoundInv' /\ CopyMatchesLink'
  BY <1>0, <1>1, <1>2, <1>3 DEF IInv, FoundInv, CopyMatchesLink, TypeOK
<1> QED
  BY <1>1, <1>5, <1>6 DEF IInv, FilledInv

LEMMA RenameInv ==
  ASSUME IInv, NEW c \in Companies, NEW n \in Names, Rename(c, n)
  PROVE  IInv'
<1>0. TypeOK
  BY DEF IInv
<1>1. /\ name' = [name EXCEPT ![c] = n] /\ c \in Exist
      /\ changes' \in 0..MaxChanges
      /\ apart' = (apart \/ link = c)
      /\ UNCHANGED <<archived, gone, link, text, form>>
  BY <1>0, CallersAssumption DEF Rename, Change, worker, TypeOK
<1>2. Exist' = Exist
  BY <1>0, <1>1, NullsAssumption DEF Exist, TypeOK
<1>3. name'[c] = n /\ \A d \in Exist \ {c} : name'[d] = name[d]
  BY <1>0, <1>1 DEF TypeOK, Exist
<1>4. ASSUME NEW k \in Callers
      PROVE  /\ call'[k] \in Call \cup {NoCall}
             /\ \/ call'[k] = call[k] /\ ~(call[k] # NoCall /\ call[k].want = c /\ call[k].found)
                \/ /\ call[k] \in Call /\ call'[k] = [call[k] EXCEPT !.renamed = TRUE]
                   /\ call'[k].renamed /\ call'[k].want = call[k].want /\ call'[k].found = call[k].found
                   /\ call'[k].untouched = call[k].untouched
                   /\ call'[k].key = call[k].key /\ call'[k].matches = call[k].matches
                   /\ call[k] # NoCall /\ call[k].want = c
  <2>1. CASE call[k] # NoCall /\ call[k].want = c /\ call[k].found
    <3>1. call[k] \in Call /\ call'[k] = [call[k] EXCEPT !.renamed = TRUE]
      BY <1>0, <2>1 DEF Rename, TypeOK
    <3> QED
      BY <2>1, <3>1 DEF Call
  <2>2. CASE ~(call[k] # NoCall /\ call[k].want = c /\ call[k].found)
    BY <1>0, <2>2 DEF Rename, TypeOK
  <2> QED
    BY <2>1, <2>2
<1>5. TypeOK'
  <2>1. \A d, e \in Exist' : name'[d] = name'[e] => d = e
    BY <1>0, <1>2, <1>3 DEF Rename, FreeName, TypeOK
  <2>2. call' \in [Callers -> Call \cup {NoCall}]
    BY <1>4 DEF Rename
  <2>3. apart' \in BOOLEAN
    BY <1>1
  <2> QED
    BY <1>0, <1>1, <1>2, <2>1, <2>2, <2>3 DEF TypeOK, Text
<1>6. FoundInv'
  <2>1. ASSUME NEW k \in Callers, call'[k] # NoCall, call'[k].found, call'[k].want # NoCompany
        PROVE  /\ call'[k].want \in Exist \cup gone
               /\ call'[k].want \in Exist /\ ~call'[k].renamed =>
                    call'[k].text = name'[call'[k].want]
    <3>1. CASE call'[k] = call[k] /\ ~(call[k] # NoCall /\ call[k].want = c /\ call[k].found)
      BY <1>3, <2>1, <3>1 DEF IInv, FoundInv
    <3>2. CASE call'[k].renamed /\ call'[k].want = c
      BY <1>1, <3>2
    <3> QED
      BY <1>4, <3>1, <3>2
  <2> QED
    BY <1>1, <1>2, <2>1 DEF FoundInv
<1>7. CopyMatchesLink'
  <2>1. link # c /\ ~apart' => ~apart
    BY <1>1
  <2>2. link = c => apart'
    BY <1>1
  <2> QED
    BY <1>0, <1>1, <1>2, <1>3, <2>1, <2>2 DEF IInv, CopyMatchesLink, TypeOK
<1>8. FilledInv'
  BY <1>1, <1>4 DEF IInv, FilledInv
<1> QED
  BY <1>1, <1>5, <1>6, <1>7, <1>8 DEF IInv

LEMMA RemoveInv ==
  ASSUME IInv, NEW c \in Companies, Remove(c)
  PROVE  IInv'
<1>0. TypeOK
  BY DEF IInv
<1>1. /\ name' = [name EXCEPT ![c] = NoName] /\ c \in Exist
      /\ changes' \in 0..MaxChanges
      /\ archived' = archived \ {c} /\ gone' = gone \cup {c}
      /\ link' = IF link = c THEN NoCompany ELSE link
      /\ UNCHANGED <<text, form, call, apart>>
  BY <1>0, CallersAssumption DEF Remove, Change, TypeOK
<1>2. Exist' = Exist \ {c}
  BY <1>0, <1>1 DEF Exist, TypeOK
<1>3. \A d \in Exist' : name'[d] = name[d]
  BY <1>0, <1>1, <1>2 DEF TypeOK, Exist
<1>4. TypeOK'
  BY <1>0, <1>1, <1>2, <1>3 DEF TypeOK, Text, Exist
<1>5. FoundInv' /\ CopyMatchesLink'
  BY <1>0, <1>1, <1>2, <1>3 DEF IInv, FoundInv, CopyMatchesLink, TypeOK
<1> QED
  BY <1>1, <1>4, <1>5 DEF IInv, FilledInv

LEMMA ArchiveInv ==
  ASSUME IInv, NEW c \in Companies, Archive(c) \/ Unarchive(c)
  PROVE  IInv'
<1>1. /\ archived' \subseteq Exist /\ changes' \in 0..MaxChanges
      /\ UNCHANGED <<name, gone, link, text, form, call, apart>>
  BY CallersAssumption DEF IInv, Archive, Unarchive, Change, worker, Active, TypeOK
<1>2. TypeOK'
  BY <1>1 DEF IInv, TypeOK, Exist
<1> QED
  BY <1>1, <1>2 DEF IInv, FoundInv, CopyMatchesLink, FilledInv, Exist

\* The form.
LEMMA FormStep ==
  ASSUME IInv, UNCHANGED <<table, worker, call, changes, apart>>, form' = NoForm \/ FormOK(form')
  PROVE  IInv'
<1>1. TypeOK'
  BY DEF IInv, TypeOK, FormOK, table, worker, Exist
<1>2. FoundInv' /\ CopyMatchesLink'
  BY DEF IInv, FoundInv, CopyMatchesLink, table, worker, Exist
<1>3. FilledInv'
  BY DEF IInv, FilledInv, FormOK
<1> QED
  BY <1>1, <1>2, <1>3 DEF IInv

LEMMA FormsideInv ==
  ASSUME IInv, Formside
  PROVE  IInv'
<1>0. TypeOK
  BY DEF IInv
<1>1. SeenNow \in Seen /\ ListNow \in [Companies -> Text] /\ EmptyList \in [Companies -> Text]
      /\ link \in Link
  BY <1>0 DEF TypeOK, SeenNow, ListNow, EmptyList, Seen, Link, Text, Exist
<1>2. CASE Open
  <2> DEFINE f == [pick |-> link, preselected |-> FALSE, seen |-> SeenNow,
                   listed |-> EmptyList, loaded |-> FALSE, key |-> link, matches |-> {},
                   touched |-> FALSE]
  <2>1. FormOK(f)
    BY <1>1 DEF FormOK, Form, Filled
  <2> QED
    BY <1>2, <2>1, FormStep DEF Open
<1>3. CASE Close
  BY <1>3, FormStep DEF Close
<1>4. CASE LoadList
  <2>1. FormOK([form EXCEPT !.listed = ListNow, !.loaded = TRUE])
    BY <1>1, <1>4, FormInv DEF LoadList, FormOK, Form
  <2> QED
    BY <1>4, <2>1, PreselectOK, FormStep DEF LoadList
<1>5. CASE Refetch
  <2>1. FormOK([form EXCEPT !.seen = SeenNow])
    BY <1>1, <1>5, FormInv DEF Refetch, FormOK, Form
  <2> QED
    BY <1>5, <2>1, PreselectOK, FormStep DEF Refetch
<1>6. ASSUME NEW c \in Link, Choose(c)
      PROVE  IInv'
  <2>1. FormOK([form EXCEPT !.pick = c, !.touched = TRUE])
    BY <1>6, FormInv DEF Choose, FormOK, Form
  <2> QED
    BY <1>6, <2>1, PreselectOK, FormStep DEF Choose
<1>7. CASE Save
  <2> DEFINE k == [want |-> form.pick, found |-> FALSE, text |-> NoName, renamed |-> FALSE,
                   untouched |-> ~form.touched, key |-> form.key,
                   matches |-> form.matches]
  <2>1. FormOK(form)
    BY <1>7, FormInv DEF Save
  <2>2. k \in Call
    <3>1. (~form.touched) \in BOOLEAN
      OBVIOUS
    <3> QED
      BY <2>1, <3>1 DEF Call, FormOK, Form, Text
  <2>3. k.untouched => Filled(k.want, k.key, k.matches)
    BY <2>1 DEF FormOK
  <2>4. ~k.found
    OBVIOUS
  <2> HIDE DEF k
  <2>5. call' = [call EXCEPT ![FormCall] = k] /\ UNCHANGED <<name, archived, gone, link, text, form, changes, apart>>
    BY <1>7 DEF Save, k, table, worker
  <2>6. TypeOK'
    BY <1>0, <2>2, <2>5 DEF TypeOK, Exist
  <2>7. \A d \in Callers : call'[d] = call[d] \/ call'[d] = k
    BY <1>0, <2>5 DEF TypeOK
  <2> QED
    BY <2>3, <2>4, <2>5, <2>6, <2>7
       DEF IInv, FoundInv, CopyMatchesLink, FilledInv, Exist
<1> QED
  BY <1>2, <1>3, <1>4, <1>5, <1>6, <1>7 DEF Formside

\* The calls.
LEMMA SendInv ==
  ASSUME IInv, NEW k \in Others, NEW c \in Link, Send(k, c)
  PROVE  IInv'
<1>0. TypeOK
  BY DEF IInv
<1> DEFINE a == [want |-> c, found |-> FALSE, text |-> NoName, renamed |-> FALSE,
                 untouched |-> FALSE, key |-> NoCompany, matches |-> {}]
<1>1. a \in Call /\ ~a.found /\ ~a.untouched
  BY DEF Call, Link, Text
<1> HIDE DEF a
<1>2. call' = [call EXCEPT ![k] = a] /\ UNCHANGED <<name, archived, gone, link, text, form, changes, apart>>
  BY DEF Send, a, table, worker
<1>3. TypeOK'
  BY <1>0, <1>1, <1>2 DEF TypeOK, Exist
<1>4. \A d \in Callers : call'[d] = call[d] \/ call'[d] = a
  BY <1>0, <1>2 DEF TypeOK
<1> QED
  BY <1>1, <1>2, <1>3, <1>4
     DEF IInv, FoundInv, CopyMatchesLink, FilledInv, Exist

LEMMA ResolveInv ==
  ASSUME IInv, NEW k \in Callers, Resolve(k)
  PROVE  IInv'
<1>0. TypeOK
  BY DEF IInv
<1> DEFINE n == IF call[k].want = NoCompany THEN NoName ELSE name[call[k].want]
           a == [call[k] EXCEPT !.found = TRUE, !.text = n]
<1>1. call[k] \in Call /\ call[k] # NoCall /\ call[k].want \in Exist \cup {NoCompany}
  BY <1>0 DEF Resolve, TypeOK, Active
<1>2. n \in Text
  BY <1>0, <1>1 DEF TypeOK, Text, Exist
<1>3. call[k].want # NoCompany => n = name[call[k].want]
  OBVIOUS
<1> HIDE DEF n
<1>4. /\ a \in Call /\ a.want = call[k].want /\ a.text = n
      /\ a.untouched = call[k].untouched /\ a.key = call[k].key /\ a.matches = call[k].matches
  BY <1>1, <1>2 DEF Call
<1>5. call' = [call EXCEPT ![k] = a] /\ UNCHANGED <<name, archived, gone, link, text, form, changes, apart>>
  BY <1>0 DEF Resolve, n, table, worker, TypeOK
<1> HIDE DEF a
<1>6. TypeOK'
  BY <1>0, <1>4, <1>5 DEF TypeOK, Exist
<1>7. \A d \in Callers : (d # k /\ call'[d] = call[d]) \/ (d = k /\ call'[d] = a)
  BY <1>0, <1>5 DEF TypeOK
<1>8. Exist' = Exist
  BY <1>5 DEF Exist
<1>9. FoundInv'
  BY <1>1, <1>3, <1>4, <1>5, <1>7, <1>8 DEF IInv, FoundInv
<1>10. FilledInv'
  BY <1>1, <1>4, <1>5, <1>7 DEF IInv, FilledInv
<1> QED
  BY <1>5, <1>6, <1>8, <1>9, <1>10 DEF IInv, CopyMatchesLink

LEMMA WriteInv ==
  ASSUME IInv, NEW k \in Callers, Write(k) \/ Fail(k)
  PROVE  IInv'
<1>0. TypeOK
  BY DEF IInv
<1>1. /\ call' = [call EXCEPT ![k] = NoCall]
      /\ UNCHANGED <<name, archived, gone, form, changes>>
      /\ \A d \in Callers : call'[d] = call[d] \/ call'[d] = NoCall
  BY <1>0 DEF Write, Fail, table, worker, TypeOK
<1>2. Exist' = Exist
  BY <1>1 DEF Exist
<1>3. FoundInv' /\ FilledInv'
  BY <1>1, <1>2 DEF IInv, FoundInv, FilledInv
<1>4. CASE Write(k)
  <2>1. /\ call[k] \in Call /\ call[k] # NoCall /\ call[k].found
        /\ link' = call[k].want /\ text' = call[k].text /\ apart' = call[k].renamed
        /\ call[k].want \in Exist \cup {NoCompany}
    BY <1>0, <1>4 DEF Write, TypeOK
  <2>2. CopyMatchesLink'
    BY <1>1, <1>2, <2>1 DEF IInv, FoundInv, CopyMatchesLink
  <2>3. text' \in Text /\ apart' \in BOOLEAN
    BY <2>1 DEF Call
  <2>4. TypeOK'
    BY <1>0, <1>1, <1>2, <2>1, <2>3 DEF TypeOK
  <2> QED
    BY <1>3, <2>2, <2>4 DEF IInv
<1>5. CASE Fail(k)
  BY <1>0, <1>1, <1>2, <1>3, <1>5 DEF IInv, TypeOK, Fail, worker, CopyMatchesLink
<1> QED
  BY <1>4, <1>5

LEMMA TypeTextInv ==
  ASSUME IInv, NEW n \in Text, TypeText(n)
  PROVE  IInv'
<1>1. /\ text' = n /\ apart' = TRUE /\ changes' \in 0..MaxChanges
      /\ UNCHANGED <<name, archived, gone, link, form, call>>
  BY CallersAssumption DEF IInv, TypeText, Change, table, TypeOK
<1>2. Exist' = Exist
  BY <1>1 DEF Exist
<1>3. apart' \in BOOLEAN /\ CopyMatchesLink'
  BY <1>1 DEF CopyMatchesLink
<1>4. TypeOK'
  BY <1>1, <1>2, <1>3 DEF IInv, TypeOK
<1> QED
  BY <1>1, <1>2, <1>3, <1>4 DEF IInv, FoundInv, FilledInv

LEMMA StepInv == IInv /\ [Next]_vars => IInv'
<1> SUFFICES ASSUME IInv, [Next]_vars PROVE IInv'
  OBVIOUS
<1>1. CASE UNCHANGED vars
  BY <1>1 DEF vars, table, worker, IInv, TypeOK, FoundInv, CopyMatchesLink,
              FilledInv, Exist
<1>2. CASE Companyside
  BY <1>2, CreateInv, RenameInv, RemoveInv, ArchiveInv DEF Companyside
<1>3. CASE Formside
  BY <1>3, FormsideInv
<1>4. CASE Callside
  BY <1>4, SendInv, ResolveInv, WriteInv, TypeTextInv DEF Callside
<1> QED
  BY <1>1, <1>2, <1>3, <1>4 DEF Next

LEMMA Invariance == Spec => []IInv
BY InitInv, StepInv, PTL DEF Spec

\* Keys refer to rows, names are unique, and a worker is linked to a row that exists
\* whatever is renamed or removed under the calls in flight.
THEOREM TypeCorrect == Spec => []TypeOK
BY Invariance, PTL DEF IInv

\* resolvePersonnelCompany and worker.update: the copied name is the linked company's,
\* unless a rename or a typed text came between.
THEOREM CopiesMatch == Spec => []CopyMatchesLink
BY Invariance, PTL DEF IInv

\* Saving a form nobody touched keeps the link, or links an unlinked worker to a company
\* that was listed under the copied name.
THEOREM UntouchedSavesKeepTheLink == Spec => UntouchedSaveKeepsLink
<1>1. IInv /\ [Next]_vars =>
        [\A k \in Callers :
           (call[k] # NoCall /\ call[k].untouched /\ call[k].key = link /\ Write(k)) =>
             \/ link' = link
             \/ link = NoCompany /\ link' \in call[k].matches]_vars
  BY DEF IInv, FilledInv, Filled, Write
<1> QED
  BY <1>1, Invariance, PTL DEF Spec, UntouchedSaveKeepsLink
=============================================================================
