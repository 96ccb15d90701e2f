------------------------- MODULE VacationDaysProofs -------------------------
(***************************************************************************)
(* Theorems about VacationDays, for every set of requests and callers and  *)
(* every length of the calendar.                                           *)
(***************************************************************************)
EXTENDS VacationDays, WellFoundedInduction, TLAPS

\* What a caller remembers: nothing when idle; the request it serves exists.
CallInv ==
  \A c \in Callers :
    /\ pc[c] = "idle" => call[c] = NoCall
    /\ pc[c] # "idle" => call[c] \in Call /\ status[Req(c)] # "ABSENT"
    /\ pc[c] \in {"walking", "absent"} => Goal(c) = "APPROVED"
    /\ pc[c] = "effected" /\ Goal(c) = "REJECTED" => ~Resolving(c)

\* An open transaction: its lock, and that the keys it has written are still as it
\* found them and nobody else's.
TxInv ==
  \A c \in Callers :
    /\ pc[c] \in InTransaction => lock[Req(c)] = c
    /\ inserted[c] # {} => pc[c] \in {"walking", "absent", "effected"} /\ Goal(c) = "APPROVED"
    /\ deleted[c] # {} => pc[c] = "effected" /\ Goal(c) = "REJECTED"
    /\ \A d \in inserted[c] : record[d] = NoRecord
    /\ \A b \in Callers \ {c} : inserted[b] \cap inserted[c] = {}
    /\ pc[c] = "effected" /\ Goal(c) = "REJECTED" => deleted[c] = Tagged(Req(c))

\* A request that is APPROVED, or about to be, has its dates.
Dated(r) == ValidDates(r) /\ first[r] \in Days /\ End(r) \in Days

\* The day has a record, or lost one, or gets one when the caller commits.
Seen(c, d) == record[d] # NoRecord \/ d \in freed \/ d \in inserted[c]

\* How far a walk has come.
WalkInv ==
  \A c \in Callers :
    /\ pc[c] \in {"walking", "absent"} =>
         /\ Dated(Req(c))
         /\ first[Req(c)] <= cursor[c] /\ cursor[c] <= End(Req(c)) + 1
         /\ \A d \in Days : first[Req(c)] <= d /\ d < cursor[c] => Seen(c, d)
    /\ pc[c] = "absent" => cursor[c] <= End(Req(c))
    /\ pc[c] = "effected" /\ Goal(c) = "APPROVED" =>
         /\ Dated(Req(c))
         /\ \A d \in Days : first[Req(c)] <= d /\ d <= End(Req(c)) => Seen(c, d)

\* CoveredUnlessFreed, with the dates it needs to speak of the days.
CoverInv ==
  \A r \in Requests :
    status[r] = "APPROVED" =>
      /\ Dated(r)
      /\ \A d \in Days : first[r] <= d /\ d <= End(r) => record[d] # NoRecord \/ d \in freed

IInv == TypeOK /\ CallInv /\ TxInv /\ WalkInv /\ CoverInv

\* A re-decision that has flipped its request found the status that is committed.
SeenStands ==
  \A c \in Callers :
    pc[c] \in InTransaction /\ ~Resolving(c) => status[Req(c)] = call[c].seen

\* Only a request that is decided can have been overwritten.
OvertakenInv == \A r \in overtaken : status[r] \in Decided

NInv == IInv /\ SeenStands /\ OvertakenInv /\ NoOrphanDays

-----------------------------------------------------------------------------
\* A caller that is serving a call has its locals.
LEMMA ActiveCall ==
  ASSUME TypeOK, CallInv, NEW c \in Callers, pc[c] # "idle"
  PROVE  /\ call[c] \in Call
         /\ Req(c) \in Requests /\ status[Req(c)] # "ABSENT"
         /\ Goal(c) \in Decided
         /\ call[c].seen \in {"PENDING"} \cup Decided
BY DEF CallInv, Call, Req, Goal

\* Two callers inside their transactions work on different requests.
LEMMA DifferentRequests ==
  ASSUME IInv, NEW c \in Callers, pc[c] \in InTransaction,
         NEW b \in Callers \ {c}, pc[b] \in InTransaction
  PROVE  Req(c) # Req(b)
BY DEF IInv, TxInv

\* The days two callers have written are different.
LEMMA DifferentDays ==
  ASSUME IInv, NEW c \in Callers, NEW b \in Callers \ {c}
  PROVE  (inserted[c] \cup deleted[c]) \cap (inserted[b] \cup deleted[b]) = {}
<1> USE DEF IInv
<1>1. inserted[c] \cap inserted[b] = {}
  BY DEF TxInv
<1>2. \A a \in Callers : deleted[a] # {} =>
        /\ pc[a] \in InTransaction /\ deleted[a] = Tagged(Req(a)) /\ Req(a) \in Requests
  BY ActiveCall DEF TxInv, InTransaction
<1>3. deleted[c] \cap deleted[b] = {}
  BY <1>2, DifferentRequests DEF Tagged
<1>4. \A a \in Callers : \A d \in inserted[a] : record[d] \notin Requests
  BY NullsAssumption DEF TxInv
<1>5. \A a \in Callers : \A d \in deleted[a] : record[d] \in Requests
  BY <1>2 DEF Tagged
<1> QED
  BY <1>1, <1>3, <1>4, <1>5

\* The days of a request with dates are days of the calendar.
LEMMA DatedDays ==
  ASSUME TypeOK, NEW r \in Requests, ValidDates(r)
  PROVE  Dated(r)
BY DaysAssumption DEF TypeOK, ValidDates, Dated, End, Days

LEMMA InitInv == Init => IInv
<1> SUFFICES ASSUME Init PROVE IInv
  OBVIOUS
<1>1. TypeOK
  BY DEF Init, TypeOK, Statuses, Decided
<1>2. CallInv
  BY DEF Init, CallInv
<1>3. TxInv
  BY DEF Init, TxInv, InTransaction
<1>4. WalkInv /\ CoverInv
  BY DEF Init, WalkInv, CoverInv
<1> QED
  BY <1>1, <1>2, <1>3, <1>4 DEF IInv

\* Submitting a request: nobody is working on it yet.
LEMMA SubmitInv ==
  ASSUME IInv, NEW r \in Requests, Submit(r)
  PROVE  IInv'
<1> USE DEF IInv
<1>1. /\ status[r] = "ABSENT" /\ status' = [status EXCEPT ![r] = "PENDING"]
      /\ UNCHANGED <<record, freed, overtaken, lock, pc, call, cursor, inserted, deleted>>
      /\ first' \in [Requests -> Days \cup {NoDay}] /\ last' \in [Requests -> Days \cup {NoDay}]
      /\ \A q \in Requests \ {r} : first'[q] = first[q] /\ last'[q] = last[q]
  <2>1. PICK s \in Spans : first' = [first EXCEPT ![r] = s[1]] /\ last' = [last EXCEPT ![r] = s[2]]
    BY DEF Submit
  <2>2. s[1] \in Days \cup {NoDay} /\ s[2] \in Days \cup {NoDay}
    BY SpansAssumption
  <2> QED
    BY <2>1, <2>2 DEF Submit, callVars, TypeOK
<1>2. TypeOK'
  BY <1>1 DEF TypeOK, Statuses
<1>3. CallInv'
  BY <1>1, ActiveCall DEF CallInv, TypeOK, Req, Goal, Resolving
<1>4. TxInv'
  BY <1>1 DEF TxInv, Tagged, Req, Goal
<1>5. \A c \in Callers : pc[c] # "idle" => Req(c) \in Requests \ {r}
  BY <1>1, ActiveCall
<1>6. \A q \in Requests \ {r} : (Dated(q) <=> Dated(q)') /\ End(q) = End(q)'
  BY <1>1 DEF Dated, ValidDates, End
<1>7. WalkInv'
  BY <1>1, <1>5, <1>6 DEF WalkInv, Seen, Req, Goal
<1>8. CoverInv'
  BY <1>1, <1>6 DEF CoverInv, TypeOK
<1> QED
  BY <1>2, <1>3, <1>4, <1>7, <1>8

\* A call begins with what it read.
LEMMA StartInv ==
  ASSUME IInv, NEW c \in Callers, Start(c)
  PROVE  IInv'
<1> USE DEF IInv
<1>1. PICK r \in Requests, goal \in Decided :
        /\ StartCall(c, r, goal)
        /\ status[r] \in {"PENDING"} \cup Decided
  BY DEF Start, ReadForResolve, ReadForRedecide
<1> DEFINE k == [req |-> r, seen |-> status[r], goal |-> goal]
<1>2. /\ pc[c] = "idle" /\ pc' = [pc EXCEPT ![c] = "checked"]
      /\ call' = [call EXCEPT ![c] = k]
      /\ UNCHANGED <<tableVars, lock, cursor, inserted, deleted>>
  BY <1>1 DEF StartCall
<1>3. k \in Call /\ k.req = r /\ status[r] # "ABSENT"
  BY <1>1 DEF Call, Decided
<1> HIDE DEF k
<1>4. TypeOK'
  BY <1>2, <1>3 DEF TypeOK, tableVars
<1>5. CallInv'
  BY <1>2, <1>3 DEF CallInv, TypeOK, tableVars, Req, Goal, Resolving
<1>6. TxInv'
  BY <1>2 DEF TxInv, TypeOK, tableVars, Req, Goal, Tagged, InTransaction
<1>7. WalkInv' /\ CoverInv'
  BY <1>2 DEF WalkInv, CoverInv, TypeOK, tableVars, Req, Goal, Seen, Dated, ValidDates, End
<1> QED
  BY <1>4, <1>5, <1>6, <1>7

\* The steps that move a call on without writing a record: the flip takes the lock,
\* the walk advances over days that have a record, and ends after the last.
LEMMA ReadInv ==
  ASSUME IInv, NEW c \in Callers,
         Flip(c) \/ StartWalk(c) \/ FindDay(c) \/ EndWalk(c)
  PROVE  IInv'
<1> USE DEF IInv
<1>1. /\ pc[c] \in {"checked", "flipped", "walking"} /\ call[c] \in Call
      /\ Req(c) \in Requests /\ Goal(c) \in Decided
      /\ UNCHANGED <<tableVars, call, inserted, deleted>>
  BY ActiveCall DEF Flip, StartWalk, FindDay, EndWalk
<1>2. CASE Flip(c)
  <2>1. /\ pc[c] = "checked" /\ pc' = [pc EXCEPT ![c] = "flipped"]
        /\ lock[Req(c)] = NoCaller /\ lock' = [lock EXCEPT ![Req(c)] = c]
        /\ UNCHANGED cursor
    BY <1>2 DEF Flip
  <2>2. TypeOK' /\ CallInv'
    BY <1>1, <2>1 DEF TypeOK, CallInv, InTransaction, tableVars, Req, Goal, Resolving
  <2>3. TxInv'
    <3>1. \A b \in Callers : pc'[b] \in InTransaction => lock'[Req(b)] = b
      BY <1>1, <2>1, CallersAssumption, ActiveCall DEF TxInv, TypeOK, InTransaction
    <3> QED
      BY <1>1, <2>1, <3>1 DEF TxInv, TypeOK, tableVars, Req, Goal, Tagged
  <2>4. WalkInv' /\ CoverInv'
    BY <1>1, <2>1
       DEF WalkInv, CoverInv, TypeOK, tableVars, Req, Goal, Seen, Dated, ValidDates, End
  <2> QED
    BY <2>2, <2>3, <2>4
<1>3. CASE ~Flip(c)
  <2>1. PICK next \in {"walking", "absent", "effected"} :
          /\ pc' = [pc EXCEPT ![c] = next] /\ UNCHANGED lock
          /\ pc[c] \in {"flipped", "walking"} /\ Goal(c) = "APPROVED"
    <3>1. CASE FindDay(c)
      <4>1. pc[c] = "walking" /\ pc' \in {[pc EXCEPT ![c] = "walking"], [pc EXCEPT ![c] = "absent"]}
        BY <3>1 DEF FindDay, TypeOK
      <4> QED
        BY <3>1, <4>1 DEF FindDay, CallInv
    <3> QED
      BY <1>3, <3>1 DEF StartWalk, EndWalk, CallInv
  <2>2. cursor' \in [Callers -> Nat] /\ \A b \in Callers \ {c} : cursor'[b] = cursor[b]
    <3>1. StartWalk(c) => first[Req(c)] \in Nat
      BY <1>1, DatedDays, DaysAssumption DEF StartWalk, Dated, Days
    <3> QED
      BY <1>1, <1>3, <3>1 DEF StartWalk, FindDay, EndWalk, TypeOK
  <2>3. TypeOK'
    BY <1>1, <2>1, <2>2 DEF TypeOK, InTransaction, tableVars
  <2>4. CallInv'
    BY <1>1, <2>1 DEF TypeOK, CallInv, tableVars, Req, Goal, Resolving
  <2>5. TxInv'
    BY <1>1, <2>1 DEF TxInv, TypeOK, InTransaction, tableVars, Req, Goal, Tagged
  <2>6. WalkInv'
    <3>1. ASSUME NEW b \in Callers \ {c} PROVE WalkInv!(b)'
      BY <1>1, <2>1, <2>2, <3>1
         DEF WalkInv, TypeOK, tableVars, Req, Goal, Seen, Dated, ValidDates, End
    <3>2. WalkInv!(c)'
      <4>1. first[Req(c)] \in Days /\ End(Req(c)) \in Days /\ Dated(Req(c))
        BY <1>1, <1>3, DatedDays DEF StartWalk, FindDay, EndWalk, WalkInv, Dated
      <4>2. CASE StartWalk(c)
        BY <1>1, <4>1, <4>2
           DEF StartWalk, TypeOK, tableVars, Req, Goal, Seen, Dated, ValidDates, End, Days
      <4>3. CASE FindDay(c)
        <5>1. /\ first[Req(c)] <= cursor[c] /\ cursor[c] <= End(Req(c)) /\ cursor[c] \in Nat
              /\ first[Req(c)] \in Nat /\ End(Req(c)) \in Nat /\ \A d \in Days : d \in Nat
              /\ \A d \in Days : first[Req(c)] <= d /\ d < cursor[c] => Seen(c, d)
          BY <4>1, <4>3, DaysAssumption DEF FindDay, WalkInv, TypeOK, Days
        <5>2. \/ /\ pc'[c] = "walking" /\ cursor'[c] = cursor[c] + 1
                 /\ record[cursor[c]] # NoRecord
              \/ pc'[c] = "absent" /\ cursor'[c] = cursor[c]
          BY <4>3 DEF FindDay, TypeOK
        <5>3. /\ first'[Req(c)'] = first[Req(c)] /\ End(Req(c))' = End(Req(c)) /\ Dated(Req(c))'
              /\ \A d \in Days : Seen(c, d)' <=> Seen(c, d)
          BY <1>1, <4>1 DEF tableVars, Req, Seen, Dated, ValidDates, End
        <5>4. \A d \in Days : first[Req(c)] <= d /\ d < cursor'[c] => Seen(c, d)
          BY <5>1, <5>2 DEF Seen
        <5> QED
          BY <5>1, <5>2, <5>3, <5>4
      <4>4. CASE EndWalk(c)
        BY <1>1, <4>1, <4>4
           DEF EndWalk, WalkInv, TypeOK, tableVars, Req, Goal, Seen, Dated, ValidDates, End, Days
      <4> QED
        BY <1>3, <4>2, <4>3, <4>4
    <3> QED
      BY <3>1, <3>2 DEF WalkInv
  <2>7. CoverInv'
    BY <1>1 DEF CoverInv, tableVars, Dated, ValidDates, End
  <2> QED
    BY <2>3, <2>4, <2>5, <2>6, <2>7
<1> QED
  BY <1>2, <1>3

\* A day enters the transaction only when nobody else has written its key and no
\* record has been committed there.
LEMMA InsertDayInv ==
  ASSUME IInv, NEW c \in Callers, InsertDay(c)
  PROVE  IInv'
<1> USE DEF IInv
<1> DEFINE d0 == cursor[c]
<1>1. /\ pc[c] = "absent" /\ Goal(c) = "APPROVED" /\ Req(c) \in Requests
      /\ Dated(Req(c)) /\ first[Req(c)] <= d0 /\ d0 <= End(Req(c))
      /\ ~HeldByOther(c, d0) /\ record[d0] = NoRecord
      /\ inserted' = [inserted EXCEPT ![c] = @ \cup {d0}]
      /\ cursor' = [cursor EXCEPT ![c] = d0 + 1]
      /\ pc' = [pc EXCEPT ![c] = "walking"]
      /\ UNCHANGED <<tableVars, lock, call, deleted>>
  BY ActiveCall DEF InsertDay, CallInv, WalkInv
<1>2. /\ d0 \in Days /\ d0 \in Nat /\ d0 + 1 \in Nat /\ End(Req(c)) \in Nat
      /\ \A d \in Days : d \in Nat
  BY <1>1, DaysAssumption DEF TypeOK, Dated, Days
<1>3. TypeOK' /\ CallInv'
  BY <1>1, <1>2 DEF TypeOK, CallInv, InTransaction, tableVars, Req, Goal, Resolving
<1>4. TxInv'
  BY <1>1 DEF TxInv, TypeOK, HeldByOther, InTransaction, tableVars, Req, Goal, Tagged
<1>5. WalkInv'
  <2>1. ASSUME NEW b \in Callers \ {c} PROVE WalkInv!(b)'
    BY <1>1, <2>1 DEF WalkInv, TypeOK, tableVars, Req, Goal, Seen, Dated, ValidDates, End
  <2>2. /\ pc'[c] = "walking" /\ cursor'[c] = d0 + 1 /\ Req(c)' = Req(c)
        /\ inserted'[c] = inserted[c] \cup {d0}
        /\ first'[Req(c)] = first[Req(c)] /\ End(Req(c))' = End(Req(c))
        /\ Dated(Req(c))'
    BY <1>1 DEF TypeOK, tableVars, Req, Dated, ValidDates, End
  <2>3. \A d \in Days : first[Req(c)] <= d /\ d < d0 + 1 => Seen(c, d)'
    <3>1. \A d \in Days : first[Req(c)] <= d /\ d < d0 => Seen(c, d)
      BY <1>1 DEF WalkInv
    <3> QED
      BY <1>1, <1>2, <2>2, <3>1 DEF tableVars, Seen
  <2>4. WalkInv!(c)'
    BY <1>1, <1>2, <2>2, <2>3 DEF tableVars, Req, Goal, End, Dated, ValidDates, Seen
  <2> QED
    BY <2>1, <2>4 DEF WalkInv
<1>6. CoverInv'
  BY <1>1 DEF CoverInv, tableVars, Dated, ValidDates, End
<1> QED
  BY <1>3, <1>4, <1>5, <1>6

\* A reversal deletes what carries the request's tag.
LEMMA DeleteTaggedInv ==
  ASSUME IInv, NEW c \in Callers, DeleteTagged(c)
  PROVE  IInv'
<1> USE DEF IInv
<1>1. /\ pc[c] = "flipped" /\ Goal(c) = "REJECTED" /\ ~Resolving(c)
      /\ deleted' = [deleted EXCEPT ![c] = Tagged(Req(c))]
      /\ pc' = [pc EXCEPT ![c] = "effected"]
      /\ UNCHANGED <<tableVars, lock, call, cursor, inserted>>
  BY DEF DeleteTagged
<1>2. TypeOK' /\ CallInv'
  BY <1>1 DEF TypeOK, CallInv, InTransaction, Tagged, tableVars, Req, Goal, Resolving
<1>3. TxInv'
  BY <1>1 DEF TxInv, TypeOK, InTransaction, tableVars, Req, Goal, Tagged
<1>4. WalkInv'
  BY <1>1 DEF WalkInv, TypeOK, tableVars, Req, Goal, Seen, Dated, ValidDates, End
<1>5. CoverInv'
  BY <1>1 DEF CoverInv, tableVars, Dated, ValidDates, End
<1> QED
  BY <1>2, <1>3, <1>4, <1>5

\* The ways a call throws have the same effect on the state.
LEMMA ThrowCases ==
  ASSUME NEW c \in Callers,
         Conflict(c) \/ RefuseDates(c) \/ DuplicateDay(c) \/ Abort(c)
  PROVE  Throw(c)
BY DEF Conflict, RefuseDates, DuplicateDay, Abort

\* What the other callers have written and locked does not change when a call ends.
LEMMA EndCallInv ==
  ASSUME IInv, NEW c \in Callers, EndCall(c)
  PROVE  /\ pc' \in [Callers -> {"idle", "checked"} \cup InTransaction]
         /\ call' \in [Callers -> Call \cup {NoCall}] /\ cursor' \in [Callers -> Nat]
         /\ inserted' \in [Callers -> SUBSET Days] /\ deleted' \in [Callers -> SUBSET Days]
         /\ lock' \in [Requests -> Callers \cup {NoCaller}]
         /\ pc'[c] = "idle" /\ call'[c] = NoCall /\ inserted'[c] = {} /\ deleted'[c] = {}
         /\ \A b \in Callers \ {c} :
              /\ pc'[b] = pc[b] /\ call'[b] = call[b] /\ cursor'[b] = cursor[b]
              /\ inserted'[b] = inserted[b] /\ deleted'[b] = deleted[b]
              /\ pc[b] \in InTransaction => lock'[Req(b)] = b
<1> USE DEF IInv
<1>1. ASSUME NEW b \in Callers \ {c}, pc[b] \in InTransaction PROVE lock'[Req(b)] = b
  BY <1>1, ActiveCall DEF EndCall, TxInv, InTransaction
<1> QED
  BY <1>1 DEF EndCall, TypeOK

LEMMA ThrowInv ==
  ASSUME IInv, NEW c \in Callers, Throw(c)
  PROVE  IInv'
<1> USE DEF IInv
<1>1. EndCall(c) /\ UNCHANGED tableVars
  BY DEF Throw
<1>2. TypeOK' /\ CallInv'
  BY <1>1, EndCallInv DEF TypeOK, CallInv, tableVars, Req, Goal, Resolving
<1>3. TxInv'
  BY <1>1, EndCallInv DEF TxInv, InTransaction, tableVars, Req, Goal, Tagged
<1>4. WalkInv'
  BY <1>1, EndCallInv DEF WalkInv, tableVars, Req, Goal, Seen, Dated, ValidDates, End
<1>5. CoverInv'
  BY <1>1 DEF CoverInv, tableVars, Dated, ValidDates, End
<1> QED
  BY <1>2, <1>3, <1>4, <1>5

\* What a commit makes of the calendar: days it inserted were free, days it deleted
\* carried its tag, and a day that had a record or lost one still has or did.
LEMMA CommitRecords ==
  ASSUME IInv, NEW c \in Callers, Commit(c)
  PROVE  /\ pc[c] \in InTransaction /\ Req(c) \in Requests /\ Goal(c) \in Decided
         /\ inserted[c] # {} => Goal(c) = "APPROVED"
         /\ deleted[c] # {} => Goal(c) = "REJECTED"
         /\ record' \in [Days -> Requests \cup {Manual, NoRecord}] /\ freed' \in SUBSET Days
         /\ overtaken' \in SUBSET Requests
         /\ \A d \in Days :
              /\ d \in inserted[c] => record[d] = NoRecord /\ record'[d] = Req(c)
              /\ d \in deleted[c] => record[d] = Req(c) /\ record'[d] = NoRecord
              /\ d \notin inserted[c] \cup deleted[c] => record'[d] = record[d]
              /\ record[d] # NoRecord \/ d \in freed => record'[d] # NoRecord \/ d \in freed'
<1> USE DEF IInv
<1>1. pc[c] \in InTransaction /\ Req(c) \in Requests /\ Goal(c) \in Decided
  BY ActiveCall DEF Commit, ReadyToCommit, InTransaction
<1>2. /\ \A d \in inserted[c] : record[d] = NoRecord
      /\ \A d \in deleted[c] : record[d] = Req(c)
      /\ Req(c) # NoRecord
      /\ inserted[c] \subseteq Days /\ deleted[c] \subseteq Days
      /\ inserted[c] # {} => Goal(c) = "APPROVED"
      /\ deleted[c] # {} => Goal(c) = "REJECTED"
  BY <1>1, NullsAssumption DEF TxInv, Tagged, TypeOK
<1>3. /\ record' = [d \in Days |-> IF d \in inserted[c] THEN Req(c)
                                   ELSE IF d \in deleted[c] THEN NoRecord ELSE record[d]]
      /\ freed' = (freed \cup deleted[c]) \ inserted[c]
  BY DEF Commit
<1>4. record' \in [Days -> Requests \cup {Manual, NoRecord}] /\ freed' \in SUBSET Days
  BY <1>1, <1>2, <1>3 DEF TypeOK
<1>5. overtaken' \in SUBSET Requests
  BY <1>1 DEF Commit, TypeOK
<1> QED
  BY <1>1, <1>2, <1>3, <1>4, <1>5

LEMMA CommitInv ==
  ASSUME IInv, NEW c \in Callers, Commit(c)
  PROVE  IInv'
<1> USE DEF IInv
<1>1. /\ EndCall(c) /\ UNCHANGED <<first, last>>
      /\ status' = [status EXCEPT ![Req(c)] = Goal(c)]
  BY DEF Commit
<1>2. TypeOK'
  BY <1>1, CommitRecords, EndCallInv DEF TypeOK, Statuses
<1>3. CallInv'
  BY <1>1, CommitRecords, EndCallInv DEF CallInv, TypeOK, Decided, Req, Goal, Resolving
<1>4. TxInv'
  <2>1. ASSUME NEW b \in Callers \ {c}, pc[b] \in InTransaction
        PROVE  /\ \A d \in inserted[b] : record'[d] = NoRecord
               /\ Tagged(Req(b))' = Tagged(Req(b))
    <3>1. Req(b) # Req(c) /\ Req(b) \in Requests /\ Req(b)' = Req(b)
      BY <1>1, <2>1, CommitRecords, DifferentRequests, ActiveCall, EndCallInv
         DEF InTransaction, Req
    <3>2. \A d \in inserted[b] : d \in Days /\ d \notin inserted[c] \cup deleted[c]
      BY DifferentDays DEF TypeOK
    <3>3. \A d \in Days : record'[d] = Req(b) <=> record[d] = Req(b)
      BY <3>1, CommitRecords, NullsAssumption
    <3> QED
      BY <3>1, <3>2, <3>3, CommitRecords DEF TxInv, Tagged
  <2>2. ASSUME NEW b \in Callers \ {c} PROVE Req(b)' = Req(b) /\ Goal(b)' = Goal(b)
    BY <1>1, EndCallInv DEF Req, Goal
  <2>3. ASSUME NEW b \in Callers \ {c} PROVE TxInv!(b)'
    <3>1. inserted[b] # {} => pc[b] \in InTransaction
      BY DEF TxInv, InTransaction
    <3>2. \A a \in Callers \ {b} : inserted'[a] \cap inserted'[b] = {}
      BY <1>1, EndCallInv DEF TxInv
    <3> QED
      BY <1>1, <2>1, <2>2, <3>1, <3>2, EndCallInv DEF TxInv, InTransaction
  <2>4. TxInv!(c)'
    BY <1>1, EndCallInv DEF InTransaction
  <2> QED
    BY <2>3, <2>4 DEF TxInv
<1>5. WalkInv'
  BY <1>1, CommitRecords, EndCallInv DEF WalkInv, Req, Goal, Seen, Dated, ValidDates, End
<1>6. CoverInv'
  <2>1. PICK q \in Requests : q = Req(c)
    BY CommitRecords
  <2>2. ASSUME NEW r \in Requests, status'[r] = "APPROVED", r # q PROVE CoverInv!(r)'
    BY <1>1, <2>1, <2>2, CommitRecords DEF CoverInv, Dated, ValidDates, End, TypeOK
  <2>3. ASSUME status'[q] = "APPROVED" PROVE CoverInv!(q)'
    <3>1. pc[c] = "effected" /\ Goal(c) = "APPROVED"
      BY <1>1, <2>1, <2>3 DEF Commit, ReadyToCommit, TypeOK
    <3>2. Dated(q) /\ \A d \in Days : first[q] <= d /\ d <= End(q) => Seen(c, d)
      BY <2>1, <3>1 DEF WalkInv
    <3>3. \A d \in Days : Seen(c, d) => record'[d] # NoRecord \/ d \in freed'
      BY CommitRecords, NullsAssumption DEF Seen
    <3> QED
      BY <1>1, <3>2, <3>3 DEF Dated, ValidDates, End
  <2> QED
    BY <2>2, <2>3 DEF CoverInv
<1> QED
  BY <1>2, <1>3, <1>4, <1>5, <1>6

\* A record set, moved or removed by hand: never on a day an open transaction has
\* written, and a day that is emptied is noted.
LEMMA HandRecords ==
  ASSUME IInv, ByHand
  PROVE  /\ UNCHANGED <<status, first, last, overtaken, callVars>>
         /\ record' \in [Days -> Requests \cup {Manual, NoRecord}] /\ freed' \in SUBSET Days
         /\ \A d \in Days :
              /\ Held(d) => record'[d] = record[d]
              /\ record[d] # NoRecord \/ d \in freed => record'[d] # NoRecord \/ d \in freed'
              /\ \A r \in Requests : record'[d] = r =>
                   \E e \in Days : record[e] = r /\ (e # d => ~Held(e))
<1> USE DEF IInv
<1> DEFINE Done ==
      /\ UNCHANGED <<status, first, last, overtaken, callVars>>
      /\ record' \in [Days -> Requests \cup {Manual, NoRecord}] /\ freed' \in SUBSET Days
      /\ \A d \in Days :
           /\ Held(d) => record'[d] = record[d]
           /\ record[d] # NoRecord \/ d \in freed => record'[d] # NoRecord \/ d \in freed'
           /\ \A r \in Requests : record'[d] = r =>
                \E e \in Days : record[e] = r /\ (e # d => ~Held(e))
<1>1. HandDays \subseteq Days
  BY DaysAssumption
<1>2. ASSUME NEW d \in HandDays, ManualCreate(d) PROVE Done
  BY <1>1, <1>2, NullsAssumption DEF ManualCreate, TypeOK
<1>3. ASSUME NEW d \in HandDays, ManualRemove(d) PROVE Done
  BY <1>1, <1>3, NullsAssumption DEF ManualRemove, TypeOK
<1>4. ASSUME NEW d \in HandDays, NEW e \in HandDays, ManualMove(d, e) PROVE Done
  BY <1>1, <1>4, NullsAssumption DEF ManualMove, TypeOK
<1> QED
  BY <1>2, <1>3, <1>4 DEF ByHand

LEMMA HandInv ==
  ASSUME IInv, ByHand
  PROVE  IInv'
<1> USE DEF IInv
<1>1. /\ UNCHANGED <<status, first, last, overtaken, lock, pc, call, cursor, inserted, deleted>>
      /\ \A c \in Callers : Req(c)' = Req(c) /\ Goal(c)' = Goal(c)
  BY HandRecords DEF callVars, Req, Goal
<1>2. TypeOK' /\ CallInv'
  BY <1>1, HandRecords DEF TypeOK, CallInv, Req, Goal, Resolving
<1>3. ASSUME NEW c \in Callers PROVE TxInv!(c)'
  <2>1. \A d \in inserted[c] : record'[d] = NoRecord
    BY HandRecords DEF TxInv, TypeOK, Held
  <2>2. ASSUME pc[c] = "effected", Goal(c) = "REJECTED" PROVE deleted[c] = Tagged(Req(c))'
    <3>1. deleted[c] = Tagged(Req(c)) /\ Req(c) \in Requests
      BY <2>2, ActiveCall DEF TxInv
    <3>2. \A d \in Days : record[d] = Req(c) => Held(d)
      BY <3>1 DEF Tagged, Held
    <3>3. \A d \in Days : record'[d] = Req(c) <=> record[d] = Req(c)
      BY <3>1, <3>2, HandRecords
    <3> QED
      BY <1>1, <3>1, <3>3 DEF Tagged
  <2> QED
    BY <1>1, <2>1, <2>2 DEF TxInv
<1>4. WalkInv'
  BY <1>1, HandRecords DEF WalkInv, Req, Goal, Seen, Dated, ValidDates, End
<1>5. CoverInv'
  BY <1>1, HandRecords DEF CoverInv, Dated, ValidDates, End
<1> QED
  BY <1>2, <1>3, <1>4, <1>5 DEF TxInv

\* Every step preserves the invariant.
LEMMA StepInv == IInv /\ [Next]_vars => IInv'
<1> SUFFICES ASSUME IInv, [Next]_vars PROVE IInv'
  OBVIOUS
<1>1. CASE UNCHANGED vars
  BY <1>1 DEF vars, IInv, TypeOK, CallInv, TxInv, WalkInv, CoverInv, Req, Goal, Resolving, Tagged,
              Seen, Dated, ValidDates, End
<1>2. ASSUME NEW c \in Callers, Step(c) PROVE IInv'
  BY <1>2, ReadInv, InsertDayInv, DeleteTaggedInv, CommitInv, ThrowCases, ThrowInv DEF Step
<1> QED
  BY <1>1, <1>2, SubmitInv, StartInv, ThrowCases, ThrowInv, HandInv DEF Next

LEMMA Invariance == Spec => []IInv
BY InitInv, StepInv, PTL DEF Spec

\* VacationDays keeps its types.
THEOREM TypeCorrect == Spec => []TypeOK
<1>1. IInv => TypeOK
  BY DEF IInv
<1> QED
  BY <1>1, Invariance, PTL

\* However the walks of overlapping vacations and edits by hand interleave, a day of
\* an approved vacation has a record unless one was taken from it.
THEOREM ApprovedDaysAreCovered == Spec => []CoveredUnlessFreed
<1>1. IInv => CoveredUnlessFreed
  <2> SUFFICES ASSUME IInv, NEW r \in Requests, status[r] = "APPROVED", NEW d \in first[r] .. End(r)
               PROVE  record[d] # NoRecord \/ d \in freed
    BY DEF CoveredUnlessFreed
  <2>1. Dated(r)
    BY DEF IInv, CoverInv
  <2>2. d \in Days /\ first[r] <= d /\ d <= End(r)
    BY <2>1, DaysAssumption DEF Dated, Days
  <2> QED
    BY <2>2 DEF IInv, CoverInv
<1> QED
  BY <1>1, Invariance, PTL

\* A decision fills only free days, with its own tag, and empties only days with its
\* tag, for any number of callers that approve, reject and re-decide.
THEOREM DecisionsNeverClobber == Spec => NeverClobbers
<1> DEFINE Spares(r, d) ==
      status'[r] # status[r] /\ record'[d] # record[d] =>
        \/ status'[r] = "APPROVED" /\ record[d] = NoRecord /\ record'[d] = r
        \/ status'[r] = "REJECTED" /\ record[d] = r /\ record'[d] = NoRecord
<1>1. IInv /\ [Next]_vars => [\A r \in Requests, d \in Days : Spares(r, d)]_vars
  <2> SUFFICES ASSUME IInv, Next, NEW r \in Requests, NEW d \in Days,
                      status'[r] # status[r], record'[d] # record[d]
               PROVE  Spares(r, d)
    BY DEF vars
  <2>1. PICK c \in Callers : Commit(c)
    <3>1. ASSUME NEW q \in Requests, Submit(q) PROVE FALSE
      BY <3>1 DEF Submit
    <3>2. ASSUME NEW c \in Callers, Start(c) PROVE FALSE
      BY <3>2 DEF Start, ReadForResolve, ReadForRedecide, StartCall, tableVars
    <3>3. ASSUME NEW c \in Callers, Throw(c) PROVE FALSE
      BY <3>3 DEF Throw, tableVars
    <3>4. ASSUME NEW c \in Callers, Step(c), ~Commit(c) PROVE FALSE
      BY <3>3, <3>4, ThrowCases
         DEF Step, Flip, StartWalk, FindDay, InsertDay, EndWalk, DeleteTagged, tableVars
    <3>5. ASSUME ByHand PROVE FALSE
      BY <3>5, HandRecords
    <3> QED
      BY <3>1, <3>2, <3>3, <3>4, <3>5, ThrowCases DEF Next
  <2>2. r = Req(c) /\ status'[r] = Goal(c)
    BY <2>1, CommitRecords DEF Commit, IInv, TypeOK
  <2>3. d \in inserted[c] \/ d \in deleted[c]
    BY <2>1, CommitRecords
  <2> QED
    BY <2>1, <2>2, <2>3, CommitRecords
<1> QED
  BY <1>1, Invariance, PTL DEF Spec, NeverClobbers

-----------------------------------------------------------------------------
(* The days of requests that are not approved.                             *)

LEMMA InitClean == Init => SeenStands /\ OvertakenInv /\ NoOrphanDays
BY NullsAssumption DEF Init, SeenStands, OvertakenInv, NoOrphanDays, Tagged, InTransaction

\* A commit leaves a re-decision of another call what it relies on, as that holds the lock
\* of its own request; and unless it was overtaken, it rejects a request that was pending
\* and had no days, or one whose days it deletes.
LEMMA CommitClean ==
  ASSUME NInv, NEW c \in Callers, Commit(c)
  PROVE  SeenStands' /\ OvertakenInv' /\ NoOrphanDays'
<1> USE DEF NInv, IInv
<1>0. /\ pc[c] \in InTransaction /\ Req(c) \in Requests /\ Goal(c) \in Decided
      /\ pc[c] # "idle"
  BY CommitRecords DEF InTransaction
<1>1. /\ pc[c] \in InTransaction /\ Req(c) \in Requests /\ pc[c] # "idle"
      /\ Goal(c) \in Decided /\ call[c] # NoCall
      /\ status' = [status EXCEPT ![Req(c)] = Goal(c)]
      /\ overtaken' = IF Overtaken(c) THEN overtaken \cup {Req(c)} ELSE overtaken \ {Req(c)}
  BY <1>0, ActiveCall, NullsAssumption DEF Commit
<1>2. ASSUME NEW b \in Callers, b # c PROVE SeenStands!(b)'
  <2>1. /\ Req(b)' = Req(b) /\ pc'[b] = pc[b]
        /\ call'[b] = call[b] /\ Resolving(b)' = Resolving(b)
    BY <1>2, EndCallInv DEF Commit, Req, Resolving
  <2>2. pc[b] \in InTransaction => Req(b) \in Requests /\ Req(b) # Req(c)
    BY <1>1, <1>2, DifferentRequests, ActiveCall DEF InTransaction
  <2> QED
    BY <1>1, <1>2, <2>1, <2>2 DEF SeenStands, TypeOK
<1>3. SeenStands'
  BY <1>2, EndCallInv DEF SeenStands, Commit, InTransaction
<1>4. OvertakenInv'
  BY <1>1 DEF OvertakenInv, TypeOK
<1>5. ASSUME NEW r \in Requests, status'[r] # "APPROVED", r \notin overtaken'
      PROVE  Tagged(r)' = {}
  <2>1. CASE r # Req(c)
    BY <1>1, <1>5, <2>1, CommitRecords, NullsAssumption DEF NoOrphanDays, Tagged, TypeOK
  <2>2. CASE r = Req(c)
    <3>1. Goal(c) = "REJECTED" /\ inserted[c] = {} /\ ~Overtaken(c)
      BY <1>1, <1>5, <2>2, CommitRecords DEF TypeOK, Decided
    <3>2. Tagged(r) \subseteq deleted[c]
      <4>1. CASE pc[c] = "effected"
        BY <2>2, <3>1, <4>1 DEF TxInv
      <4>2. CASE Resolving(c)
        <5>1. status[r] = "PENDING"
          BY <1>1, <2>2, <3>1, <4>2 DEF Overtaken
        <5> QED
          BY <5>1 DEF OvertakenInv, NoOrphanDays, Decided
      <4> QED
        BY <4>1, <4>2 DEF Commit, ReadyToCommit
    <3> QED
      BY <2>2, <3>1, <3>2, CommitRecords, NullsAssumption DEF Tagged
  <2> QED
    BY <2>1, <2>2
<1> QED
  BY <1>3, <1>4, <1>5 DEF NoOrphanDays

LEMMA StepClean ==
  ASSUME NInv, [Next]_vars
  PROVE  SeenStands' /\ OvertakenInv' /\ NoOrphanDays'
<1> USE DEF NInv, IInv
<1>1. CASE UNCHANGED vars
  BY <1>1 DEF vars, SeenStands, OvertakenInv, NoOrphanDays, Tagged, Req, Resolving
<1>2. ASSUME NEW r \in Requests, Submit(r) PROVE SeenStands' /\ OvertakenInv' /\ NoOrphanDays'
  <2>1. /\ status[r] = "ABSENT" /\ status' = [status EXCEPT ![r] = "PENDING"]
        /\ UNCHANGED <<record, overtaken, pc, call>>
    BY <1>2 DEF Submit, callVars
  <2>2. r \notin overtaken
    BY <2>1 DEF OvertakenInv, Decided
  <2> QED
    BY <2>1, <2>2, ActiveCall
       DEF SeenStands, OvertakenInv, NoOrphanDays, Tagged, Req, Resolving, InTransaction, TypeOK
<1>3. ASSUME NEW c \in Callers, NEW r \in Requests, NEW goal \in Decided, StartCall(c, r, goal)
      PROVE  SeenStands' /\ OvertakenInv' /\ NoOrphanDays'
  BY <1>3 DEF StartCall, tableVars, SeenStands, OvertakenInv, NoOrphanDays, Tagged, Req,
              Resolving, InTransaction, TypeOK
<1>4. ASSUME NEW c \in Callers, Throw(c) PROVE SeenStands' /\ OvertakenInv' /\ NoOrphanDays'
  BY <1>4, EndCallInv
     DEF Throw, tableVars, SeenStands, OvertakenInv, NoOrphanDays, Tagged, Req, Resolving,
         InTransaction
<1>5. ASSUME NEW c \in Callers, Step(c), ~Commit(c), ~Throw(c)
      PROVE  SeenStands' /\ OvertakenInv' /\ NoOrphanDays'
  <2>1. /\ UNCHANGED <<status, record, overtaken, call>>
        /\ \A b \in Callers \ {c} : pc'[b] = pc[b]
        /\ Flip(c) \/ pc[c] \in InTransaction
    BY <1>5, ThrowCases
       DEF Step, Flip, StartWalk, FindDay, InsertDay, EndWalk, DeleteTagged, tableVars,
           InTransaction, TypeOK
  <2>2. ~Resolving(c) /\ Flip(c) => status[Req(c)] = call[c].seen
    BY DEF Flip, FlipMatches
  <2> QED
    BY <2>1, <2>2 DEF SeenStands, OvertakenInv, NoOrphanDays, Tagged, Req, Resolving
<1>6. ASSUME ByHand PROVE SeenStands' /\ OvertakenInv' /\ NoOrphanDays'
  <2>1. /\ UNCHANGED <<status, overtaken, pc, call>>
        /\ \A d \in Days, r \in Requests : record'[d] = r => \E e \in Days : record[e] = r
    BY <1>6, HandRecords DEF callVars
  <2> QED
    BY <2>1 DEF SeenStands, OvertakenInv, NoOrphanDays, Tagged, Req, Resolving
<1> QED
  BY <1>1, <1>2, <1>3, <1>4, <1>5, <1>6, CommitClean, ThrowCases
     DEF Next, Start, ReadForResolve, ReadForRedecide

\* Whatever is moved by hand, skipped, rolled back, re-decided or decided twice at once,
\* a vacation that is not approved has days on the calendar only when the last decision
\* of its request was that of an approve / reject call that was overtaken.
THEOREM NoDaysWithoutApproval == Spec => []NoOrphanDays
<1>1. Init => NInv
  BY InitInv, InitClean DEF NInv
<1>2. NInv /\ [Next]_vars => NInv'
  BY StepInv, StepClean DEF NInv
<1>3. NInv => NoOrphanDays
  BY DEF NInv
<1> QED
  BY <1>1, <1>2, <1>3, PTL DEF Spec

-----------------------------------------------------------------------------
(* A decision as one step.                                                 *)

\* A call asks for another outcome than the one it read, and creates records on days of
\* its request only.
ServedInv ==
  \A c \in Callers :
    /\ pc[c] # "idle" => call[c].seen # call[c].goal
    /\ \A d \in inserted[c] : first[Req(c)] <= d /\ d <= End(Req(c))

\* The dates of a request do not change once it is submitted.
LEMMA DatesStand ==
  ASSUME [Next]_vars, NEW r \in Requests, status[r] # "ABSENT"
  PROVE  first'[r] = first[r] /\ last'[r] = last[r]
<1>1. CASE UNCHANGED vars
  BY <1>1 DEF vars
<1>2. ASSUME NEW q \in Requests, Submit(q) PROVE first'[r] = first[r] /\ last'[r] = last[r]
  BY <1>2 DEF Submit
<1>3. ASSUME NEW c \in Callers, Start(c) \/ Step(c) \/ Abort(c) PROVE UNCHANGED <<first, last>>
  BY <1>3, ThrowCases
     DEF Start, ReadForResolve, ReadForRedecide, StartCall, Throw, tableVars, Step,
         Flip, StartWalk, FindDay, InsertDay, EndWalk, DeleteTagged, Commit
<1>4. CASE ByHand
  BY <1>4 DEF ByHand, ManualCreate, ManualRemove, ManualMove
<1> QED
  BY <1>1, <1>2, <1>3, <1>4 DEF Next

\* What a step does to the call of b: it begins or ends it with no days, or leaves the
\* call and creates records on days of its request.
LEMMA CallsMove ==
  ASSUME IInv, [Next]_vars, NEW b \in Callers
  PROVE  \/ /\ inserted'[b] = {}
            /\ pc'[b] # "idle" => call'[b].seen # call'[b].goal
         \/ /\ call'[b] = call[b]
            /\ pc'[b] # "idle" => pc[b] # "idle"
            /\ \A d \in inserted'[b] :
                 \/ d \in inserted[b]
                 \/ pc[b] # "idle" /\ first[Req(b)] <= d /\ d <= End(Req(b))
<1> USE DEF IInv
<1> DEFINE Ended == inserted'[b] = {} /\ (pc'[b] # "idle" => call'[b].seen # call'[b].goal)
           Kept  == /\ call'[b] = call[b]
                    /\ pc'[b] # "idle" => pc[b] # "idle"
                    /\ \A d \in inserted'[b] :
                         \/ d \in inserted[b]
                         \/ pc[b] # "idle" /\ first[Req(b)] <= d /\ d <= End(Req(b))
<1>1. ASSUME UNCHANGED <<pc, call, inserted>> PROVE Kept
  BY <1>1
<1>2. ASSUME NEW c \in Callers, Start(c) PROVE Ended \/ Kept
  <2>1. PICK r \in Requests, goal \in Decided : StartCall(c, r, goal) /\ status[r] # goal
    BY <1>2 DEF Start, ReadForResolve, ReadForRedecide, Decided
  <2>2. CASE b = c
    <3>1. inserted'[b] = {}
      BY <2>1, <2>2 DEF StartCall, TxInv
    <3>2. call'[b] = [req |-> r, seen |-> status[r], goal |-> goal]
      BY <2>1, <2>2 DEF StartCall, TypeOK
    <3> QED
      BY <2>1, <3>1, <3>2
  <2>3. CASE b # c
    BY <2>1, <2>3 DEF StartCall, TypeOK
  <2> QED
    BY <2>2, <2>3
<1>3. ASSUME NEW c \in Callers, EndCall(c) PROVE Ended \/ Kept
  BY <1>3, EndCallInv
<1>4. ASSUME NEW c \in Callers, InsertDay(c) PROVE Kept
  <2>1. /\ pc[c] = "absent" /\ first[Req(c)] <= cursor[c] /\ cursor[c] <= End(Req(c))
        /\ inserted' = [inserted EXCEPT ![c] = @ \cup {cursor[c]}]
        /\ pc' = [pc EXCEPT ![c] = "walking"] /\ UNCHANGED call
    BY <1>4 DEF InsertDay, WalkInv
  <2> QED
    BY <2>1 DEF TypeOK
<1>5. ASSUME NEW c \in Callers, Flip(c) \/ StartWalk(c) \/ FindDay(c) \/ EndWalk(c) \/ DeleteTagged(c)
      PROVE  Kept
  BY <1>5 DEF Flip, StartWalk, FindDay, EndWalk, DeleteTagged, TypeOK
<1>6. ASSUME NEW c \in Callers, Step(c) \/ Abort(c) PROVE Ended \/ Kept
  BY <1>3, <1>4, <1>5, <1>6, ThrowCases DEF Step, Throw, Commit
<1>7. ASSUME UNCHANGED vars \/ ByHand \/ \E r \in Requests : Submit(r) PROVE Kept
  BY <1>1, <1>7, HandRecords DEF vars, callVars, Submit
<1> HIDE DEF Ended, Kept
<1>8. Ended \/ Kept
  BY <1>2, <1>6, <1>7 DEF Next
<1> QED
  BY <1>8 DEF Ended, Kept

LEMMA ServedStep ==
  ASSUME IInv, ServedInv, [Next]_vars
  PROVE  ServedInv'
<1> SUFFICES ASSUME NEW b \in Callers PROVE ServedInv!(b)'
  BY DEF ServedInv
<1>1. pc[b] # "idle" => /\ Req(b) \in Requests
                        /\ first'[Req(b)] = first[Req(b)] /\ last'[Req(b)] = last[Req(b)]
  BY ActiveCall, DatesStand DEF IInv
<1>2. inserted[b] # {} => pc[b] # "idle"
  BY DEF IInv, TxInv
<1>3. CASE call'[b] = call[b]
  BY <1>1, <1>2, <1>3, CallsMove DEF ServedInv, Req, End
<1>4. CASE call'[b] # call[b]
  BY <1>4, CallsMove
<1> QED
  BY <1>3, <1>4

\* What the commit of an approval does to the calendar: at that step the days it fills
\* are free days of the vacation, and every other free day lost a record.
LEMMA CommitFills ==
  ASSUME NInv, ServedInv, NEW c \in Callers, Commit(c), Goal(c) = "APPROVED",
         NEW q \in Requests, q = Req(c)
  PROVE  Calendar!Fill(q)
<1> USE DEF NInv, IInv
<1>1. pc[c] = "effected" /\ deleted[c] = {}
  BY CommitRecords DEF Commit, ReadyToCommit
<1>2. /\ Dated(q)
      /\ \A d \in Days : first[q] <= d /\ d <= End(q) => Seen(c, d)
  BY <1>1 DEF WalkInv
<1>3. Calendar!Free(q) = {d \in Days : first[q] <= d /\ d <= End(q) /\ record[d] = NoRecord}
  <2>1. first[q] .. End(q) = {d \in Days : first[q] <= d /\ d <= End(q)}
    BY <1>2, DaysAssumption DEF Dated, Days
  <2> QED
    BY <2>1 DEF Calendar!Free, Calendar!End, End
<1>4. inserted[c] \in SUBSET Calendar!Free(q)
  BY <1>3 DEF ServedInv, TxInv, TypeOK
<1>5. Calendar!Free(q) \ freed \subseteq inserted[c]
  BY <1>2, <1>3 DEF Seen
<1>6. /\ record' = [d \in Days |-> IF d \in inserted[c] THEN q ELSE record[d]]
      /\ freed' = freed \ inserted[c]
  BY <1>1 DEF Commit
<1>7. first[q] # NoDay /\ first[q] <= Calendar!End(q)
  BY <1>2 DEF Dated, ValidDates, Calendar!End, End
<1> QED
  BY <1>4, <1>5, <1>6, <1>7 DEF Calendar!Fill, Calendar!Days, Days

\* A commit finds the status its call read, or one that was decided since.
LEMMA CommitReads ==
  ASSUME NInv, ServedInv, NEW c \in Callers, Commit(c)
  PROVE  /\ Goal(c) \in Decided /\ Goal(c) # call[c].seen
         /\ call[c].seen \in {"PENDING"} \cup Decided
         /\ status[Req(c)] = call[c].seen \/ Overtaken(c)
         /\ Overtaken(c) => status[Req(c)] \in Decided
<1> USE DEF NInv, IInv
<1>1. pc[c] \in InTransaction /\ pc[c] # "idle" /\ Goal(c) \in Decided
  BY CommitRecords DEF InTransaction
<1>2. /\ call[c] \in Call /\ call[c] # NoCall /\ Req(c) \in Requests
      /\ status[Req(c)] # "ABSENT" /\ status[Req(c)] \in Statuses
      /\ call[c].seen \in {"PENDING"} \cup Decided
  BY <1>1, ActiveCall, NullsAssumption DEF TypeOK
<1> QED
  BY <1>1, <1>2 DEF SeenStands, ServedInv, Overtaken, Resolving, Statuses, Goal

\* A commit is the whole decision, unless it was overtaken.
LEMMA CommitIsAtomic ==
  ASSUME NInv, ServedInv, NEW c \in Callers, Commit(c), ~Overtaken(c)
  PROVE  Calendar!Approve(Req(c)) \/ Calendar!Reject(Req(c))
<1> USE DEF NInv, IInv
<1>1. PICK q \in Requests : q = Req(c)
  BY CommitRecords
<1>2. /\ status' = [status EXCEPT ![q] = Goal(c)]
      /\ record' = [d \in Days |-> IF d \in inserted[c] THEN q
                                   ELSE IF d \in deleted[c] THEN NoRecord ELSE record[d]]
      /\ freed' = (freed \cup deleted[c]) \ inserted[c]
      /\ UNCHANGED <<first, last>>
  BY <1>1 DEF Commit
<1>3. /\ Goal(c) \in Decided /\ Goal(c) # call[c].seen /\ status[q] = call[c].seen
      /\ call[c].seen \in {"PENDING"} \cup Decided
  BY <1>1, CommitReads
<1>4. CASE Goal(c) = "APPROVED"
  <2>1. status[q] \in {"PENDING", "REJECTED"}
    BY <1>3, <1>4 DEF Decided
  <2> QED
    BY <1>1, <1>2, <1>4, <2>1, CommitFills DEF Calendar!Approve
<1>5. CASE Goal(c) = "REJECTED"
  <2>1. inserted[c] = {}
    BY <1>5, CommitRecords
  <2>2. deleted[c] = Tagged(q)
    <3>1. CASE pc[c] = "effected"
      BY <1>1, <1>5, <3>1 DEF TxInv
    <3>2. CASE pc[c] # "effected"
      <4>1. Resolving(c) /\ deleted[c] = {}
        BY <1>5, <3>2 DEF Commit, ReadyToCommit, TxInv
      <4>2. Tagged(q) = {}
        BY <1>3, <4>1 DEF Resolving, NoOrphanDays, OvertakenInv, Decided
      <4> QED
        BY <4>1, <4>2
    <3> QED
      BY <3>1, <3>2
  <2>3. Tagged(q) = Calendar!Tagged(q)
    BY DEF Tagged, Calendar!Tagged, Days, Calendar!Days
  <2>4. /\ record' = [d \in Days |-> IF d \in Calendar!Tagged(q) THEN NoRecord ELSE record[d]]
        /\ freed' = freed \cup Calendar!Tagged(q)
    BY <1>2, <2>1, <2>2, <2>3
  <2>5. status[q] \in {"PENDING", "APPROVED"}
    BY <1>3, <1>5 DEF Decided
  <2>6. Calendar!Reject(q)
    BY <1>2, <1>5, <2>4, <2>5 DEF Calendar!Reject, Calendar!Days, Days
  <2> QED
    BY <1>1, <2>6
<1> QED
  BY <1>3, <1>4, <1>5 DEF Decided

\* The commit of an overtaken call fills the free days again, or only changes the status.
LEMMA CommitIsOverwrite ==
  ASSUME NInv, ServedInv, NEW c \in Callers, Commit(c), Overtaken(c)
  PROVE  Calendar!Overwrite(Req(c))
<1> USE DEF NInv, IInv
<1>1. PICK q \in Requests : q = Req(c)
  BY CommitRecords
<1>2. /\ status' = [status EXCEPT ![q] = Goal(c)]
      /\ record' = [d \in Days |-> IF d \in inserted[c] THEN q
                                   ELSE IF d \in deleted[c] THEN NoRecord ELSE record[d]]
      /\ freed' = (freed \cup deleted[c]) \ inserted[c]
      /\ UNCHANGED <<first, last>>
  BY <1>1 DEF Commit
<1>3. Goal(c) \in Decided /\ status[q] \in {"APPROVED", "REJECTED"} /\ Resolving(c)
  BY <1>1, CommitReads DEF Decided, Overtaken
<1>4. CASE Goal(c) = "APPROVED"
  BY <1>1, <1>2, <1>3, <1>4, CommitFills DEF Calendar!Overwrite
<1>5. CASE Goal(c) = "REJECTED"
  <2>1. inserted[c] = {} /\ deleted[c] = {}
    <3>1. pc[c] # "effected"
      BY <1>3, <1>5 DEF CallInv
    <3> QED
      BY <1>5, <3>1, CommitRecords DEF TxInv
  <2>2. record' = record /\ freed' = freed
    BY <1>2, <2>1 DEF TypeOK
  <2> QED
    BY <1>1, <1>2, <1>3, <1>5, <2>2 DEF Calendar!Overwrite
<1> QED
  BY <1>3, <1>4, <1>5 DEF Decided

\* A step of the calendar, or the commit of a call that was overtaken.
CalendarStep == Calendar!Next \/ \E c \in Callers : Overtaken(c) /\ Calendar!Overwrite(Req(c))

\* Every step of the statements is a step on the calendar, or none.
LEMMA StepIsAtomic ==
  ASSUME NInv, ServedInv, [Next]_vars
  PROVE  [CalendarStep]_<<status, first, last, record, freed>>
<1> USE DEF CalendarStep
<1>1. CASE UNCHANGED vars
  BY <1>1 DEF vars
<1>2. ASSUME NEW r \in Requests, Submit(r) PROVE Calendar!Next
  <2>1. PICK s \in Spans : first' = [first EXCEPT ![r] = s[1]] /\ last' = [last EXCEPT ![r] = s[2]]
    BY <1>2 DEF Submit
  <2>2. s[1] \in Calendar!Days \cup {NoDay} /\ s[2] \in Calendar!Days \cup {NoDay}
    BY SpansAssumption DEF Days, Calendar!Days
  <2>3. Calendar!Submit(r)
    BY <1>2, <2>1, <2>2 DEF Submit, Calendar!Submit
  <2> QED
    BY <2>3 DEF Calendar!Next
<1>3. ASSUME NEW c \in Callers, Commit(c) PROVE CalendarStep
  <2>1. Req(c) \in Requests
    BY <1>3, CommitRecords DEF NInv
  <2> QED
    BY <1>3, <2>1, CommitIsAtomic, CommitIsOverwrite DEF Calendar!Next
<1>4. ASSUME NEW c \in Callers, Start(c) \/ Step(c) \/ Abort(c), ~Commit(c)
      PROVE  UNCHANGED tableVars
  BY <1>4, ThrowCases
     DEF Start, ReadForResolve, ReadForRedecide, StartCall, Throw, Step,
         Flip, StartWalk, FindDay, InsertDay, EndWalk, DeleteTagged
<1>5. CASE ByHand
  <2>1. HandDays \subseteq Days
    BY DaysAssumption
  <2>2. ASSUME NEW d \in HandDays, ManualCreate(d) \/ ManualRemove(d) PROVE Calendar!Attendance(d)
    BY <2>2 DEF ManualCreate, ManualRemove, Calendar!Attendance
  <2>3. ASSUME NEW d \in HandDays, NEW e \in HandDays, ManualMove(d, e) PROVE Calendar!Attendance(d)
    <3>1. e \in Calendar!Days
      BY <2>1 DEF Days, Calendar!Days
    <3> QED
      BY <2>3, <3>1 DEF ManualMove, Calendar!Attendance
  <2> QED
    BY <1>5, <2>1, <2>2, <2>3 DEF ByHand, Calendar!Next, Days, Calendar!Days
<1> QED
  BY <1>1, <1>2, <1>3, <1>4, <1>5 DEF Next, tableVars

\* RequestsService, "single transaction so the status change and its SIDE EFFECT are
\* atomic", for vacations of any length and any calls: the committed rows change as if each
\* decision were made, with all its days, in one step, and the step is a decision that
\* DecidedDays promises unless its call was overtaken.
THEOREM DecisionsAreAtomic == Spec => AtomicDays
<1>1. Init => NInv /\ ServedInv
  BY InitInv, InitClean DEF NInv, Init, ServedInv
<1>2. NInv /\ ServedInv /\ [Next]_vars => NInv' /\ ServedInv'
  BY StepInv, StepClean, ServedStep DEF NInv
<1>3. Init => Calendar!Init
  BY DEF Init, Calendar!Init, Days, Calendar!Days
<1>4. NInv /\ ServedInv /\ [Next]_vars =>
        [Calendar!Next \/ \E c \in Callers : Overtaken(c) /\ Calendar!Overwrite(Req(c))]_
          <<status, first, last, record, freed>>
  BY StepIsAtomic DEF CalendarStep
<1> QED
  BY <1>1, <1>2, <1>3, <1>4, PTL DEF Spec, AtomicDays

-----------------------------------------------------------------------------
(* Waiting.                                                                *)

\* The order of the natural numbers as a set of pairs, to apply the library's theorem
\* about minimal elements.
LEMMA LessThanRelation ==
  \E R : IsWellFoundedOn(R, Nat) /\ \A x, y \in Nat : <<x, y>> \in R <=> x < y
<1>1. \A x \in Nat, y \in Nat : <<x, y>> \in OpToRel(<, Nat) <=> x < y
  BY DEF OpToRel
<1> QED
  BY <1>1, NatLessThanWellFounded, Zenon

\* A bounded set of natural numbers has a largest element.
LEMMA LargestElement ==
  ASSUME NEW n \in Nat, NEW T, T \subseteq 0..n, T # {}
  PROVE  \E x \in T : \A y \in T : y <= x
<1> DEFINE U == {n - x : x \in T}
<1>1. PICK R : IsWellFoundedOn(R, Nat) /\ \A x, y \in Nat : <<x, y>> \in R <=> x < y
  BY LessThanRelation
<1>2. U \subseteq Nat
  BY SMT
<1>3. U # {}
  BY Zenon
<1> HIDE DEF U
<1>4. PICK u \in U : \A v \in U : ~(<<v, u>> \in R)
  <2>1. IsWellFoundedOn(R, Nat)
    BY <1>1
  <2>2. \A S : IsWellFoundedOn(R, S) =>
          \A V : V \subseteq S /\ V # {} => \E x \in V : \A y \in V : ~(<<y, x>> \in R)
    BY WFMin, Zenon
  <2> QED
    BY <1>2, <1>3, <2>1, <2>2, Zenon
<1>5. \A v \in U : ~(v < u)
  BY <1>1, <1>2, <1>4
<1>6. PICK x \in T : u = n - x
  BY DEF U
<1>7. \A y \in T : n - y \in U
  BY DEF U
<1> QED
  BY <1>5, <1>6, <1>7

\* Only an open transaction holds a request row, and a walk has inserted days behind its
\* cursor only.
WaitInv ==
  /\ \A r \in Requests : lock[r] \in Callers => pc[lock[r]] \in InTransaction
  /\ \A c \in Callers : pc[c] \in {"walking", "absent"} => \A d \in inserted[c] : d < cursor[c]

\* A call that ends lets go of what it held.
LEMMA EndCallWaits ==
  ASSUME IInv, WaitInv, NEW c \in Callers, EndCall(c)
  PROVE  WaitInv'
<1>1. \A b \in Callers \ {c} : /\ pc'[b] = pc[b] /\ cursor'[b] = cursor[b]
                               /\ inserted'[b] = inserted[b]
  BY EndCallInv
<1>2. pc'[c] = "idle"
  BY EndCallInv
<1>3. \A r \in Requests : lock'[r] \in Callers => lock'[r] = lock[r] /\ lock[r] # c
  BY CallersAssumption DEF EndCall
<1>4. \A r \in Requests : lock'[r] \in Callers => pc'[lock'[r]] \in InTransaction
  BY <1>1, <1>3 DEF WaitInv
<1>5. \A b \in Callers : pc'[b] \in {"walking", "absent"} => \A d \in inserted'[b] : d < cursor'[b]
  BY <1>1, <1>2 DEF WaitInv
<1> QED
  BY <1>4, <1>5 DEF WaitInv

\* The statements that leave the locks move their caller within its transaction, and
\* the cursor only forwards.
LEMMA WalkWaits ==
  ASSUME IInv, WaitInv, NEW c \in Callers,
         StartWalk(c) \/ FindDay(c) \/ InsertDay(c) \/ EndWalk(c) \/ DeleteTagged(c)
  PROVE  WaitInv'
<1> USE DEF IInv
<1>1. PICK next \in {"walking", "absent", "effected"} : pc' = [pc EXCEPT ![c] = next]
  <2>1. FindDay(c) => pc' \in {[pc EXCEPT ![c] = "walking"], [pc EXCEPT ![c] = "absent"]}
    BY DEF FindDay, TypeOK
  <2> QED
    BY <2>1 DEF StartWalk, InsertDay, EndWalk, DeleteTagged
<1>2. lock' = lock /\ \A b \in Callers \ {c} : cursor'[b] = cursor[b] /\ inserted'[b] = inserted[b]
  BY DEF StartWalk, FindDay, InsertDay, EndWalk, DeleteTagged, TypeOK
<1>3. \A r \in Requests : lock'[r] \in Callers => pc'[lock'[r]] \in InTransaction
  BY <1>1, <1>2 DEF WaitInv, TypeOK, InTransaction
<1>4. ASSUME next \in {"walking", "absent"} PROVE \A d \in inserted'[c] : d < cursor'[c]
  <2>1. CASE StartWalk(c)
    <3>1. inserted'[c] = {}
      BY <2>1 DEF StartWalk, TxInv
    <3> QED
      BY <3>1
  <2>2. CASE FindDay(c) \/ InsertDay(c)
    <3>1. /\ pc[c] \in {"walking", "absent"} /\ cursor[c] \in Nat
          /\ \A d \in inserted[c] : d < cursor[c] /\ d \in Nat
      BY <2>2, DaysAssumption DEF FindDay, InsertDay, WaitInv, TypeOK, Days
    <3>2. /\ cursor'[c] \in {cursor[c], cursor[c] + 1}
          /\ \A d \in inserted'[c] : d \in inserted[c] \/ (d = cursor[c] /\ cursor'[c] = cursor[c] + 1)
      BY <2>2 DEF FindDay, InsertDay, TypeOK
    <3> QED
      BY <3>1, <3>2
  <2>3. CASE EndWalk(c) \/ DeleteTagged(c)
    <3>1. pc'[c] = "effected"
      BY <2>3 DEF EndWalk, DeleteTagged, TypeOK
    <3>2. pc'[c] = next
      BY <1>1 DEF TypeOK
    <3> QED
      BY <1>4, <3>1, <3>2
  <2> QED
    BY <2>1, <2>2, <2>3
<1>5. \A b \in Callers : pc'[b] \in {"walking", "absent"} => \A d \in inserted'[b] : d < cursor'[b]
  BY <1>1, <1>2, <1>4 DEF WaitInv, TypeOK
<1> QED
  BY <1>3, <1>5 DEF WaitInv

LEMMA WaitStep ==
  ASSUME IInv, WaitInv, [Next]_vars
  PROVE  WaitInv'
<1>1. ASSUME UNCHANGED <<lock, pc, cursor, inserted>> PROVE WaitInv'
  BY <1>1 DEF WaitInv
<1>2. ASSUME NEW c \in Callers, Start(c) PROVE WaitInv'
  <2>1. /\ pc[c] = "idle" /\ pc' = [pc EXCEPT ![c] = "checked"]
        /\ UNCHANGED <<lock, cursor, inserted>>
    BY <1>2 DEF Start, ReadForResolve, ReadForRedecide, StartCall
  <2> QED
    BY <2>1 DEF WaitInv, IInv, TypeOK, InTransaction
<1>3. ASSUME NEW c \in Callers, Flip(c) PROVE WaitInv'
  <2>1. /\ pc' = [pc EXCEPT ![c] = "flipped"] /\ lock' = [lock EXCEPT ![Req(c)] = c]
        /\ UNCHANGED <<cursor, inserted>>
    BY <1>3 DEF Flip
  <2> QED
    BY <2>1 DEF WaitInv, IInv, TypeOK, InTransaction
<1>4. ASSUME NEW c \in Callers, Step(c) \/ Abort(c) PROVE WaitInv'
  BY <1>3, <1>4, ThrowCases, EndCallWaits, WalkWaits DEF Step, Throw, Commit
<1>5. ASSUME UNCHANGED vars \/ ByHand \/ \E r \in Requests : Submit(r)
      PROVE  UNCHANGED <<lock, pc, cursor, inserted>>
  BY <1>5, HandRecords DEF vars, callVars, Submit
<1> QED
  BY <1>1, <1>2, <1>4, <1>5 DEF Next

\* Of some callers that all wait for a day, the one whose day is last waits for none of
\* the others.
LEMMA FurthestWaitsForNone ==
  ASSUME IInv, WaitInv, NEW A \in SUBSET Callers, A # {}, \A c \in A : pc[c] = "absent"
  PROVE  \E c \in A : \A b \in A : ~WaitsFor(c, b)
<1> USE DEF IInv
<1> DEFINE T == {cursor[c] : c \in A}
<1>1. \A c \in A : cursor[c] \in 0..LastDay
  BY DaysAssumption DEF WalkInv, Dated, TypeOK, Days
<1>2. T \subseteq 0..LastDay
  BY <1>1
<1>3. T # {}
  BY Zenon
<1> HIDE DEF T
<1>4. PICK x \in T : \A y \in T : y <= x
  BY <1>2, <1>3, LargestElement, DaysAssumption
<1>5. PICK c \in A : cursor[c] = x
  BY DEF T
<1>6. \A b \in A : cursor[b] \in T
  BY DEF T
<1>7. ASSUME NEW b \in A, WaitsFor(c, b) PROVE FALSE
  <2>1. cursor[c] \in inserted[b] \cup deleted[b]
    BY <1>7 DEF WaitsFor
  <2>2. deleted[b] = {}
    BY DEF TxInv
  <2>3. cursor[c] < cursor[b]
    BY <2>1, <2>2 DEF WaitInv
  <2> QED
    BY <1>1, <1>4, <1>5, <1>6, <2>3
<1> QED
  BY <1>5, <1>7

LEMMA NoCircle ==
  ASSUME IInv, WaitInv
  PROVE  NoCircularWait
<1> SUFFICES ASSUME NEW S \in SUBSET Callers, S # {}
             PROVE  \E c \in S : \A b \in S : ~WaitsFor(c, b)
  BY DEF NoCircularWait
<1> DEFINE A == {c \in S : pc[c] = "absent"}
<1>1. CASE \E c \in S : pc[c] \notin {"checked", "absent"}
  BY <1>1 DEF WaitsFor
<1>2. CASE A # {} /\ \A c \in S : pc[c] \in {"checked", "absent"}
  <2>1. PICK c \in A : \A b \in A : ~WaitsFor(c, b)
    BY <1>2, FurthestWaitsForNone
  <2>2. ASSUME NEW b \in S, pc[b] = "checked" PROVE ~WaitsFor(c, b)
    BY <2>2 DEF WaitsFor, IInv, TxInv
  <2> QED
    BY <1>2, <2>1, <2>2
<1>3. CASE A = {} /\ \A c \in S : pc[c] \in {"checked", "absent"}
  <2>1. PICK c \in S : TRUE
    OBVIOUS
  <2>2. \A b \in S : pc[b] = "checked"
    BY <1>3
  <2>3. Req(c) \in Requests
    BY <2>2, ActiveCall DEF IInv
  <2>4. ASSUME NEW b \in S PROVE ~WaitsFor(c, b)
    BY <2>2, <2>3 DEF WaitsFor, WaitInv, InTransaction
  <2> QED
    BY <2>4
<1> QED
  BY <1>1, <1>2, <1>3

\* Approvals of overlapping vacations wait for each other's days and for request rows,
\* and never in a circle, for any number of calls and days: the safety half of
\* EveryDecisionEnds.
THEOREM DecisionsNeverWaitInACircle == Spec => []NoCircularWait
<1>1. Init => WaitInv
  BY CallersAssumption DEF Init, WaitInv
<1>2. IInv /\ WaitInv /\ [Next]_vars => WaitInv'
  BY WaitStep
<1>3. IInv /\ WaitInv => NoCircularWait
  BY NoCircle
<1> QED
  BY <1>1, <1>2, <1>3, Invariance, PTL DEF Spec
=============================================================================
