------------------------ MODULE RequestLedgerProofs ------------------------
(***************************************************************************)
(* Theorems about RequestLedger, for every value of its constants.         *)
(***************************************************************************)
EXTENDS RequestLedger, FiniteSetTheorems, TLAPS

\* The inductive invariant.
IInv == TypeOK /\ LedgerInv

\* A caller that is serving a call has its locals.
LEMMA ActiveCall ==
  ASSUME TypeOK, LockInv, NEW c \in Callers, pc[c] # "idle"
  PROVE  /\ call[c] \in Call
         /\ Req(c) \in Requests
         /\ Goal(c) \in Decided
         /\ call[c].seen \in {"PENDING"} \cup Decided
BY DEF TypeOK, LockInv, Call, Req, Goal

\* A caller inside its transaction holds the lock on its request.
LEMMA Holder ==
  ASSUME TypeOK, LockInv, NEW c \in Callers, pc[c] \in InTransaction
  PROVE  lock[Req(c)] = c
BY ActiveCall DEF LockInv, InTransaction

\* Two callers inside their transactions work on different requests.
LEMMA DifferentRequests ==
  ASSUME TypeOK, LockInv,
         NEW c \in Callers, pc[c] \in InTransaction,
         NEW d \in Callers \ {c}, pc[d] \in InTransaction
  PROVE  Req(c) # Req(d)
BY Holder

\* The four ways a call throws have the same effect on the state.
LEMMA ThrowCases ==
  ASSUME NEW c \in Callers,
         Conflict(c) \/ RefuseNoAmount(c) \/ RefuseSettled(c) \/ Abort(c)
  PROVE  Throw(c) /\ pc[c] # "idle"
BY DEF Conflict, RefuseNoAmount, RefuseSettled, Abort

-----------------------------------------------------------------------------
\* The initial state satisfies the invariant.
LEMMA InitInv == Init => IInv
<1> SUFFICES ASSUME Init PROVE IInv
  OBVIOUS
<1>1. TypeOK
  BY DEF Init, TypeOK, Statuses, Decided
<1>2. LockInv
  BY NullsAssumption DEF Init, LockInv, InTransaction
<1>3. CallInv /\ ReversalSawAll
  BY DEF Init, CallInv, ReversalSawAll, InTransaction
<1>4. WriteInv
  BY DEF Init, WriteInv
<1>5. EffectsBounded
  BY DEF Init, EffectsBounded, Tagged, Decided
<1> QED
  BY <1>1, <1>2, <1>3, <1>4, <1>5 DEF IInv, LedgerInv

\* Submitting a request: nobody is working on it yet.
LEMMA SubmitInv ==
  ASSUME IInv, NEW r \in Requests, Submit(r)
  PROVE  IInv'
<1> USE DEF IInv, LedgerInv
<1>1. TypeOK'
  BY DEF Submit, TypeOK, callVars, Statuses
<1>2. LockInv'
  BY DEF Submit, callVars, LockInv, Req
<1>3. CallInv'
  BY ActiveCall DEF Submit, callVars, CallInv, Req, Goal, Resolving, InTransaction, TypeOK
<1>4. WriteInv' /\ ReversalSawAll'
  BY DEF Submit, callVars, WriteInv, ReversalSawAll, Tagged, Req, Goal
<1>5. EffectsBounded'
  BY DEF Submit, callVars, EffectsBounded, Tagged, TypeOK, Decided
<1> QED
  BY <1>1, <1>2, <1>3, <1>4, <1>5

\* The read before the transaction.
LEMMA ReadInv ==
  ASSUME IInv, NEW c \in Callers, NEW r \in Requests, NEW goal \in Decided,
         ReadForResolve(c, r, goal) \/ ReadForRedecide(c, r, goal)
  PROVE  IInv'
<1> USE DEF IInv, LedgerInv
<1>1. /\ StartCall(c, r, goal)
      /\ status[r] \in {"PENDING"} \cup Decided
      /\ goal # status[r]
  BY DEF ReadForResolve, ReadForRedecide, Decided
<1>2. TypeOK'
  BY <1>1 DEF StartCall, tableVars, TypeOK, Call
<1>3. LockInv'
  BY <1>1, <1>2, NullsAssumption DEF StartCall, tableVars, LockInv, Req, TypeOK, Call, InTransaction
<1>4. CallInv'
  BY <1>1 DEF StartCall, tableVars, CallInv, Req, Goal, Resolving, InTransaction, TypeOK, Decided
<1>5. WriteInv' /\ ReversalSawAll'
  BY <1>1 DEF StartCall, tableVars, WriteInv, ReversalSawAll, Tagged, Req, Goal, TypeOK
<1>6. EffectsBounded'
  BY <1>1 DEF StartCall, tableVars, EffectsBounded, Tagged
<1> QED
  BY <1>2, <1>3, <1>4, <1>5, <1>6

\* Taking the lock: the request row is free, so no open transaction is on it.
LEMMA FlipInv ==
  ASSUME IInv, NEW c \in Callers, Flip(c)
  PROVE  IInv'
<1> USE DEF IInv, LedgerInv
<1>1. Req(c) \in Requests /\ call[c] \in Call
  BY ActiveCall DEF Flip
<1>2. TypeOK'
  BY <1>1 DEF Flip, tableVars, TypeOK, InTransaction
<1>3. LockInv'
  BY <1>1, NullsAssumption DEF Flip, tableVars, LockInv, Req, TypeOK, InTransaction
<1>4. CallInv'
  BY DEF Flip, FlipMatches, tableVars, CallInv, Req, Goal, Resolving, InTransaction, TypeOK
<1>5. WriteInv' /\ ReversalSawAll'
  BY DEF Flip, tableVars, WriteInv, ReversalSawAll, Tagged, Req, Goal, TypeOK
<1>6. EffectsBounded'
  BY DEF Flip, tableVars, EffectsBounded, Tagged
<1> QED
  BY <1>2, <1>3, <1>4, <1>5, <1>6

\* Throwing: the tables stay, the caller's writes and lock are gone.
LEMMA ThrowInv ==
  ASSUME IInv, NEW c \in Callers, Throw(c), pc[c] # "idle"
  PROVE  IInv'
<1> USE DEF IInv, LedgerInv
<1>1. TypeOK'
  BY DEF Throw, EndCall, tableVars, TypeOK
<1>2. LockInv'
  BY NullsAssumption DEF Throw, EndCall, tableVars, LockInv, Req, TypeOK, InTransaction
<1>3. CallInv'
  BY DEF Throw, EndCall, tableVars, CallInv, Req, Goal, Resolving, InTransaction, TypeOK
<1>4. WriteInv' /\ ReversalSawAll'
  BY DEF Throw, EndCall, tableVars, WriteInv, ReversalSawAll, Tagged, Req, Goal, TypeOK
<1>5. EffectsBounded'
  BY DEF Throw, EndCall, tableVars, EffectsBounded, Tagged
<1> QED
  BY <1>1, <1>2, <1>3, <1>4, <1>5

\* Inserting the granted row under a key nobody uses.
LEMMA ApplyEffectInv ==
  ASSUME IInv, NEW c \in Callers, ApplyEffect(c)
  PROVE  IInv'
<1> USE DEF IInv, LedgerInv
<1>1. TypeOK'
  BY DEF ApplyEffect, tableVars, TypeOK, FreeIds, InTransaction
<1>2. LockInv'
  BY DEF ApplyEffect, tableVars, LockInv, Req, TypeOK, InTransaction
<1>3. CallInv' /\ ReversalSawAll'
  BY DEF ApplyEffect, tableVars, CallInv, ReversalSawAll, Req, Goal, Resolving, InTransaction, TypeOK
<1>4. WriteInv'
  BY DEF ApplyEffect, tableVars, WriteInv, Tagged, FreeIds, Req, Goal, TypeOK
<1>5. EffectsBounded'
  BY DEF ApplyEffect, tableVars, EffectsBounded, Tagged
<1> QED
  BY <1>1, <1>2, <1>3, <1>4, <1>5

\* The repayment guard remembers the rows it looked at.
LEMMA InspectInv ==
  ASSUME IInv, NEW c \in Callers, Inspect(c)
  PROVE  IInv'
<1> USE DEF IInv, LedgerInv
<1>1. TypeOK'
  BY DEF Inspect, tableVars, TypeOK, Tagged, InTransaction
<1>2. LockInv'
  BY DEF Inspect, tableVars, LockInv, Req, TypeOK, InTransaction
<1>3. CallInv' /\ ReversalSawAll'
  BY DEF Inspect, Reversing, tableVars, CallInv, ReversalSawAll, Req, Goal, Resolving, InTransaction, TypeOK
<1>4. WriteInv'
  BY DEF Inspect, tableVars, WriteInv, Tagged, Req, Goal, TypeOK
<1>5. EffectsBounded'
  BY DEF Inspect, tableVars, EffectsBounded, Tagged
<1> QED
  BY <1>1, <1>2, <1>3, <1>4, <1>5

\* The uncommitted writes of two callers are about different rows: an inserted
\* key is not in the ledger, a deleted row is tagged to the deleter's request.
LEMMA DeleteTaggedInv ==
  ASSUME IInv, NEW c \in Callers, DeleteTagged(c)
  PROVE  IInv'
<1> USE DEF IInv, LedgerInv
<1>1. TypeOK'
  BY DEF DeleteTagged, tableVars, TypeOK, Tagged, InTransaction
<1>2. LockInv'
  BY DEF DeleteTagged, tableVars, LockInv, Req, TypeOK, InTransaction
<1>3. CallInv'
  BY DEF DeleteTagged, tableVars, CallInv, Req, Goal, Resolving, InTransaction, TypeOK
<1>4. ReversalSawAll'
  BY DEF DeleteTagged, tableVars, WriteInv, ReversalSawAll, Req, Goal, Tagged, TypeOK
<1>5. Goal(c) = "REJECTED" /\ touched'[c] = Tagged(Req(c))
  BY DEF DeleteTagged, CallInv, TypeOK
<1>6. ASSUME NEW d \in Callers \ {c}
      PROVE  touched[d] \cap Tagged(Req(c)) = {}
  <2>1. CASE pc[d] # "effected"
    BY <2>1 DEF WriteInv
  <2>2. CASE pc[d] = "effected" /\ Goal(d) = "APPROVED"
    BY <2>2 DEF WriteInv, Tagged
  <2>3. CASE pc[d] = "effected" /\ Goal(d) = "REJECTED"
    <3>1. Req(c) # Req(d)
      BY <2>3, DifferentRequests DEF DeleteTagged, InTransaction
    <3>2. touched[d] = Tagged(Req(d))
      BY <2>3 DEF WriteInv
    <3> QED
      BY <3>1, <3>2 DEF Tagged
  <2> QED
    BY <2>1, <2>2, <2>3, ActiveCall DEF Decided
<1>7. WriteInv'
  BY <1>5, <1>6 DEF DeleteTagged, tableVars, WriteInv, Tagged, Req, Goal, TypeOK
<1>8. EffectsBounded'
  BY DEF DeleteTagged, tableVars, EffectsBounded, Tagged
<1> QED
  BY <1>1, <1>2, <1>3, <1>4, <1>7, <1>8

-----------------------------------------------------------------------------
\* The rows tagged to a request are finitely many.
LEMMA TaggedFinite ==
  ASSUME NEW r \in Requests
  PROVE  IsFiniteSet(Tagged(r)) /\ Cardinality(Tagged(r)) \in Nat
BY RowIdsAssumption, FS_Subset, FS_CardinalityType DEF Tagged

\* A step that only loses tagged rows keeps the bound.
LEMMA FewerTagged ==
  ASSUME IInv, NEW r \in Requests, Tagged(r)' \subseteq Tagged(r)
  PROVE  Cardinality(Tagged(r)') <= Cardinality(Tagged(r))
         /\ Cardinality(Tagged(r)') \in Nat
BY TaggedFinite, FS_Subset, FS_CardinalityType

\* The committed rows after a commit, by what the caller wrote.
LEMMA CommitRows ==
  ASSUME IInv, NEW c \in Callers, Commit(c), NEW q \in Requests, q = Req(c)
  PROVE  /\ \A r \in Requests \ {q} : Tagged(r)' = Tagged(r)
         /\ \/ /\ Goal(c) = "APPROVED"
               /\ \E id \in RowIds :
                    /\ touched[c] = {id} /\ ledger[id] = NoRow
                    /\ GrantedRow(q) \in Row
                    /\ ledger' = [ledger EXCEPT ![id] = GrantedRow(q)]
                    /\ Tagged(q)' = Tagged(q) \cup {id}
                    /\ id \notin Tagged(q)
            \/ /\ Goal(c) = "REJECTED" /\ ~Resolving(c)
               /\ touched[c] = Tagged(q)
               /\ ledger' = [id \in RowIds |-> IF id \in Tagged(q) THEN NoRow ELSE ledger[id]]
               /\ Tagged(q)' = {}
            \/ /\ Goal(c) = "REJECTED" /\ Resolving(c)
               /\ touched[c] = {} /\ ledger' = ledger
<1> USE DEF IInv, LedgerInv
<1>1. Goal(c) \in Decided
  BY ActiveCall DEF Commit, ReadyToCommit
<1>2. CASE pc[c] = "effected" /\ Goal(c) = "APPROVED"
  <2>1. PICK id \in RowIds : touched[c] = {id} /\ ledger[id] = NoRow
    BY <1>2 DEF WriteInv
  <2>2. ledger' = [ledger EXCEPT ![id] = GrantedRow(q)]
    BY <1>2, <2>1 DEF Commit, Written, TypeOK
  <2>3. GrantedRow(q) \in Row /\ GrantedRow(q).source = q
    BY <1>2, AmountsAssumption DEF GrantedRow, Row, CallInv, TypeOK
  <2>4. GrantedRow(q) # NoRow
    BY <2>3, NullsAssumption
  <2>5. \A r \in Requests \ {q} : Tagged(r)' = Tagged(r)
    BY <2>1, <2>2, <2>3, <2>4 DEF Tagged, TypeOK
  <2>6. Tagged(q)' = Tagged(q) \cup {id}
    BY <2>1, <2>2, <2>3, <2>4 DEF Tagged, TypeOK
  <2> QED
    BY <1>2, <2>1, <2>2, <2>3, <2>5, <2>6 DEF Tagged
<1>3. CASE pc[c] = "effected" /\ Goal(c) = "REJECTED"
  <2>1. touched[c] = Tagged(q) /\ ~Resolving(c)
    BY <1>3 DEF WriteInv, CallInv
  <2>2. ledger' = [id \in RowIds |-> IF id \in Tagged(q) THEN NoRow ELSE ledger[id]]
    BY <1>3, <2>1 DEF Commit, Written
  <2>3. Tagged(q)' = {} /\ \A r \in Requests \ {q} : Tagged(r)' = Tagged(r)
    BY <2>2 DEF Tagged
  <2> QED
    BY <1>3, <2>1, <2>2, <2>3
<1>4. CASE pc[c] = "flipped" /\ Goal(c) = "REJECTED" /\ Resolving(c)
  <2>1. touched[c] = {}
    BY <1>4 DEF WriteInv
  <2>2. ledger' = ledger
    BY <2>1 DEF Commit, TypeOK
  <2> QED
    BY <1>4, <2>1, <2>2 DEF Tagged
<1> QED
  BY <1>1, <1>2, <1>3, <1>4 DEF Commit, ReadyToCommit, Decided

\* The bound on the tagged rows is what a commit can disturb most: a grant adds
\* one row and is either a first-time resolve(), which raises the bound, or the
\* compare-and-swap from REJECTED, where the bound is strict.
LEMMA CommitBound ==
  ASSUME IInv, NEW c \in Callers, Commit(c), NEW q \in Requests, q = Req(c)
  PROVE  EffectsBounded'
<1> USE DEF IInv, LedgerInv
<1>1. /\ status' = [status EXCEPT ![q] = Goal(c)]
      /\ resolutions' = [resolutions EXCEPT ![q] = IF Resolving(c) THEN @ + 1 ELSE @]
  BY DEF Commit
<1>2. /\ call[c] \in Call /\ Goal(c) \in Decided
      /\ status[q] \in {"PENDING"} \cup Decided
      /\ Goal(c) # call[c].seen
      /\ ~Resolving(c) => status[q] = call[c].seen
  BY ActiveCall DEF Commit, ReadyToCommit, CallInv, InTransaction, TypeOK, Statuses
<1>3. /\ resolutions[q] \in Nat
      /\ Cardinality(Tagged(q)) \in Nat
      /\ Cardinality(Tagged(q)) <= resolutions[q]
  <2>1. status[q] = "PENDING" => Cardinality(Tagged(q)) = 0 /\ resolutions[q] = 0
    BY FS_EmptySet DEF EffectsBounded
  <2> QED
    BY <1>2, <2>1, TaggedFinite DEF EffectsBounded, TypeOK, Decided
<1>4. status'[q] \in Decided /\ resolutions'[q] > 0
  BY <1>1, <1>2, <1>3 DEF TypeOK, EffectsBounded, Decided, Resolving
<1>5. status'[q] = "APPROVED" => Cardinality(Tagged(q)') <= resolutions'[q]
  <2> SUFFICES ASSUME Goal(c) = "APPROVED"
               PROVE  Cardinality(Tagged(q)') <= resolutions'[q]
    BY <1>1 DEF TypeOK
  <2>1. Cardinality(Tagged(q)') = Cardinality(Tagged(q)) + 1
    BY CommitRows, TaggedFinite, FS_AddElement
  <2>2. CASE Resolving(c)
    BY <1>1, <1>3, <2>1, <2>2 DEF TypeOK
  <2>3. CASE ~Resolving(c)
    <3>1. status[q] = "REJECTED"
      BY <1>2, <2>3 DEF Decided, Resolving
    <3>2. Cardinality(Tagged(q)) < resolutions[q]
      BY <3>1 DEF EffectsBounded
    <3> QED
      BY <1>1, <1>3, <2>1, <2>3, <3>2 DEF TypeOK
  <2> QED
    BY <2>2, <2>3
<1>6. status'[q] = "REJECTED" => Cardinality(Tagged(q)') < resolutions'[q]
  <2> SUFFICES ASSUME Goal(c) = "REJECTED"
               PROVE  Cardinality(Tagged(q)') < resolutions'[q]
    BY <1>1 DEF TypeOK
  <2>1. CASE Resolving(c)
    <3>1. Tagged(q)' = Tagged(q)
      BY <2>1, CommitRows DEF Tagged
    <3> QED
      BY <1>1, <1>3, <2>1, <3>1 DEF TypeOK
  <2>2. CASE ~Resolving(c)
    <3>1. Tagged(q)' = {}
      BY <2>2, CommitRows
    <3> QED
      BY <1>4, <3>1, FS_EmptySet
  <2> QED
    BY <2>1, <2>2
<1>7. ASSUME NEW r \in Requests \ {q}
      PROVE  Tagged(r)' = Tagged(r) /\ status'[r] = status[r] /\ resolutions'[r] = resolutions[r]
  BY <1>1, CommitRows DEF TypeOK
<1> QED
  BY <1>4, <1>5, <1>6, <1>7 DEF EffectsBounded, Decided

\* Committing: the other callers' transactions are on other requests and rows.
LEMMA CommitInv ==
  ASSUME IInv, NEW c \in Callers, Commit(c)
  PROVE  IInv'
<1> USE DEF IInv, LedgerInv
<1>0. pc[c] \in InTransaction
  BY DEF Commit, ReadyToCommit, InTransaction
<1> DEFINE q == Req(c)
<1>1. call[c] \in Call /\ q \in Requests /\ Goal(c) \in Decided
  BY <1>0, ActiveCall DEF InTransaction
<1>2. ASSUME NEW d \in Callers \ {c}
      PROVE  /\ pc'[d] = pc[d] /\ call'[d] = call[d]
             /\ inspected'[d] = inspected[d] /\ touched'[d] = touched[d]
             /\ pc[d] \in InTransaction => Req(d) # q
  BY <1>0, DifferentRequests DEF Commit, EndCall, TypeOK
<1>3. /\ pc'[c] = "idle" /\ call'[c] = NoCall
      /\ inspected'[c] = {} /\ touched'[c] = {}
  BY DEF Commit, EndCall, TypeOK
<1>4. TypeOK'
  <2>1. ledger' \in [RowIds -> Row \cup {NoRow}]
    <3>1. \A id \in touched[c] : Written(c, id) \in Row \cup {NoRow}
      BY <1>1, CommitRows DEF Written
    <3> QED
      BY <3>1 DEF Commit, TypeOK
  <2> QED
    BY <1>1, <2>1 DEF Commit, EndCall, TypeOK, Statuses
<1>5. LockInv'
  BY <1>0, NullsAssumption DEF Commit, EndCall, LockInv, Req, TypeOK, InTransaction
<1>6. status'[q] \in Decided /\ \A r \in Requests \ {q} : status'[r] = status[r]
  BY <1>1 DEF Commit, TypeOK
<1>7. CallInv'
  <2> SUFFICES ASSUME NEW d \in Callers, d # c, pc[d] # "idle"
               PROVE  /\ status'[Req(d)] # "ABSENT"
                      /\ pc[d] \in InTransaction /\ ~Resolving(d) =>
                           status'[Req(d)] = call[d].seen
    BY <1>2, <1>3 DEF CallInv, Commit, Req, Goal, Resolving, InTransaction
  <2> QED
    BY <1>2, <1>6, ActiveCall DEF CallInv, Decided
<1>8. WriteInv'
  <2>1. ASSUME NEW d \in Callers, d # c, pc[d] \in InTransaction, NEW r \in Requests, r = Req(d)
        PROVE  Tagged(r)' = Tagged(r)
    BY <1>1, <1>2, <2>1, CommitRows
  <2>2. ASSUME NEW d \in Callers, d # c, NEW id \in touched[d], id \in RowIds
        PROVE  ledger'[id] = ledger[id]
    BY <2>2 DEF Commit, WriteInv, TypeOK
  <2>3. ASSUME NEW d \in Callers, d # c
        PROVE  /\ pc'[d] # "effected" => touched'[d] = {}
               /\ pc'[d] = "inspected" => Tagged(Req(d))' \subseteq inspected'[d]
               /\ pc'[d] = "effected" /\ Goal(d)' = "REJECTED" => touched'[d] = Tagged(Req(d))'
               /\ pc'[d] = "effected" /\ Goal(d)' = "APPROVED" =>
                    \E id \in RowIds : touched'[d] = {id} /\ ledger'[id] = NoRow
    <3>1. pc[d] \in InTransaction => Req(d) \in Requests
      BY ActiveCall DEF InTransaction
    <3>2. pc[d] \in InTransaction => Tagged(Req(d))' = Tagged(Req(d))
      BY <1>2, <2>1, <2>3, <3>1 DEF Tagged, Req
    <3> QED
      BY <1>2, <2>2, <2>3, <3>2 DEF WriteInv, InTransaction, Goal
  <2> QED
    BY <1>2, <1>3, <2>3 DEF WriteInv
<1>9. ReversalSawAll'
  BY <1>2, <1>3 DEF ReversalSawAll, Goal
<1>10. EffectsBounded'
  BY <1>1, CommitBound
<1> QED
  BY <1>4, <1>5, <1>7, <1>8, <1>9, <1>10

\* The finance endpoints only change rows no transaction has written, and keep
\* the tag of a row they edit.
LEMMA FinanceInv ==
  ASSUME IInv, NEW id \in RowIds, Finance(id)
  PROVE  IInv'
<1> USE DEF IInv, LedgerInv
<1>1. UNCHANGED <<status, amount, resolutions, callVars>>
  BY DEF Finance, FinanceCreate, FinanceUpdate, FinanceRemove
<1>2. /\ \A c \in Callers : id \notin touched[c]
      /\ \/ ledger[id] = NoRow /\ \E row \in Row : row.source = NoRequest /\ ledger' = [ledger EXCEPT ![id] = row]
         \/ ledger[id] # NoRow /\ \E row \in Row : row.source = ledger[id].source /\ ledger' = [ledger EXCEPT ![id] = row]
         \/ ledger[id] # NoRow /\ ledger' = [ledger EXCEPT ![id] = NoRow]
  <2>1. CASE FinanceCreate(id)
    <3>1. PICK a \in Amounts, o \in Owed :
            ledger' = [ledger EXCEPT ![id] = [source |-> NoRequest, amount |-> a, outstanding |-> o]]
      BY <2>1 DEF FinanceCreate
    <3>2. [source |-> NoRequest, amount |-> a, outstanding |-> o] \in Row
      BY DEF Row
    <3> QED
      BY <2>1, <3>1, <3>2 DEF FinanceCreate, FreeIds
  <2>2. CASE FinanceUpdate(id)
    <3>1. PICK a \in Amounts, o \in Owed :
            ledger' = [ledger EXCEPT ![id] =
                         [source |-> ledger[id].source, amount |-> a, outstanding |-> o]]
      BY <2>2 DEF FinanceUpdate
    <3>2. [source |-> ledger[id].source, amount |-> a, outstanding |-> o] \in Row
      BY <2>2 DEF FinanceUpdate, OpenIds, TypeOK, Row
    <3> QED
      BY <2>2, <3>1, <3>2 DEF FinanceUpdate, OpenIds
  <2>3. CASE FinanceRemove(id)
    BY <2>3 DEF FinanceRemove, OpenIds
  <2> QED
    BY <2>1, <2>2, <2>3 DEF Finance
<1>3. \A r \in Requests : Tagged(r)' \subseteq Tagged(r)
  BY <1>2, NullsAssumption DEF Tagged, TypeOK
<1>4. \A c \in Callers : pc[c] \in InTransaction /\ id \in Tagged(Req(c)) => pc[c] # "effected" \/ Goal(c) # "REJECTED"
  BY <1>2 DEF WriteInv
<1>5. TypeOK'
  BY <1>1, <1>2 DEF TypeOK, callVars
<1>6. LockInv' /\ CallInv' /\ ReversalSawAll'
  BY <1>1 DEF callVars, LockInv, CallInv, ReversalSawAll, Req, Goal, Resolving
<1>7. WriteInv'
  <2>1. ASSUME NEW c \in Callers, pc[c] = "effected", Goal(c) = "REJECTED"
        PROVE  Tagged(Req(c))' = Tagged(Req(c))
    <3>1. Req(c) \in Requests /\ id \notin Tagged(Req(c))
      BY <1>4, <2>1, ActiveCall DEF InTransaction
    <3> QED
      BY <1>1, <1>2, <3>1, NullsAssumption DEF Tagged, TypeOK, callVars, Req
  <2>2. ASSUME NEW c \in Callers, pc[c] = "inspected"
        PROVE  Tagged(Req(c))' \subseteq Tagged(Req(c))
    <3>1. Req(c) \in Requests /\ Req(c)' = Req(c)
      BY <1>1, <2>2, ActiveCall DEF callVars, Req
    <3> QED
      BY <1>3, <3>1 DEF Tagged
  <2> QED
    BY <1>1, <1>2, <2>1, <2>2 DEF callVars, WriteInv, Goal, TypeOK
<1>8. EffectsBounded'
  BY <1>1, <1>3, FewerTagged, TaggedFinite DEF EffectsBounded, TypeOK, Decided
<1> QED
  BY <1>5, <1>6, <1>7, <1>8

-----------------------------------------------------------------------------
\* One step of the specification, or none, keeps the invariant.
LEMMA NextInv == IInv /\ [Next]_vars => IInv'
<1> SUFFICES ASSUME IInv, [Next]_vars PROVE IInv'
  OBVIOUS
<1>1. CASE UNCHANGED vars
  <2> USE <1>1 DEF vars
  <2>1. TypeOK'
    BY DEF IInv, TypeOK
  <2>2. LockInv' /\ CallInv' /\ ReversalSawAll'
    BY DEF IInv, LedgerInv, LockInv, CallInv, ReversalSawAll, Req, Goal, Resolving
  <2>3. WriteInv'
    <3>1. \A c \in Callers : Tagged(Req(c))' = Tagged(Req(c))
      BY DEF Tagged, Req
    <3> QED
      BY <3>1 DEF IInv, LedgerInv, WriteInv, Goal
  <2>4. EffectsBounded'
    <3>1. \A r \in Requests : Tagged(r)' = Tagged(r)
      BY DEF Tagged
    <3> QED
      BY <3>1 DEF IInv, LedgerInv, EffectsBounded
  <2> QED
    BY <2>1, <2>2, <2>3, <2>4 DEF IInv, LedgerInv
<1>2. ASSUME NEW r \in Requests, Submit(r) PROVE IInv'
  BY <1>2, SubmitInv
<1>3. ASSUME NEW c \in Callers, Decide(c) PROVE IInv'
  <2>1. CASE \E r \in Requests, goal \in Decided :
               ReadForResolve(c, r, goal) \/ ReadForRedecide(c, r, goal)
    BY <2>1, ReadInv
  <2>2. CASE Flip(c)
    BY <2>2, FlipInv
  <2>3. CASE Conflict(c) \/ RefuseNoAmount(c) \/ RefuseSettled(c) \/ Abort(c)
    BY <2>3, ThrowCases, ThrowInv
  <2>4. CASE ApplyEffect(c)
    BY <2>4, ApplyEffectInv
  <2>5. CASE Inspect(c)
    BY <2>5, InspectInv
  <2>6. CASE DeleteTagged(c)
    BY <2>6, DeleteTaggedInv
  <2>7. CASE Commit(c)
    BY <2>7, CommitInv
  <2> QED
    BY <1>3, <2>1, <2>2, <2>3, <2>4, <2>5, <2>6, <2>7 DEF Decide
<1>4. ASSUME NEW id \in RowIds, Finance(id) PROVE IInv'
  BY <1>4, FinanceInv
<1> QED
  BY <1>1, <1>2, <1>3, <1>4 DEF Next

\* The invariant holds throughout.
THEOREM Invariance == Spec => []IInv
BY InitInv, NextInv, PTL DEF Spec

\* Type correctness: in particular a ledger row never has a NULL amount.
THEOREM TypeCorrect == Spec => []TypeOK
<1>1. IInv => TypeOK
  BY DEF IInv
<1> QED
  BY <1>1, Invariance, PTL

\* Locks, locals and uncommitted writes agree with the committed tables.
THEOREM LedgerCorrect == Spec => []LedgerInv
<1>1. IInv => LedgerInv
  BY DEF IInv
<1> QED
  BY <1>1, Invariance, PTL

\* However decisions, aborts and finance edits interleave, a request never has
\* more rows in the ledger than resolve() transactions committed on it, and
\* fewer while it is rejected.
THEOREM EffectsBoundedAlways == Spec => []EffectsBounded
<1>1. IInv => EffectsBounded
  BY DEF IInv, LedgerInv
<1> QED
  BY <1>1, Invariance, PTL

\* A reversal only deletes rows its repayment guard has looked at.
THEOREM ReversalSawAllAlways == Spec => []ReversalSawAll
<1>1. IInv => ReversalSawAll
  BY DEF IInv, LedgerInv
<1> QED
  BY <1>1, Invariance, PTL

-----------------------------------------------------------------------------
(* Decisions are atomic: the statement-by-statement RequestLedger          *)
(* implements DecisionLedger, but for the approve / reject calls that were *)
(* overtaken, for any number of calls, requests and ledger rows.           *)

\* Only a commit, a submission and the finance endpoints change the tables, and each is
\* one step of DecisionLedger, unless the committing call was overtaken.

\* A commit finds the status its call read, or one that was decided since.
LEMMA CommitReads ==
  ASSUME IInv, NEW c \in Callers, Commit(c)
  PROVE  /\ Req(c) \in Requests /\ Goal(c) \in Decided /\ Goal(c) # call[c].seen
         /\ call[c].seen \in {"PENDING"} \cup Decided
         /\ status[Req(c)] = call[c].seen \/ Overtaken(c)
         /\ Overtaken(c) => status[Req(c)] \in Decided
<1> USE DEF IInv, LedgerInv
<1>1. pc[c] \in InTransaction /\ pc[c] # "idle"
  BY DEF Commit, ReadyToCommit, InTransaction
<1>2. call[c] # NoCall /\ status[Req(c)] # "ABSENT" /\ status[Req(c)] \in Statuses
  BY <1>1, ActiveCall DEF LockInv, CallInv, TypeOK
<1> QED
  BY <1>1, <1>2, ActiveCall DEF CallInv, Overtaken, Resolving, Statuses

LEMMA CommitIsDecision ==
  ASSUME IInv, NEW c \in Callers, Commit(c), ~Overtaken(c)
  PROVE  Decisions!Next
<1> USE DEF IInv, LedgerInv
<1> DEFINE q == Req(c)
<1>1. /\ q \in Requests /\ Goal(c) \in Decided /\ call[c].seen \in {"PENDING"} \cup Decided
      /\ Goal(c) # call[c].seen
      /\ status[q] = call[c].seen
  BY CommitReads
<1>2. status' = [status EXCEPT ![q] = Goal(c)] /\ amount' = amount
  BY DEF Commit
<1>3. CASE Goal(c) = "APPROVED"
  <2>1. amount[q] # NoAmount
    BY <1>3 DEF Commit, ReadyToCommit, CallInv
  <2>2. PICK id \in RowIds : /\ ledger[id] = NoRow
                             /\ ledger' = [ledger EXCEPT ![id] = GrantedRow(q)]
    BY <1>1, <1>3, CommitRows
  <2>3. Decisions!Approve(q)
    BY <1>1, <1>2, <1>3, <2>1, <2>2 DEF Decisions!Approve, Decisions!GrantOne, GrantedRow, Decided
  <2> QED
    BY <1>1, <2>3 DEF Decisions!Next
<1>4. CASE Goal(c) = "REJECTED"
  <2>1. ledger' = [id \in RowIds |-> IF id \in Tagged(q) THEN NoRow ELSE ledger[id]]
    <3>1. CASE Resolving(c)
      <4>1. ledger' = ledger
        BY <1>1, <1>4, <3>1, CommitRows
      <4>2. Tagged(q) = {}
        BY <1>1, <3>1 DEF EffectsBounded, Resolving
      <4> QED
        BY <4>1, <4>2 DEF TypeOK
    <3>2. CASE ~Resolving(c)
      BY <1>1, <1>4, <3>2, CommitRows
    <3> QED
      BY <3>1, <3>2
  <2>2. Decisions!RevokeAll(q)
    BY <2>1 DEF Decisions!RevokeAll, Tagged
  <2>3. Decisions!Reject(q)
    BY <1>1, <1>2, <1>4, <2>2 DEF Decisions!Reject, Decided
  <2> QED
    BY <1>1, <2>3 DEF Decisions!Next
<1> QED
  BY <1>1, <1>3, <1>4 DEF Decided

\* The commit of a call that was overtaken adds its row, or only changes the status.
LEMMA CommitIsOverwrite ==
  ASSUME IInv, NEW c \in Callers, Commit(c), Overtaken(c)
  PROVE  Decisions!Overwrite(Req(c))
<1> USE DEF IInv, LedgerInv
<1> DEFINE q == Req(c)
<1>1. /\ q \in Requests /\ Goal(c) \in Decided /\ status[q] \in {"APPROVED", "REJECTED"}
      /\ status' = [status EXCEPT ![q] = Goal(c)] /\ amount' = amount
  BY CommitReads DEF Commit, Decided
<1>2. CASE Goal(c) = "APPROVED"
  <2>1. amount[q] # NoAmount
    BY <1>2 DEF Commit, ReadyToCommit, CallInv
  <2>2. PICK id \in RowIds : /\ ledger[id] = NoRow
                             /\ ledger' = [ledger EXCEPT ![id] = GrantedRow(q)]
    BY <1>1, <1>2, CommitRows
  <2>3. Decisions!GrantOne(q)
    BY <2>1, <2>2 DEF Decisions!GrantOne, GrantedRow
  <2> QED
    BY <1>1, <1>2, <2>3 DEF Decisions!Overwrite
<1>3. CASE Goal(c) = "REJECTED"
  <2>1. ledger' = ledger
    BY <1>1, <1>3, CommitRows DEF Overtaken
  <2> QED
    BY <1>1, <1>3, <2>1 DEF Decisions!Overwrite
<1> QED
  BY <1>1, <1>2, <1>3 DEF Decided

LEMMA FinanceIsFinance ==
  ASSUME IInv, NEW id \in RowIds, Finance(id)
  PROVE  Decisions!Next
<1> USE DEF IInv
<1>1. UNCHANGED <<status, amount>>
  BY DEF Finance, FinanceCreate, FinanceUpdate, FinanceRemove
<1>2. CASE FinanceCreate(id)
  BY <1>1, <1>2 DEF FinanceCreate, FreeIds, Decisions!Finance, Decisions!Next
<1>3. CASE FinanceUpdate(id)
  <2>1. ledger[id] # NoRow /\ id \in DOMAIN ledger
    BY <1>3 DEF FinanceUpdate, OpenIds, TypeOK
  <2> QED
    BY <1>1, <1>3, <2>1 DEF FinanceUpdate, Decisions!Finance, Decisions!Next
<1>4. CASE FinanceRemove(id)
  BY <1>1, <1>4 DEF FinanceRemove, Decisions!Finance, Decisions!Next
<1> QED
  BY <1>2, <1>3, <1>4 DEF Finance

\* Every step of RequestLedger is a step of DecisionLedger, or an overwriting decision,
\* or leaves the tables.
LEMMA StepIsDecision ==
  ASSUME IInv, [Next]_vars
  PROVE  [Decisions!Next \/ \E c \in Callers : Overtaken(c) /\ Decisions!Overwrite(Req(c))]_
           <<status, amount, ledger>>
<1>1. CASE UNCHANGED vars
  BY <1>1 DEF vars
<1>2. ASSUME NEW r \in Requests, Submit(r) PROVE Decisions!Next
  BY <1>2 DEF Submit, Decisions!Submit, Decisions!Next
<1>3. ASSUME NEW c \in Callers, Decide(c), ~Commit(c) PROVE UNCHANGED <<status, amount, ledger>>
  BY <1>3 DEF Decide, ReadForResolve, ReadForRedecide, StartCall, Flip, Conflict, ApplyEffect,
       RefuseNoAmount, Inspect, RefuseSettled, DeleteTagged, Abort, Throw, tableVars
<1> QED
  BY <1>1, <1>2, <1>3, CommitIsDecision, CommitIsOverwrite, FinanceIsFinance DEF Next

\* However many approvals, rejections and re-decisions race on whatever requests, with
\* crashes, rollbacks and finance edits in between, the committed tables move only by
\* whole decisions of DecisionLedger, and by those of calls whose request was decided
\* after they read it PENDING, each of which adds one row or changes the status alone.
THEOREM Atomicity == Spec => AtomicDecisions
<1>1. Init => Decisions!Init
  BY DEF Init, Decisions!Init
<1>2. IInv /\ [Next]_vars =>
        [Decisions!Next \/ \E c \in Callers : Overtaken(c) /\ Decisions!Overwrite(Req(c))]_
          <<status, amount, ledger>>
  BY StepIsDecision
<1> QED
  BY <1>1, <1>2, Invariance, PTL DEF Spec, AtomicDecisions
=============================================================================
