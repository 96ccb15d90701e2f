--------------------------- MODULE RequestLedger ---------------------------
(***************************************************************************)
(* Worker requests of type LOAN and ADVANCE, their approval workflow       *)
(* (RequestsService.resolve / redecide) and the ledger rows the approvals  *)
(* create, which the finance endpoints edit at the same time.              *)
(*                                                                         *)
(* The back end runs every HTTP call as an independent async function over *)
(* one Postgres database at READ COMMITTED.  A decision reads the request  *)
(* row OUTSIDE its transaction, then opens a transaction whose statements  *)
(* are separate steps here: flip the status (which locks the request row), *)
(* look at the tagged rows, insert or delete them, commit.  What a         *)
(* transaction wrote is local to the caller until Commit; an error, the    *)
(* five-second limit of an interactive transaction or a crash rolls back.  *)
(* The finance endpoints are single autocommit statements.                 *)
(*                                                                         *)
(* Loan and AdvancePayment are two tables with the same columns and the    *)
(* same code; a request only ever touches the table of its type, so one    *)
(* ledger stands for both.                                                 *)
(***************************************************************************)
EXTENDS Naturals, FiniteSets

CONSTANTS
  Requests,    \* requests that may be submitted
  Callers,     \* HTTP calls that can be in flight at once
  RowIds,      \* primary keys of the ledger (bounds the rows alive at once)
  Amounts,     \* positive amounts a request or a ledger row can have
  Owed,        \* values of a row's outstanding balance
  NoAmount,    \* the amount column of a request is NULL
  NoRow,       \* no ledger row has this primary key
  NoRequest,   \* the requestId tag of a row created by hand is NULL
  NoCaller,    \* the request row is not locked
  NoCall       \* the caller is not serving a decision

Decided  == {"APPROVED", "REJECTED"}
Statuses == {"ABSENT", "PENDING"} \cup Decided

\* One row of Loan / AdvancePayment: who it is tagged to, and its balance.
Row == [source      : Requests \cup {NoRequest},
        amount      : Amounts,
        outstanding : Owed]

\* The locals of resolve() / redecide(): the request, the status in `current`
\* (read before the transaction) and the status asked for.
Call == [req : Requests, seen : {"PENDING"} \cup Decided, goal : Decided]

ASSUME RowIdsAssumption  == IsFiniteSet(RowIds)
ASSUME AmountsAssumption == Amounts \subseteq Owed
ASSUME NullsAssumption   == /\ NoAmount  \notin Amounts
                            /\ NoRow     \notin Row
                            /\ NoRequest \notin Requests
                            /\ NoCaller  \notin Callers
                            /\ NoCall    \notin Call

VARIABLES
  status,       \* committed WorkerRequest.status
  amount,       \* WorkerRequest.amount, fixed at submission
  ledger,       \* committed Loan / AdvancePayment rows
  lock,         \* holder of the lock on each request row
  pc,           \* where each caller is
  call,         \* its locals
  inspected,    \* the rows its findMany returned
  touched,      \* the rows it inserted or deleted and has not committed
  resolutions   \* history: committed resolve() transactions per request

vars == <<status, amount, ledger, lock, pc, call, inspected, touched, resolutions>>

callVars  == <<lock, pc, call, inspected, touched>>
tableVars == <<status, amount, ledger, resolutions>>

InTransaction == {"flipped", "inspected", "effected"}

TypeOK ==
  /\ status      \in [Requests -> Statuses]
  /\ amount      \in [Requests -> Amounts \cup {NoAmount}]
  /\ ledger      \in [RowIds -> Row \cup {NoRow}]
  /\ lock        \in [Requests -> Callers \cup {NoCaller}]
  /\ pc          \in [Callers -> {"idle", "checked"} \cup InTransaction]
  /\ call        \in [Callers -> Call \cup {NoCall}]
  /\ inspected   \in [Callers -> SUBSET RowIds]
  /\ touched     \in [Callers -> SUBSET RowIds]
  /\ resolutions \in [Requests -> Nat]

-----------------------------------------------------------------------------
\* WHERE requestId = r
Tagged(r) == {id \in RowIds : ledger[id] # NoRow /\ ledger[id].source = r}

\* A row whose balance was changed since it was granted.
Settled(row) == row.outstanding # row.amount

\* No row has this key and no open transaction has inserted one.
FreeIds == {id \in RowIds : ledger[id] = NoRow /\ \A c \in Callers : id \notin touched[c]}

\* Rows a finance statement can change now: the others are absent, invisible
\* before commit, or locked by a DELETE until its transaction ends.
OpenIds == {id \in RowIds : ledger[id] # NoRow /\ \A c \in Callers : id \notin touched[c]}

Req(c)       == call[c].req
Goal(c)      == call[c].goal
Resolving(c) == call[c].seen = "PENDING"   \* resolve(), otherwise redecide()

\* The row applyApprovalEffect creates: the full amount is outstanding.
GrantedRow(r) == [source |-> r, amount |-> amount[r], outstanding |-> amount[r]]

Init ==
  /\ status      = [r \in Requests |-> "ABSENT"]
  /\ amount      = [r \in Requests |-> NoAmount]
  /\ ledger      = [id \in RowIds |-> NoRow]
  /\ lock        = [r \in Requests |-> NoCaller]
  /\ pc          = [c \in Callers |-> "idle"]
  /\ call        = [c \in Callers |-> NoCall]
  /\ inspected   = [c \in Callers |-> {}]
  /\ touched     = [c \in Callers |-> {}]
  /\ resolutions = [r \in Requests |-> 0]

\* The call returns or throws: its transaction, if it has one, is over.
EndCall(c) ==
  /\ pc'        = [pc EXCEPT ![c] = "idle"]
  /\ call'      = [call EXCEPT ![c] = NoCall]
  /\ inspected' = [inspected EXCEPT ![c] = {}]
  /\ touched'   = [touched EXCEPT ![c] = {}]
  /\ lock'      = [r \in Requests |-> IF lock[r] = c THEN NoCaller ELSE lock[r]]

\* The call throws: nothing it wrote is kept.
Throw(c) == EndCall(c) /\ UNCHANGED tableVars

-----------------------------------------------------------------------------
\* POST /requests: a PENDING row; amount is optional for every type.
Submit(r) ==
  /\ status[r] = "ABSENT"
  /\ status' = [status EXCEPT ![r] = "PENDING"]
  /\ \E a \in Amounts \cup {NoAmount} : amount' = [amount EXCEPT ![r] = a]
  /\ UNCHANGED <<ledger, callVars, resolutions>>

StartCall(c, r, goal) ==
  /\ pc[c] = "idle"
  /\ pc'   = [pc EXCEPT ![c] = "checked"]
  /\ call' = [call EXCEPT ![c] = [req |-> r, seen |-> status[r], goal |-> goal]]
  /\ UNCHANGED <<tableVars, lock, inspected, touched>>

\* PATCH /requests/:id/approve and /reject: the read before the transaction.
ReadForResolve(c, r, goal) ==
  /\ status[r] = "PENDING"
  /\ StartCall(c, r, goal)

\* Mutant: the "Request is already ..." 409 of redecide() is dropped.
ReadForRedecideSame(c, r, goal) ==
  /\ status[r] \in Decided
  /\ StartCall(c, r, goal)

\* PATCH /requests/:id/redecide: decided, and not already what is asked for.
ReadForRedecide(c, r, goal) ==
  /\ status[r] \in Decided \ {goal}
  /\ StartCall(c, r, goal)

\* Mutant: redecide() updates WHERE id, as resolve() does.
FlipMatchesById(c) == c \in Callers

\* The status update.  resolve() matches on id alone; redecide() matches on id
\* and the status it read.  Both wait for the request row's lock, and READ
\* COMMITTED evaluates the condition again on the row version they obtain.
FlipMatches(c) == Resolving(c) \/ status[Req(c)] = call[c].seen

\* Mutant: the flip does not wait for the transaction that holds the row.
FlipUnlocked(c) ==
  /\ pc[c] = "checked"
  /\ FlipMatches(c)
  /\ lock' = [lock EXCEPT ![Req(c)] = c]
  /\ pc'   = [pc EXCEPT ![c] = "flipped"]
  /\ UNCHANGED <<tableVars, call, inspected, touched>>

Flip(c) ==
  /\ pc[c] = "checked"
  /\ lock[Req(c)] = NoCaller
  /\ FlipMatches(c)
  /\ lock' = [lock EXCEPT ![Req(c)] = c]
  /\ pc'   = [pc EXCEPT ![c] = "flipped"]
  /\ UNCHANGED <<tableVars, call, inspected, touched>>

\* updateMany matched no row: 409.
Conflict(c) ==
  /\ pc[c] = "checked"
  /\ ~FlipMatches(c)
  /\ Throw(c)

\* Mutant: the missing-amount validation is dropped.
ApplyEffectUnvalidated(c) ==
  /\ pc[c] = "flipped"
  /\ Goal(c) = "APPROVED"
  /\ \E id \in FreeIds : touched' = [touched EXCEPT ![c] = {id}]
  /\ pc' = [pc EXCEPT ![c] = "effected"]
  /\ UNCHANGED <<tableVars, lock, call, inspected>>

\* applyApprovalEffect: insert one tagged row.
ApplyEffect(c) ==
  /\ pc[c] = "flipped"
  /\ Goal(c) = "APPROVED"
  /\ amount[Req(c)] # NoAmount
  /\ \E id \in FreeIds : touched' = [touched EXCEPT ![c] = {id}]
  /\ pc' = [pc EXCEPT ![c] = "effected"]
  /\ UNCHANGED <<tableVars, lock, call, inspected>>

\* applyApprovalEffect on a request without an amount: 400.
RefuseNoAmount(c) ==
  /\ pc[c] = "flipped"
  /\ Goal(c) = "APPROVED"
  /\ amount[Req(c)] = NoAmount
  /\ Throw(c)

Reversing(c) == Goal(c) = "REJECTED" /\ ~Resolving(c)

\* reverseApprovalEffect: findMany, then the guard on each row it returned.
Inspect(c) ==
  /\ pc[c] = "flipped"
  /\ Reversing(c)
  /\ \A id \in Tagged(Req(c)) : ~Settled(ledger[id])
  /\ inspected' = [inspected EXCEPT ![c] = Tagged(Req(c))]
  /\ pc' = [pc EXCEPT ![c] = "inspected"]
  /\ UNCHANGED <<tableVars, lock, call, touched>>

\* A tagged row is partially repaid: 409.
RefuseSettled(c) ==
  /\ pc[c] = "flipped"
  /\ Reversing(c)
  /\ \E id \in Tagged(Req(c)) : Settled(ledger[id])
  /\ Throw(c)

\* deleteMany WHERE requestId, which reads the table afresh.
DeleteTagged(c) ==
  /\ pc[c] = "inspected"
  /\ touched' = [touched EXCEPT ![c] = Tagged(Req(c))]
  /\ pc' = [pc EXCEPT ![c] = "effected"]
  /\ UNCHANGED <<tableVars, lock, call, inspected>>

\* Mutant: the effect runs after the transaction of the flip, not inside it.
ReadyToCommitFlip(c) == pc[c] \in {"flipped", "effected"}

\* A rejection of a pending request has no effect to run.
ReadyToCommit(c) ==
  \/ pc[c] = "effected"
  \/ pc[c] = "flipped" /\ Goal(c) = "REJECTED" /\ Resolving(c)

Written(c, id) == IF Goal(c) = "APPROVED" THEN GrantedRow(Req(c)) ELSE NoRow

Commit(c) ==
  /\ ReadyToCommit(c)
  /\ status' = [status EXCEPT ![Req(c)] = Goal(c)]
  /\ ledger' = [id \in RowIds |-> IF id \in touched[c] THEN Written(c, id) ELSE ledger[id]]
  /\ resolutions' = [resolutions EXCEPT ![Req(c)] = IF Resolving(c) THEN @ + 1 ELSE @]
  /\ EndCall(c)
  /\ UNCHANGED amount

\* The transaction times out, the connection drops or the process dies.
Abort(c) ==
  /\ pc[c] # "idle"
  /\ Throw(c)

-----------------------------------------------------------------------------
\* createLoan / createAdvance: a row nobody's approval made.
FinanceCreate(id) ==
  /\ id \in FreeIds
  /\ \E a \in Amounts, o \in Owed :
       ledger' = [ledger EXCEPT ![id] =
                    [source |-> NoRequest, amount |-> a, outstanding |-> o]]
  /\ UNCHANGED <<status, amount, resolutions, callVars>>

\* updateLoan / updateAdvance: any of amount and outstanding, tagged rows too.
FinanceUpdate(id) ==
  /\ id \in OpenIds
  /\ \E a \in Amounts, o \in Owed :
       ledger' = [ledger EXCEPT ![id] =
                    [source |-> @.source, amount |-> a, outstanding |-> o]]
  /\ UNCHANGED <<status, amount, resolutions, callVars>>

\* removeLoan / removeAdvance.
FinanceRemove(id) ==
  /\ id \in OpenIds
  /\ ledger' = [ledger EXCEPT ![id] = NoRow]
  /\ UNCHANGED <<status, amount, resolutions, callVars>>

Decide(c) ==
  \/ \E r \in Requests, goal \in Decided :
       ReadForResolve(c, r, goal) \/ ReadForRedecide(c, r, goal)
  \/ Flip(c)        \/ Conflict(c)
  \/ ApplyEffect(c) \/ RefuseNoAmount(c)
  \/ Inspect(c)     \/ RefuseSettled(c)  \/ DeleteTagged(c)
  \/ Commit(c)      \/ Abort(c)

Finance(id) == FinanceCreate(id) \/ FinanceUpdate(id) \/ FinanceRemove(id)

Next ==
  \/ \E r \in Requests : Submit(r)
  \/ \E c \in Callers : Decide(c)
  \/ \E id \in RowIds : Finance(id)

Spec == Init /\ [][Next]_vars
-----------------------------------------------------------------------------
(* What holds of every interleaving.                                       *)

\* How many rows a request's approvals can have in the ledger, and when: none
\* before the first decision; while REJECTED fewer, and while APPROVED no more,
\* than the resolve() transactions that committed.  With one such transaction
\* (no two approve / reject calls overlapped) this is "a rejected request has
\* no effect left and an approved one has at most one", whatever re-decisions,
\* aborts and finance edits did in between (service.ts, redecide's invariants).
EffectsBounded ==
  \A r \in Requests :
    /\ status[r] \in {"ABSENT", "PENDING"} => Tagged(r) = {} /\ resolutions[r] = 0
    /\ status[r] \in Decided => resolutions[r] > 0
    /\ status[r] = "APPROVED" => Cardinality(Tagged(r)) <= resolutions[r]
    /\ status[r] = "REJECTED" => Cardinality(Tagged(r)) < resolutions[r]

\* The DELETE of a reversal runs on a later snapshot than the repayment guard,
\* yet it only ever takes rows the guard has looked at: a row tagged to the
\* request cannot appear in between, because whoever would insert it is waiting
\* for the request row.
ReversalSawAll ==
  \A c \in Callers :
    pc[c] = "effected" /\ Goal(c) = "REJECTED" => touched[c] \subseteq inspected[c]

\* The strengthening that is inductive: who holds which lock, what an open
\* transaction may rely on, and what its uncommitted writes are.
LockInv ==
  \A c \in Callers :
    /\ pc[c] = "idle" <=> call[c] = NoCall
    /\ \A r \in Requests :
         lock[r] = c <=> pc[c] \in InTransaction /\ Req(c) = r

CallInv ==
  \A c \in Callers :
    /\ pc[c] # "idle" => status[Req(c)] # "ABSENT" /\ Goal(c) # call[c].seen
    /\ pc[c] \in InTransaction /\ ~Resolving(c) => status[Req(c)] = call[c].seen
    /\ pc[c] # "idle" /\ Resolving(c) => pc[c] # "inspected"
    /\ pc[c] = "inspected" => Goal(c) = "REJECTED"
    /\ pc[c] = "effected" /\ Goal(c) = "REJECTED" => ~Resolving(c)
    /\ pc[c] = "effected" /\ Goal(c) = "APPROVED" => amount[Req(c)] # NoAmount

WriteInv ==
  \A c \in Callers :
    /\ pc[c] # "effected" => touched[c] = {}
    /\ pc[c] = "inspected" => Tagged(Req(c)) \subseteq inspected[c]
    /\ pc[c] = "effected" /\ Goal(c) = "REJECTED" => touched[c] = Tagged(Req(c))
    /\ pc[c] = "effected" /\ Goal(c) = "APPROVED" =>
         \E id \in RowIds : touched[c] = {id} /\ ledger[id] = NoRow
    /\ \A d \in Callers \ {c} : touched[c] \cap touched[d] = {}

LedgerInv == LockInv /\ CallInv /\ WriteInv /\ EffectsBounded /\ ReversalSawAll

-----------------------------------------------------------------------------
(* What a comment of the service says and overlapping calls break.         *)

\* "A flip approve -> reject -> approve therefore yields EXACTLY ONE fresh
\* tagged Loan, never two" and "exactly ONE tagged Loan/Advance results".
AtMostOneEffect == \A r \in Requests : Cardinality(Tagged(r)) <= 1

-----------------------------------------------------------------------------
(* The abstract decisions, over the committed tables alone.                *)

\* An approve / reject call whose request was decided after the call read it.
Overtaken(c) == call[c] # NoCall /\ Resolving(c) /\ status[Req(c)] # "PENDING"

\* The tables are those of the database; locks, locals and open transactions go.
Decisions == INSTANCE DecisionLedger WITH status <- status, amount <- amount, ledger <- ledger

\* Every statement-by-statement execution looks, to a reader of committed data, as if each
\* decision and its effect had happened in one step ("single transaction so the status
\* change and its SIDE EFFECT are atomic"), and the step is the decision that
\* DecisionLedger promises, with one exception: an approve / reject call that was
\* overtaken.  What its step does is Overwrite.
AtomicDecisions ==
  /\ Decisions!Init
  /\ [][Decisions!Next \/ \E c \in Callers : Overtaken(c) /\ Decisions!Overwrite(Req(c))]_
       <<status, amount, ledger>>
=============================================================================
