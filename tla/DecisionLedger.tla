--------------------------- MODULE DecisionLedger ---------------------------
(***************************************************************************)
(* What RequestsService promises, as its comments state it: a decision and *)
(* its effect on the ledger are ONE step.  There are no transactions, no   *)
(* locks and no callers here, only the committed tables.                   *)
(*                                                                         *)
(* A request is decided once by approve / reject and then flips between    *)
(* the two outcomes; approving adds one fresh row for the full amount,     *)
(* rejecting an approved request removes all its rows and no other row.    *)
(***************************************************************************)
CONSTANTS Requests, RowIds, Amounts, Owed, NoAmount, NoRow, NoRequest

VARIABLES status, amount, ledger

tables == <<status, amount, ledger>>

Init ==
  /\ status = [r \in Requests |-> "ABSENT"]
  /\ amount = [r \in Requests |-> NoAmount]
  /\ ledger = [id \in RowIds |-> NoRow]

Submit(r) ==
  /\ status[r] = "ABSENT"
  /\ status' = [status EXCEPT ![r] = "PENDING"]
  /\ \E a \in Amounts \cup {NoAmount} : amount' = [amount EXCEPT ![r] = a]
  /\ UNCHANGED ledger

GrantOne(r) ==
  /\ amount[r] # NoAmount
  /\ \E id \in RowIds :
       /\ ledger[id] = NoRow
       /\ ledger' = [ledger EXCEPT ![id] =
                       [source |-> r, amount |-> amount[r], outstanding |-> amount[r]]]

RevokeAll(r) ==
  ledger' = [id \in RowIds |->
               IF ledger[id] # NoRow /\ ledger[id].source = r THEN NoRow ELSE ledger[id]]

\* Approve, the first time or again.
Approve(r) ==
  /\ status[r] \in {"PENDING", "REJECTED"}
  /\ status' = [status EXCEPT ![r] = "APPROVED"]
  /\ GrantOne(r)
  /\ UNCHANGED amount

\* Reject a pending request, which has no rows, or an approved one.
Reject(r) ==
  /\ status[r] \in {"PENDING", "APPROVED"}
  /\ status' = [status EXCEPT ![r] = "REJECTED"]
  /\ RevokeAll(r)
  /\ UNCHANGED amount

\* The finance endpoints: a row by hand, an edit that keeps the tag, a removal.
Finance(id) ==
  /\ \/ \E a \in Amounts, o \in Owed :
          ledger' = [ledger EXCEPT ![id] =
                       [source      |-> IF ledger[id] = NoRow THEN NoRequest
                                        ELSE ledger[id].source,
                        amount      |-> a,
                        outstanding |-> o]]
     \/ ledger' = [ledger EXCEPT ![id] = NoRow]
  /\ UNCHANGED <<status, amount>>

Next ==
  \/ \E r \in Requests : Submit(r) \/ Approve(r) \/ Reject(r)
  \/ \E id \in RowIds : Finance(id)

Spec == Init /\ [][Next]_tables

\* No decision of Next: what resolve() makes of a request that is decided already, because
\* it was PENDING when resolve() read it and the update matches on the id alone.  The new
\* approval adds a row of its own; the new rejection leaves the rows there are.
Overwrite(r) ==
  /\ status[r] \in {"APPROVED", "REJECTED"}
  /\ \/ status' = [status EXCEPT ![r] = "APPROVED"] /\ GrantOne(r)
     \/ status' = [status EXCEPT ![r] = "REJECTED"] /\ UNCHANGED ledger
  /\ UNCHANGED amount
=============================================================================
