---------------------------- MODULE DecidedDays ----------------------------
(***************************************************************************)
(* What RequestsService promises of one worker's vacations: a decision and *)
(* its effect on the calendar are ONE step, in which nothing else happens. *)
(* There are no transactions, locks or calls here, only committed rows.    *)
(*                                                                         *)
(* One part of the promise is weaker than the comment of resolve(), "one   *)
(* record per day": a day that is free at the step but had a record before *)
(* may be left free, because the walk may have passed it while it had one. *)
(***************************************************************************)
EXTENDS Naturals

CONSTANTS Requests, LastDay, Manual, NoRecord, NoDay

VARIABLES status, first, last, record, freed

calendar == <<status, first, last, record, freed>>

Days      == 1 .. LastDay
End(r)    == IF last[r] = NoDay THEN first[r] ELSE last[r]
Tagged(r) == {d \in Days : record[d] = r}
Free(r)   == {d \in first[r] .. End(r) : record[d] = NoRecord}

Init ==
  /\ status = [r \in Requests |-> "ABSENT"]
  /\ first  = [r \in Requests |-> NoDay]
  /\ last   = [r \in Requests |-> NoDay]
  /\ record = [d \in Days |-> NoRecord]
  /\ freed  = {}

Submit(r) ==
  /\ status[r] = "ABSENT"
  /\ status' = [status EXCEPT ![r] = "PENDING"]
  /\ \E d \in Days \cup {NoDay} : first' = [first EXCEPT ![r] = d]
  /\ \E d \in Days \cup {NoDay} : last'  = [last EXCEPT ![r] = d]
  /\ UNCHANGED <<record, freed>>

\* Days of the vacation that are free get its record, and all those do that never had one.
Fill(r) ==
  /\ first[r] # NoDay /\ first[r] <= End(r)
  /\ \E days \in SUBSET Free(r) :
       /\ Free(r) \ freed \subseteq days
       /\ record' = [d \in Days |-> IF d \in days THEN r ELSE record[d]]
       /\ freed'  = freed \ days

\* Approve, the first time or again.
Approve(r) ==
  /\ status[r] \in {"PENDING", "REJECTED"}
  /\ status' = [status EXCEPT ![r] = "APPROVED"]
  /\ Fill(r)
  /\ UNCHANGED <<first, last>>

\* Reject a pending request, which has no days, or an approved one.
Reject(r) ==
  /\ status[r] \in {"PENDING", "APPROVED"}
  /\ status' = [status EXCEPT ![r] = "REJECTED"]
  /\ record' = [d \in Days |-> IF d \in Tagged(r) THEN NoRecord ELSE record[d]]
  /\ freed'  = freed \cup Tagged(r)
  /\ UNCHANGED <<first, last>>

\* The attendance endpoints: a record by hand, a move that keeps the tag, a removal.
Attendance(d) ==
  /\ \/ /\ record[d] = NoRecord
        /\ record' = [record EXCEPT ![d] = Manual]
        /\ freed'  = freed \ {d}
     \/ /\ record[d] # NoRecord
        /\ record' = [record EXCEPT ![d] = NoRecord]
        /\ freed'  = freed \cup {d}
     \/ /\ record[d] # NoRecord
        /\ \E e \in Days : /\ record[e] = NoRecord
                           /\ record' = [record EXCEPT ![e] = record[d], ![d] = NoRecord]
                           /\ freed'  = (freed \cup {d}) \ {e}
  /\ UNCHANGED <<status, first, last>>

Next ==
  \/ \E r \in Requests : Submit(r) \/ Approve(r) \/ Reject(r)
  \/ \E d \in Days : Attendance(d)

Spec == Init /\ [][Next]_calendar

\* No decision of Next: what resolve() makes of a request that is decided already, because
\* it was PENDING when resolve() read it and the update matches on the id alone.  The new
\* approval fills the free days again; the new rejection leaves the days there are.
Overwrite(r) ==
  /\ status[r] \in {"APPROVED", "REJECTED"}
  /\ \/ status' = [status EXCEPT ![r] = "APPROVED"] /\ Fill(r)
     \/ status' = [status EXCEPT ![r] = "REJECTED"] /\ UNCHANGED <<record, freed>>
  /\ UNCHANGED <<first, last>>
=============================================================================
