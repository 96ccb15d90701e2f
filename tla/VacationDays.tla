---------------------------- MODULE VacationDays ----------------------------
(***************************************************************************)
(* VACATION requests of one worker: approving one walks its days and gives *)
(* each free day a tagged attendance record, re-deciding it to REJECTED    *)
(* deletes the tagged records, and the attendance endpoints create, move   *)
(* and remove records meanwhile.                                           *)
(*                                                                         *)
(* The unique index on (worker, date) makes the records a function of the  *)
(* day.  The walk is one transaction of many statements: per day a         *)
(* findUnique, which sees committed records and the caller's own, and a    *)
(* create, which WAITS while another open transaction has inserted or      *)
(* deleted that key, and fails the whole transaction when a record has     *)
(* been committed there.  Type, hours and notes of a record are left out.  *)
(***************************************************************************)
EXTENDS Naturals, FiniteSets

CONSTANTS
  Requests,   \* vacation requests of the worker
  Callers,    \* HTTP calls that can be in flight at once
  LastDay,    \* calendar days are 1..LastDay (bounds the calendar)
  HandDays,   \* the days on which the attendance endpoints are called
  Spans,      \* the start and end dates that requests are submitted with
  Manual,     \* source of a record created by hand (requestId NULL)
  NoRecord,   \* the worker has no record on this day
  NoDay,      \* a NULL date
  NoCaller, NoCall

Days     == 1 .. LastDay
Decided  == {"APPROVED", "REJECTED"}
Statuses == {"ABSENT", "PENDING"} \cup Decided
Call     == [req : Requests, seen : {"PENDING"} \cup Decided, goal : Decided]

ASSUME CallersAssumption == NoCaller \notin Callers
ASSUME DaysAssumption    == LastDay \in Nat /\ NoDay \notin Nat /\ HandDays \subseteq Days
ASSUME SpansAssumption   == Spans \subseteq (Days \cup {NoDay}) \X (Days \cup {NoDay})
ASSUME NullsAssumption   == /\ Manual \notin Requests
                            /\ NoRecord \notin Requests \cup {Manual}
                            /\ NoCall \notin Call

VARIABLES
  status,   \* committed WorkerRequest.status
  first,    \* startDate
  last,     \* endDate
  record,   \* source of the committed attendance record of each day
  lock,     \* holder of the lock on each request row
  pc, call, \* where each caller is, and its locals
  cursor,   \* `d`, the day the walk is at
  inserted, \* days it created a record for, not committed
  deleted,  \* days whose record it deleted, not committed
  freed,    \* history: days without a record that had one
  overtaken \* history: requests whose last decision came of an overtaken call

vars      == <<status, first, last, record, lock, pc, call, cursor, inserted, deleted,
               freed, overtaken>>
tableVars == <<status, first, last, record, freed, overtaken>>
callVars  == <<lock, pc, call, cursor, inserted, deleted>>

InTransaction == {"flipped", "walking", "absent", "effected"}

TypeOK ==
  /\ status   \in [Requests -> Statuses]
  /\ first    \in [Requests -> Days \cup {NoDay}]
  /\ last     \in [Requests -> Days \cup {NoDay}]
  /\ record   \in [Days -> Requests \cup {Manual, NoRecord}]
  /\ lock     \in [Requests -> Callers \cup {NoCaller}]
  /\ pc       \in [Callers -> {"idle", "checked"} \cup InTransaction]
  /\ call     \in [Callers -> Call \cup {NoCall}]
  /\ cursor   \in [Callers -> Nat]
  /\ inserted \in [Callers -> SUBSET Days]
  /\ deleted  \in [Callers -> SUBSET Days]
  /\ freed    \in SUBSET Days
  /\ overtaken \in SUBSET Requests

-----------------------------------------------------------------------------
Tagged(r)    == {d \in Days : record[d] = r}
Req(c)       == call[c].req
Goal(c)      == call[c].goal
Resolving(c) == call[c].seen = "PENDING"

\* An approve / reject call whose request was decided after the call read it.
Overtaken(c) == call[c] # NoCall /\ Resolving(c) /\ status[Req(c)] # "PENDING"

\* `req.endDate ?? req.startDate`.
End(r) == IF last[r] = NoDay THEN first[r] ELSE last[r]

\* applyApprovalEffect validates the dates before it creates anything.
ValidDates(r) == first[r] # NoDay /\ first[r] <= End(r)

\* The key (worker, d) was written by a transaction that is still open.
HeldByOther(c, d) == \E b \in Callers \ {c} : d \in inserted[b] \cup deleted[b]
Held(d)           == \E b \in Callers : d \in inserted[b] \cup deleted[b]

Init ==
  /\ status   = [r \in Requests |-> "ABSENT"]
  /\ first    = [r \in Requests |-> NoDay]
  /\ last     = [r \in Requests |-> NoDay]
  /\ record   = [d \in Days |-> NoRecord]
  /\ lock     = [r \in Requests |-> NoCaller]
  /\ pc       = [c \in Callers |-> "idle"]
  /\ call     = [c \in Callers |-> NoCall]
  /\ cursor   = [c \in Callers |-> 0]
  /\ inserted = [c \in Callers |-> {}]
  /\ deleted  = [c \in Callers |-> {}]
  /\ freed    = {}
  /\ overtaken = {}

EndCall(c) ==
  /\ pc'       = [pc EXCEPT ![c] = "idle"]
  /\ call'     = [call EXCEPT ![c] = NoCall]
  /\ cursor'   = [cursor EXCEPT ![c] = 0]
  /\ inserted' = [inserted EXCEPT ![c] = {}]
  /\ deleted'  = [deleted EXCEPT ![c] = {}]
  /\ lock'     = [r \in Requests |-> IF lock[r] = c THEN NoCaller ELSE lock[r]]

\* Nothing the call wrote is kept.
Throw(c) == EndCall(c) /\ UNCHANGED tableVars

-----------------------------------------------------------------------------
\* POST /requests: both dates are optional and their order is not checked.
Submit(r) ==
  /\ status[r] = "ABSENT"
  /\ status' = [status EXCEPT ![r] = "PENDING"]
  /\ \E s \in Spans : /\ first' = [first EXCEPT ![r] = s[1]]
                     /\ last'  = [last EXCEPT ![r] = s[2]]
  /\ UNCHANGED <<record, freed, overtaken, callVars>>

StartCall(c, r, goal) ==
  /\ pc[c] = "idle"
  /\ pc'   = [pc EXCEPT ![c] = "checked"]
  /\ call' = [call EXCEPT ![c] = [req |-> r, seen |-> status[r], goal |-> goal]]
  /\ UNCHANGED <<tableVars, lock, cursor, inserted, deleted>>

ReadForResolve(c, r, goal) ==
  status[r] = "PENDING" /\ StartCall(c, r, goal)

ReadForRedecide(c, r, goal) ==
  status[r] \in Decided \ {goal} /\ StartCall(c, r, goal)

\* Mutant: the re-decision flips its request by id, whatever its status is by then.
FlipMatchesById(c) == call[c] # NoCall

FlipMatches(c) == Resolving(c) \/ status[Req(c)] = call[c].seen

Flip(c) ==
  /\ pc[c] = "checked"
  /\ lock[Req(c)] = NoCaller
  /\ FlipMatches(c)
  /\ lock' = [lock EXCEPT ![Req(c)] = c]
  /\ pc'   = [pc EXCEPT ![c] = "flipped"]
  /\ UNCHANGED <<tableVars, call, cursor, inserted, deleted>>

\* updateMany matched no row: 409.
Conflict(c) == pc[c] = "checked" /\ ~FlipMatches(c) /\ Throw(c)

\* Mutant: the date validation is dropped.
StartWalkUnvalidated(c) ==
  /\ pc[c] = "flipped"
  /\ Goal(c) = "APPROVED"
  /\ cursor' = [cursor EXCEPT ![c] = first[Req(c)]]
  /\ pc'     = [pc EXCEPT ![c] = "walking"]
  /\ UNCHANGED <<tableVars, lock, call, inserted, deleted>>

\* The walk starts at startDate; a request without valid dates is a 400.
StartWalk(c) ==
  /\ pc[c] = "flipped"
  /\ Goal(c) = "APPROVED"
  /\ ValidDates(Req(c))
  /\ cursor' = [cursor EXCEPT ![c] = first[Req(c)]]
  /\ pc'     = [pc EXCEPT ![c] = "walking"]
  /\ UNCHANGED <<tableVars, lock, call, inserted, deleted>>

RefuseDates(c) ==
  /\ pc[c] = "flipped"
  /\ Goal(c) = "APPROVED"
  /\ ~ValidDates(Req(c))
  /\ Throw(c)

\* Mutant: the days are created concurrently, in no particular order.
FindDayAnyOrder(c) ==
  /\ pc[c] = "walking"
  /\ LET left == {d \in first[Req(c)] .. End(Req(c)) \ inserted[c] : record[d] = NoRecord}
     IN  \/ /\ left = {} /\ cursor[c] <= LastDay
            /\ cursor' = [cursor EXCEPT ![c] = LastDay + 1]
            /\ UNCHANGED pc
         \/ /\ \E d \in left : cursor' = [cursor EXCEPT ![c] = d]
            /\ pc' = [pc EXCEPT ![c] = "absent"]
  /\ UNCHANGED <<tableVars, lock, call, inserted, deleted>>

\* findUnique at `d`: a day with a record is skipped.
FindDay(c) ==
  /\ pc[c] = "walking"
  /\ cursor[c] <= End(Req(c))
  /\ IF record[cursor[c]] # NoRecord
       THEN cursor' = [cursor EXCEPT ![c] = @ + 1] /\ UNCHANGED pc
       ELSE pc' = [pc EXCEPT ![c] = "absent"]      /\ UNCHANGED cursor
  /\ UNCHANGED <<tableVars, lock, call, inserted, deleted>>

\* Mutant: the day is upserted.
InsertDayUpsert(c) ==
  /\ pc[c] = "absent"
  /\ ~HeldByOther(c, cursor[c])
  /\ inserted' = [inserted EXCEPT ![c] = @ \cup {cursor[c]}]
  /\ cursor'   = [cursor EXCEPT ![c] = @ + 1]
  /\ pc'       = [pc EXCEPT ![c] = "walking"]
  /\ UNCHANGED <<tableVars, lock, call, deleted>>

\* create at `d`, once no other open transaction holds the key.
InsertDay(c) ==
  /\ pc[c] = "absent"
  /\ ~HeldByOther(c, cursor[c])
  /\ record[cursor[c]] = NoRecord
  /\ inserted' = [inserted EXCEPT ![c] = @ \cup {cursor[c]}]
  /\ cursor'   = [cursor EXCEPT ![c] = @ + 1]
  /\ pc'       = [pc EXCEPT ![c] = "walking"]
  /\ UNCHANGED <<tableVars, lock, call, deleted>>

\* The unique index refuses the create: the transaction is rolled back.
DuplicateDay(c) ==
  /\ pc[c] = "absent"
  /\ ~HeldByOther(c, cursor[c])
  /\ record[cursor[c]] # NoRecord
  /\ Throw(c)

\* Mutant: the walk stops before the last day.
EndWalkEarly(c) ==
  /\ pc[c] = "walking"
  /\ cursor[c] >= End(Req(c))
  /\ pc' = [pc EXCEPT ![c] = "effected"]
  /\ UNCHANGED <<tableVars, lock, call, cursor, inserted, deleted>>

EndWalk(c) ==
  /\ pc[c] = "walking"
  /\ cursor[c] > End(Req(c))
  /\ pc' = [pc EXCEPT ![c] = "effected"]
  /\ UNCHANGED <<tableVars, lock, call, cursor, inserted, deleted>>

\* Mutant: the reversal deletes the days of the request's span.
DeleteTaggedSpan(c) ==
  /\ pc[c] = "flipped"
  /\ Goal(c) = "REJECTED" /\ ~Resolving(c)
  /\ deleted' = [deleted EXCEPT ![c] =
                   {d \in Tagged(Req(c)) : first[Req(c)] <= d /\ d <= End(Req(c))}]
  /\ pc'      = [pc EXCEPT ![c] = "effected"]
  /\ UNCHANGED <<tableVars, lock, call, cursor, inserted>>

\* reverseApprovalEffect: deleteMany WHERE requestId.
DeleteTagged(c) ==
  /\ pc[c] = "flipped"
  /\ Goal(c) = "REJECTED" /\ ~Resolving(c)
  /\ deleted' = [deleted EXCEPT ![c] = Tagged(Req(c))]
  /\ pc'      = [pc EXCEPT ![c] = "effected"]
  /\ UNCHANGED <<tableVars, lock, call, cursor, inserted>>

ReadyToCommit(c) ==
  \/ pc[c] = "effected"
  \/ pc[c] = "flipped" /\ Goal(c) = "REJECTED" /\ Resolving(c)

Commit(c) ==
  /\ ReadyToCommit(c)
  /\ status' = [status EXCEPT ![Req(c)] = Goal(c)]
  /\ record' = [d \in Days |-> IF d \in inserted[c] THEN Req(c)
                               ELSE IF d \in deleted[c] THEN NoRecord ELSE record[d]]
  /\ freed'  = (freed \cup deleted[c]) \ inserted[c]
  /\ overtaken' = IF Overtaken(c) THEN overtaken \cup {Req(c)} ELSE overtaken \ {Req(c)}
  /\ EndCall(c)
  /\ UNCHANGED <<first, last>>

\* The five-second limit of the transaction, a lost connection, a crash.
Abort(c) == pc[c] # "idle" /\ Throw(c)

-----------------------------------------------------------------------------
\* AttendanceService.create: the findUnique before it only chooses the error.
ManualCreate(d) ==
  /\ record[d] = NoRecord /\ ~Held(d)
  /\ record' = [record EXCEPT ![d] = Manual]
  /\ freed'  = freed \ {d}
  /\ UNCHANGED <<status, first, last, overtaken, callVars>>

\* AttendanceService.update may move a record to another date; it keeps its tag.
ManualMove(d, e) ==
  /\ record[d] # NoRecord /\ ~Held(d)
  /\ record[e] = NoRecord /\ ~Held(e)
  /\ record' = [record EXCEPT ![e] = record[d], ![d] = NoRecord]
  /\ freed'  = (freed \cup {d}) \ {e}
  /\ UNCHANGED <<status, first, last, overtaken, callVars>>

ManualRemove(d) ==
  /\ record[d] # NoRecord /\ ~Held(d)
  /\ record' = [record EXCEPT ![d] = NoRecord]
  /\ freed'  = freed \cup {d}
  /\ UNCHANGED <<status, first, last, overtaken, callVars>>

\* The statements of a call that has started, in the order of the code.
Step(c) ==
  \/ Flip(c)      \/ Conflict(c)
  \/ StartWalk(c) \/ RefuseDates(c)
  \/ FindDay(c)   \/ InsertDay(c) \/ DuplicateDay(c) \/ EndWalk(c)
  \/ DeleteTagged(c)
  \/ Commit(c)

Start(c) ==
  \E r \in Requests, goal \in Decided :
    ReadForResolve(c, r, goal) \/ ReadForRedecide(c, r, goal)

ByHand ==
  \E d \in HandDays : \/ ManualCreate(d) \/ ManualRemove(d)
                      \/ \E e \in HandDays : ManualMove(d, e)

Next ==
  \/ \E r \in Requests : Submit(r)
  \/ \E c \in Callers : Start(c) \/ Step(c) \/ Abort(c)
  \/ ByHand

Spec == Init /\ [][Next]_vars

\* A call that has started takes its next statement when it can: it is an
\* async function nothing else holds up.  Strong fairness, because a statement
\* that waits for a row or an index key is woken whenever the transaction it
\* waits for ends.  Timeouts, crashes, new calls and endpoints owe nothing.
FairSpec == Spec /\ \A c \in Callers : SF_vars(Step(c))
-----------------------------------------------------------------------------
\* The days a request put on the calendar exist only while it is APPROVED, also after they
\* were moved by hand, skipped, aborted half-way or re-decided.  One decision leaves them
\* behind: that of a reject call which read the request PENDING and overwrote the approval
\* made since, as resolve() then runs no reversal.  Re-deciding it makes up for that.
NoOrphanDays ==
  \A r \in Requests : status[r] # "APPROVED" /\ r \notin overtaken => Tagged(r) = {}

\* "Never clobber an existing attendance day", and reverse only tagged days: the
\* step that changes a request's status only fills days that were free, with
\* its own tag, or empties days with its tag.  Between the walk's look at a day
\* and its commit other calls may have put a record there.
NeverClobbers ==
  [][\A r \in Requests, d \in Days :
       status'[r] # status[r] /\ record'[d] # record[d] =>
         \/ status'[r] = "APPROVED" /\ record[d] = NoRecord /\ record'[d] = r
         \/ status'[r] = "REJECTED" /\ record[d] = r /\ record'[d] = NoRecord]_vars

\* Decisions of overlapping vacations wait for each other's days and for request
\* rows, but never in a circle: without any timeout every call ends.
EveryDecisionEnds == \A c \in Callers : []<>(pc[c] = "idle")

\* b is in the way of c's next statement: it holds the request row c wants to flip, or
\* has written the key of the day c wants to create.
WaitsFor(c, b) ==
  \/ pc[c] = "checked" /\ lock[Req(c)] = b
  \/ pc[c] = "absent" /\ b # c /\ cursor[c] \in inserted[b] \cup deleted[b]

\* In any set of calls there is one that waits for none of them.  A walk creates its days
\* in their order, so it waits only for walks that are further on; whoever waits for a
\* request row holds nothing yet.
NoCircularWait ==
  \A S \in SUBSET Callers : S # {} => \E c \in S : \A b \in S : ~WaitsFor(c, b)

\* An APPROVED vacation has a record on each of its days (resolve(): one per day of
\* [startDate, endDate]), whoever put it there.  A day is missing only if a record was
\* taken from it: by hand, or by the reversal of another vacation that had the day
\* first, which nothing makes up for.
CoveredUnlessFreed ==
  \A r \in Requests :
    status[r] = "APPROVED" => \A d \in first[r] .. End(r) : record[d] # NoRecord \/ d \in freed

Calendar == INSTANCE DecidedDays
              WITH status <- status, first <- first, last <- last,
                   record <- record, freed <- freed

\* To a reader of committed rows each decision and its days happen in one step ("single
\* transaction so the status change and its SIDE EFFECT are atomic"), though its walk was
\* many statements with other walks and edits by hand between them.  The step is one that
\* DecidedDays promises, unless it is the commit of an overtaken call: then it is Overwrite.
AtomicDays ==
  /\ Calendar!Init
  /\ [][Calendar!Next \/ \E c \in Callers : Overtaken(c) /\ Calendar!Overwrite(Req(c))]_
       <<status, first, last, record, freed>>
=============================================================================
