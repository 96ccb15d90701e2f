# SiteLink: a TLA+ model of its back end and of the clients' state

SiteLink manages the workers of construction companies: their attendance, pay, loans,
vacation requests and logins. Its logic is in one HTTP back end (`src/backend`,
Fastify and Prisma over Postgres, with Supabase for identities and files); four front
ends call it, and two of them keep state of their own that can go wrong: the Foreman
app (who is signed in, which site is worked on) and the worker form of the manager's
web front end. This directory holds the TLA+ modules that model that logic, the
configurations that check them with TLC, and proofs checked by TLAPS.

Every HTTP call is an independent async function, several instances may run, and the
database works at READ COMMITTED. What is hard in this code is therefore what happens
*between* the statements of one call: rows read before a transaction and used in it, a
check and a write with other calls in between, two stores written one after the other,
undo steps that fail. The modules model each call statement by statement, and let
every other call, a timeout or a crash run between any two. On the client side the
same happens between a request and its answer, and between a callback and the state it
was made from.

## Inventory

| Part (source) | State | Operations | Interacts with | What is hard |
|---|---|---|---|---|
| Worker requests (`modules/requests`) | `WorkerRequest.status`, amount, dates | create, resolve (approve / reject), redecide | inserts and deletes tagged ledger rows and attendance days in its transaction | status read outside the transaction; compare-and-swap in one of two paths; reversal by tag; guard and delete on two snapshots |
| Finance (`modules/finance`) | `Loan`, `AdvancePayment` | create, update, remove; profit and loss | edits the rows an approval created | runs between the statements of a reversal |
| Attendance (`modules/attendance`) | `AttendanceRecord`, unique per worker and day | create, update, remove; working hours | same days as approved vacations | find, then create; waits on the unique index |
| Users (`modules/users`) | `User`, Supabase identity and ban | create, update, setLockout, remove | dual write with Supabase | order of the two stores, failed undo, overlapping lockouts |
| Workers (`modules/workers`) | `Worker`, its `userId`, sites, documents, image | create with login, update, archive, remove, documents, image | dual write with Supabase; user email; foreman scope | as above, with three things to undo; email kept in two rows |
| Auth and scope (`plugins/auth.ts`, `lib/scope.ts`) | none of its own; a copy of the user's row per call | authenticate, requireRole, company and site scope | reads `User`, `Site`, assignments | a scope resolved three times in one call, from an old primary site and fresh rows |
| Foreman sites (`modules/foreman-assignments`) | `ForemanSiteAssignment` | assign, unassign, pickable sites | defines the foreman's scope | reactivation in place, racing calls |
| Sites of workers (`modules/workers`: `setAssignments`, `setAssignmentsScoped`) | `SiteAssignment` | replace across all sites, replace within the foreman's union | create and update of workers, removal of sites | two replacements at once: each deletes what its snapshot shows |
| Salary and wage rates (`modules/salary`, `modules/payment`) | `ProfessionWageRate`, `WorkerSalaryData` | calculate, calculateMany; rate create, update, remove | attendance, dashboard, reports | two resolutions of one rule; NULL in a unique index |
| Files of workers (`modules/workers`: documents, picture; `lib/supabase.ts`) | `WorkerDoc`, `Worker.imageStorageKey`, objects in Storage | request upload, PUT, confirm, read URL, remove | client, Storage, removal of the worker | purge before write; nothing looks whether the object exists; two confirmations at once |
| Reports (`modules/reports`, `lib/cloudconvert.ts`, `lib/email.ts`) | a remote job; a handler's locals | payslip as answer, by email, as link; create job, poll, download | salary, attendance, CloudConvert, SMTP, Storage | two queries for one slip; deadline, failure, unanswered polls |
| Personnel companies (`modules/personnel-companies`) and the worker's link to them | `PersonnelCompany`; key and copied name in `Worker` | create, rename, archive, unarchive, remove; resolve and write on PATCH /workers | worker form | the name is kept twice; look up, then write |
| Worker form of the web front end (`WorkerDetail.tsx`, `WorkerFields.tsx`) | the form, filled once | preselect, choose, save all fields | worker and company queries | stale form; an effect that may undo a choice |
| Foreman app: session and active site (`AuthProvider.tsx`, `ActiveSiteProvider.tsx`) | status, user, cached union, site, stored preference | sign in and out, SDK events, restore, select | Supabase SDK, `/auth/me`, `/foreman-sites` | answers in any order; a cache that outlives the session; restorations discarded by later ones |
| Companies (tenants), sites, ratings, dashboard, back office | one table each | single-row writes, aggregates | unique indexes | little: one statement per write |
| Other screens, shared types, tokens | query caches | screens | the HTTP API | nothing of their own |

What makes each of the modelled parts correct: a request's effect exists exactly as
its status says, at most once, and its reversal removes nothing else; a vacation's
days never overwrite a record and disappear with the approval; decisions do not block
each other for ever; a login exists in both stores or in neither; a wage slot has no
more rules than races and removed sites account for, and the two ways to resolve a
salary agree; a foreman touches no site that is not the foreman's, and a replacement
of a worker's sites leaves nothing it should have removed; a file in the list can be
opened and a file that left it is gone; a payslip ends up delivered or refused and
adds up; the copied name of a staffing company is that company's, and saving a form
changes no link nobody touched; the Foreman app is open for the user of the session
and works on a site of that app's union. The complete list of hazards, each at its
line, is in `PROJECT.json`.

## Modules

### RequestLedger: loans and advances

`WorkerRequest` rows, the ledger rows their approvals create, and up to three
overlapping calls. `Loan` and `AdvancePayment` have the same columns and code, and a
request touches only the table of its type, so one ledger stands for both.

| Code | Action |
|---|---|
| `create` | `Submit` (the amount is optional for every type) |
| `findUnique` before the transaction, and its 409s | `ReadForResolve`, `ReadForRedecide` |
| `update WHERE id` / `updateMany WHERE id, status` | `Flip`, with `FlipMatches` for the condition; waits for the row's lock |
| `flipped.count === 0` | `Conflict` |
| `applyApprovalEffect` | `ApplyEffect`, `RefuseNoAmount` |
| `reverseApprovalEffect` | `Inspect` (findMany and guard), `RefuseSettled`, `DeleteTagged` |
| commit; rollback, five-second limit, crash | `Commit`; `Abort` |
| `createLoan`, `updateLoan`, `removeLoan` and the advances | `FinanceCreate`, `FinanceUpdate`, `FinanceRemove` |

A transaction's writes are in `touched` until `Commit` moves them to `ledger`; `lock`
is Postgres' row lock on the request, released by commit and rollback. A finance
statement waits for a row an open reversal has deleted (`OpenIds`).

`EffectsBounded` bounds the rows of a request by the number of `resolve()`
transactions that committed: none while pending, at most that many while approved,
fewer while rejected. With one such transaction this is the promised "one effect while
approved, none while rejected". It holds of every interleaving, and says what the
compare-and-swap of `redecide` achieves and what the missing one of `resolve` costs.
`ReversalSawAll`: although the guard and the delete of a reversal use two snapshots,
no *new* row can slip in between.

### DecisionLedger: what the service promises

The same tables without callers, transactions or locks: a decision and its effect are
one step. `RequestLedger!AtomicDecisions` states that RequestLedger implements it. The
mapping is the identity on the committed tables; every step of a call but `Commit` is
a stutter.

There is one exception, and the property names it. `resolve()` compares the status it
read before its transaction and updates by id, so another decision can overtake it
(`Overtaken`: the request it approves or rejects is pending no more). What such a call
commits is not a decision but `Overwrite`, which is an action beside DecisionLedger's
`Next`: one more row, or a rejection that leaves the rows there are. Any calls may
overlap, in the runs and in the theorems.

### VacationDays: vacations and attendance

The VACATION branch, for the requests of one worker. The unique index on worker and
date makes the records a function `record` of the day. The walk over the days is a
loop of `FindDay` and `InsertDay`; the insert waits while another open transaction has
written that key and fails the transaction (`DuplicateDay`) if a record was committed
there. `ManualCreate`, `ManualMove`, `ManualRemove` are the attendance endpoints.
Requests may have no dates, one date or dates in the wrong order, as `POST /requests`
allows.

The comment of `resolve` promises one record per day of an approved vacation. That
does not hold when two vacations of one worker overlap: the second approval skips the
days of the first, and rejecting the first later removes them. `CoveredUnlessFreed`
says that this, and a manual removal or move, is the only way to lose a day: every day
of an approved vacation has a record, or one was taken from that day (`freed`).

A call waits for a request row another call has locked, or for a day another open walk
has written (`WaitsFor`). `NoCircularWait` says that in any set of calls one waits for
none of the others: walks take their days in order, so no two wait for each other.

### DecidedDays: what the service promises of vacations

The calendar without callers, transactions and walks: approving a vacation fills free
days of it, and all those that never had a record; rejecting it empties all its days;
each in one step. `VacationDays!AtomicDays` states that VacationDays implements it,
with the identity on the committed rows, so that every statement but `Commit` is a
stutter. A day may be left free only if it lost a record (`freed`): the walk may have
passed it while it had one (`Fill`). An overtaken approve / reject call is the
exception here too, with an `Overwrite` of its own: it fills days once more, or
rejects an approved vacation and leaves its days. `NoOrphanDays`, that a vacation
which is not approved has no days, excuses the requests whose last decision was of
that kind (`overtaken`), until the next decision.

### Provisioning: users and workers in two stores

`identity` and `banned` are Supabase's; `user` and `worker` are Postgres'. One step
per remote call or statement of `UsersService.create / update / setLockout / remove`
and `WorkersService.create / provisionAndLinkLogin / update (email) / remove`, with
the undo steps and their failure. `faults` records the kinds of fault that happened: a
call that stopped, an undo that failed, an answer that was lost after the identity was
created or the transaction committed. `UserHasIdentity` survives all but the last;
`AllOrNothing` is the "one unit of work" of the comment for fault-free behaviours,
including all races for an email or a Worker. A lockout is written to both stores with
nothing that orders two calls: lock and unlock of one user can reach Supabase in one
order and Postgres in the other, which ends with a locked User whose identity is not
banned. `LockoutMirrored` says that nothing else can separate the two: they agree once
no lockout is under way, unless two overlapped or one was cut off between its writes
(`unsynced`).

### WageRates: the wage rules and the two salary resolutions

| Code | Action |
|---|---|
| `PaymentService.create`: `findFirst`, 409 | `FindExisting` |
| `create`: the insert; a unique index or foreign key that refuses it | `InsertRate`, `InsertFails` |
| `update`, `remove` | `UpdateRate`, `RemoveRate` |
| `SitesService.remove` | `RemoveSite`: `ON DELETE SET NULL` turns the site's rules into company-wide ones |
| `SalaryService.calculate` | `Calculate`: the rule that `ORDER BY siteId DESC` puts first, NULLs first |
| `SalaryService.calculateMany` | `CalculateMany`: one query for the batch, then `find` in memory |

A calculation reads the rules in one statement, so it is a function of the table; rows
that tie in an order are a nondeterministic choice (`AnyOf`), and the two functions
return the *sets* of possible salaries. The unique index does not cover company-wide
rules, because it treats every NULL as different: `SlotsBounded` says how many there
can be, by two history variables. `peak` is the largest number of creations that were
between find and insert at once, `promoted` the number of site rules that lost their
site.

The comment says that the two resolutions are identical. `PaidAlike` is what is true
of it: whichever tied rows the database returns, any result of the one equals any
result of the other, for every worker, batch and site, with two exceptions. A site
rule next to a company-wide one is taken by `calculateMany` alone (`SameSalary`,
violated). Company-wide duplicates of different terms (`Contradicted`) are taken by
either function in whatever order they come, so the pay may differ between the two and
from one call to the next, contrary to the comment. Duplicates that agree do no harm,
and a site has one rule, by the unique index.

### ForemanScope: a foreman's sites and a worker's sites

| Code | Action |
|---|---|
| `authenticate` and the start of `update` / `create` | `StartUpdate`, `StartCreate` (`Authenticate` copies the primary site) |
| `assertWorkerInScope` | `ScopeForWorker`, `FindInScope` |
| `assertForemanEditSiteIds`, `assertForemanCreateScope` | `CheckSites`, `CheckCreateScope` |
| the writes to the worker's row | `UpdateRow` |
| `setAssignmentsScoped` / `setAssignments` | `ResolveUnion` (scoped only), `BeginReplace` (snapshot of `deleteMany`), `DeleteRow`, `Upsert` or `UpsertFound`, `CommitReplace` |
| `worker.create` with nested assignments; `remove` | `InsertWorker`; `RemoveWorker` |
| `ForemanAssignmentsService.assign`, `unassign` | `FindGrant`, `WriteGrant` |
| `UsersService.update` (primary site), `SitesService.remove` | `SetPrimary`, `RemoveSite` |
| error answers, failed statements, rollback | `Abort` |

`SiteAssignment` is `placed`, the committed sites of each worker; `target`, `gone`,
`done` and `added` are the open transaction of a call. At READ COMMITTED the delete
works on the rows of its snapshot, waits for those another transaction holds
(`LockedByOther`), passes over those that were deleted meanwhile and never sees rows
inserted later. How the client sends an upsert with an empty `update` depends on its
version, so both ways are allowed: insert or lock the row (`Upsert`), or find it and
leave it alone (`UpsertFound`).

The scope a foreman's call works with need not be one the foreman ever had at a single
moment: the primary site is old, the rows are new, and the union is read for three
different purposes. `EditsStayInScope` is what does hold of it: every *site* a
foreman's call gives or takes was in the foreman's scope at *some* moment between
authentication and commit (`held` collects them). `ReplacesAllItSaw` is about the
other half, two replacements of one worker at once: within its scope, a commit leaves
the wanted sites and nothing else, save those that another call gave the worker after
the delete's snapshot (`since`).

### WorkerFiles: documents, picture and the objects behind them

One worker's files. A client asks for a signed URL, PUTs the object into Storage
(`Upload`), and confirms. The back end keeps nothing of the request for a URL and sees
nothing of the PUT, so a confirmation may come after it, before it or without it.
Every call of the back end that changes files reads rows, removes the objects they
make superfluous one by one (`RemoveObject`, in the order of the code, each of which
Storage may refuse, and the code does not look), and ends with one statement on the
rows.

| Code | Action |
|---|---|
| `requestDocUpload`, `requestImageUpload`, then `uploadToSignedUrl` | `Upload` |
| `confirmDoc` | `StartConfirmDoc`, `WriteDoc` |
| `confirmImage` | `StartConfirmImage`, `RemoveObject`, `WriteImage` |
| `removeDoc` | `StartRemoveDoc`, `RemoveObject`, `DeleteDoc` |
| `remove` | `StartRemoveWorker`, `RemoveObject` (documents, then the picture), `DeleteWorker` (rows of documents cascade) |
| a missing row; a lost process or a failed statement | `WriteRefused`; `Crash` |

`createSignedUpload`'s comment says the back end "re-validates the stored object";
neither confirmation does (`RowsAreValidated`, violated). `ReferencesOpen` and
`NoStrayObject` say what holds all the same, by naming every exception. A row points
to a missing object only if nothing was PUT under its key, while (or because) a call
stopped between its purge and its write, or because an upload was confirmed again
after it had been replaced or removed. A confirmed object is left behind only if
Storage refused to remove it, if it was PUT after its confirmation, or if its
confirmation ran while another call replaced the picture or removed the worker.

### RenderPromise, RenderJob, PayslipShare: payslips

`RenderPromise` is the abstract renderer: started, it ends once, with a PDF or an
error. `RenderJob` is `CloudConvertService.htmlToPdf` (create a job, poll it,
download) or the rendering in the process; time advances in polling intervals. A
provider that never finishes a job and an answer that is slow, late or lost are part
of it. `RenderJob!RendersAsPromised` is the refinement, liveness included.
`PayslipShare` composes the job with the three payslip endpoints: the address is read,
salary and hours are queried one after the other, the slip is rendered, then answered,
sent or stored and linked, while attendance is edited and the worker changes or goes.

Hours are a set, `worked`, each at a site or at none, because `siteId` of a record may
be NULL; a sum of hours is the size of a set. An edit takes away hours at one place
and adds hours at another, which is a record created, corrected, moved or removed.

`SlipsAddUp` compares the hours that are paid with those that are listed. They agree
for a slip without `siteId` if no record changed between the queries. With a `siteId`
the list is restricted to the site and the pay is not (`salary/service.ts:85-91`), so
such a slip lists no more hours than it pays; nothing in the code says which is meant.
Objects under `payslips/` are never removed.

### StaffingLinks: the staffing company of a worker

`Worker` refers to a `PersonnelCompany` by key and by a copy of its name. The form of
the web front end is filled once (`Open`), preselects a company when the list arrives
(`LoadList`, `Preselect`), is not refilled when the worker is fetched again
(`Refetch`), and sends everything back (`Save`). PATCH looks up the company and copies
its name (`Resolve`), then writes both (`Write`); in between the company may be
renamed, archived or removed (`Rename`, `Archive`, `Remove`: the key is set to null,
the copy stays).

`CopyMatchesLink`: the two agree unless the company was renamed since it was copied or
a client typed over the copy. `UntouchedSaveKeepsLink`: saving a form whose company
the user did not touch keeps the link, if the worker is linked as when the form was
filled; a worker without a link may get one, to a company that was listed under the
copied name (which is how a company re-created under an old name collects workers).
The comment of the effect that preselects says it "runs once and never clobbers a user
edit" (`WorkerDetail.tsx:108-109`). The model does what the code does, which is
something else: for a linked worker the effect has nothing to do, and has not run to
its end, until the user clears the company; then it puts the company back (`Choose`,
`Preselect`). No property says that edits stand, because they do not. (The wizard of
the manager's app has a similar effect that does so every time.) A worker linked to an
archived company cannot be saved at all from the form: `Resolve` refuses the company
with a 400.

### ForemanApp: session, gate and active site

| Code | Action |
|---|---|
| mount effect: `getSession`, first event of the SDK | `Launch` (`Look`) |
| `onAuthStateChange` | `TokenRefreshed`, `SessionLost`, part of `SignIn` and `SignOut` |
| `signIn`, `signOut` | `SignIn`; `SignOut`, `SignOutOffline` |
| `resolveMe` | `Send` (token of that moment), then `Welcomed`, `Refused` or `Unreached` |
| the query `foremanSites`, its retry and refetch | `Enabled`, `SendFetch`, `UnionArrives`, `FetchFails`, `Refocus` |
| the effect of ActiveSiteProvider | `Effect` (part of every step that changes its inputs), and `Restore` once the preference was read |
| `loadActiveSitePref` answers; rejects | `ReadPref`; `ReadPrefFails` |
| `void saveActiveSitePref`; the write ends or rejects | `SaveStarts` (part of `Restore` and `PickSite`); `SaveEnds` |
| `setActiveSiteId` behind the picker | `PickSite` |
| the app is closed and opened | `Relaunch` |

No call is ever cancelled and the answer that arrives last wins. `GateFollowsSession`
says how far that can lead the gate astray: only while the last thing that set it was
a failure, an answer to a call that another session sent, or a sign-out that did not
reach the SDK's server (`misled`). So a late answer of `/auth/me` does re-open the
gate after a sign-out; the calls behind it carry no token and are refused.
`SiteOfUnion` relates the site to the union the app holds. Whose union that is,
nothing knows: the query's key names no user and its cache is never cleared, so the
next foreman on a device sees the union of the one before until it is fetched again.

The store of the device is asynchronous. Writes of the choice are started and not
awaited, end in any order and may fail; a restoration may read while one is under way.
So the site worked on is *not* always the one the next launch restores: two picks in a
row may be written in the other order. `ChoiceIsStored` says that nothing else
separates the two: unless a write failed or something overlapped since the site was
set or the preference read (`slipped`), the stored site is the chosen one, or the
chosen one is the only one being written. That depends on the screens, which show the
picker only when `ready`: with a picker during a restoration the older stored site
would replace a choice. A read that fails ends the restoration without a word
("lost"): `ready` stays false until the union changes, although the comment of
`loading` says that it is true "while the union is being fetched"
(`ActiveSiteProvider.tsx:41`). `LoadingEnds` names that case and says that nothing
else loads for ever. A failed fetch without older data, and a manager's 403, show "no
site assigned".

## Runs

| Run | Instance | States | What it shows |
|---|---|---|---|
| `ledger` | 2 requests, 3 callers, 2 rows, balance paid or not | 315,279 | TypeOK, LedgerInv (inductive), EffectsBounded, ReversalSawAll, AtomicDecisions (refinement) hold |
| `ledger_double` | 1 request, 2 callers | | AtMostOneEffect **fails**: two overlapping approvals, two loans |
| `vacation` | 2 requests, 2 callers, 2 days, both edited by hand, with fairness | 514,376 | TypeOK, NoOrphanDays, CoveredUnlessFreed, NoCircularWait, NeverClobbers, AtomicDays (refinement), EveryDecisionEnds hold |
| `provisioning` | 2 callers, 2 logins, 1 worker, 2 emails, every operation | 1,398,114 | TypeOK, UserHasIdentity, AllOrNothing, LockoutMirrored hold |
| `wages` | 2 callers, 2 companies, 1 profession, 1 site, 3 rules | 11,268 | TypeOK, SlotsBounded, PaidAlike hold |
| `wages_override` | 1 caller | | SameSalary **fails**: `calculate` prefers the company's rule, `calculateMany` the site's |
| `foreman` | 2 callers, 1 foreman, 1 worker, 2 sites | 823,214 | TypeOK, ReplacesAllItSaw, EditsStayInScope hold |
| `files` | 2 callers, 1 document, 2 pictures, 2 rows, each upload confirmed up to twice | 3,725,498 | TypeOK, ReferencesOpen, NoStrayObject hold |
| `files_unput` | 1 caller, 1 document, 1 picture | | RowsAreValidated **fails**: a row is written for a key that was not PUT |
| `payslip` | 1 share at a time, hours at 1 site or none, deadline of 2 intervals, with fairness | 122,618 | SlipTypeOK, PollsBounded, SlipsAddUp, RendersAsPromised (refinement), SharesEnd hold |
| `session` | a foreman, a manager, a stranger, 2 sites, 1 event call, no retry, 1 write of a site at once, with fairness | 630,522 | TypeOK, GateFollowsSession, SiteOfUnion, ChoiceIsStored, LoadingEnds hold |
| `staffing` | 2 companies, 2 names, a form and 1 other call, 3 changes of the table | 1,888,741 | TypeOK, CopyMatchesLink, UntouchedSaveKeepsLink hold |

The failing runs are disagreements between a comment of the code and what it does;
`PROJECT.json` quotes each. None of the properties that hold assumes them away: the
runs that pass contain the behaviours of those that fail, and their properties name
what is different there.

Where the code misses a promise in a known, narrow case, the property that holds names
the case instead of leaving it out: an overtaken approval (`AtomicDecisions`,
`AtomicDays`, `NoOrphanDays`), overlapping vacations (`CoveredUnlessFreed`),
overlapping lockouts (`LockoutMirrored`), a removed site whose wage rule becomes a
second company-wide one (`SlotsBounded`), rules that override or contradict each other
(`PaidAlike`), a repeated confirmation and one without a PUT (`ReferencesOpen`), a
late answer (`GateFollowsSession`), writes that overlap (`ChoiceIsStored`), a failed
read (`LoadingEnds`), a slip of one site (`SlipsAddUp`). One more is visible only in
the model's steps: a repayment that commits between the guard and the delete of a
reversal is deleted with its loan; `ReversalSawAll` says that the guard has at least
looked at every row that goes.

A few things the models do that no run is about. An undo that fails in Provisioning
leaves an identity nobody looks for. An edit of a worker's email that read the worker
before its login was linked renames the worker and not the login. And three more
disagreements between a comment and the code, each described with its module above,
are only excused, or not spoken of, by the properties that hold: contradicting
company-wide rules (WageRates), a company that comes back after it was cleared
(StaffingLinks), a read of the preference that fails (ForemanApp).

**Bounds.** Two requests suffice to see one decision touch another's rows or wait for
its lock; three callers give a decision, its rival and a third that meets the state
they leave. Amounts matter only through "outstanding equals amount", so one amount and
a zero balance are enough. Two ledger rows show a double grant, and make `ApplyEffect`
wait when both are in use, which only removes behaviours that need a third row. Two
days with the spans of `SomeSpans` (both days; the second, without an end date; no
start date, which is refused as dates in the wrong order are) give overlap and
skipping, of days a request and a hand hold in any order. In Provisioning the set of
logins bounds the identities alive at once; ids are fresh, never reused while anything
refers to them. The run bounds faults to one kind per behaviour (`OneKindOfFault`),
any number of times; all kinds together were not needed for any property and multiply
the states by three. In WageRates two companies show a leak between tenants in a
batch, three rules a duplicate beside a site rule; the three sample terms are no wage,
an hourly wage and a monthly salary. In ForemanScope the constraint `OneOfAKind` keeps
at most one call of a foreman, one of a manager and one change of the foreman's sites
in flight, and `OneRow` one assignment row besides the primary site: a site in scope
and one out of it, each free to move. The proofs cover what these bounds exclude. In
WorkerFiles two calls overlap in every pair of operations; an upload is confirmed at
most `MaxConfirms` times (here twice), once more than a client that does not repeat
itself. In PayslipShare handlers share nothing but the records, so one at a time shows
what happens to it; a deadline of two intervals distinguishes a poll in time, the last
one and one too many. In ForemanApp the awaited call of `resolveMe` and one more from
an event can cross each other, before and after a change of the session. `MaxSaves`
bounds the writes of one site that are under way at once: one of each of two sites are
an older and a newer choice, in either order. A retry is a fetch like the first and
only delays its failure, so the run has none (`Retries`). In StaffingLinks
`MaxChanges` bounds the changes of the table of companies, not those of the worker;
three suffice to create, remove or rename and re-create a company around a form.
Symmetry is used only where no liveness property is checked and the permuted values
play the same part.

**Fairness.** Three modules have a `FairSpec`. VacationDays: `SF_vars(Step(c))`. A
started call is an async function that nothing suspends, so it takes its next
statement; strong fairness stands for the database's wait queue, which wakes a waiting
statement when the transaction it waits for ends. Timeouts and crashes (`Abort`), new
calls and manual edits are not fair: the property shows that decisions end without the
five-second limit having to cut a circle. PayslipShare: weak fairness of the handler's
and the rendering's own steps, which includes that a fetch ends in an answer or an
error (the HTTP client's own limits; the code sets none). Nothing is assumed of the
provider: a job may stay "processing" for ever. ForemanApp: weak fairness of answers,
failures, and reads and writes of the preference (each ends or fails), which the
platform ends; strong fairness of `Restore`, the continuation after a read: fetched
data count as fresh for 30 seconds, so a refetch does not discard every restoration
between its read and the next turn of the event loop. Users, SDK events and relaunches
are not fair, and `LoadingEnds` has to exclude only a restoration whose read failed.

**Deadlock** is checked in every run but `payslip` and `files`, where everything stops
when the worker has been removed and the last share or call has ended. A call can
always be cut off (`Abort`), so this says little about calls that wait for each other:
for vacations `NoCircularWait` and `EveryDecisionEnds` say it, and two replacements of
one worker's sites really can wait for each other's rows until the database aborts
one.

## Proofs

A proof module extends the modules it is about and holds the inductive invariant
`IInv`, one lemma per action (or per group of actions that disturb the same part of
it), and the theorems. Every invariant and action property of the passing runs has a
theorem. `IInv` was checked with TLC before it was proved. The theorems are about
`Spec`, which every `FairSpec` implies; RenderJob's is `RenderSpec`, PayslipShare's
`SlipSpec`.

`RequestLedgerProofs` proves, for every set of requests, callers, rows (finite) and
amounts, `TypeOK` and `LedgerInv`, and from it `EffectsBounded` and `ReversalSawAll`.
`EffectsBounded` is not inductive: `Commit` needs to know that a re-decision in a
transaction still faces the status it read, that a row it inserts is fresh and a set
of rows it deletes is all of them, and that no other transaction holds the request.
`LedgerInv` adds exactly these: `LockInv` (a request row is locked by the call that is
in a transaction on it), `CallInv` (what such a call may rely on) and `WriteInv` (what
it has written and not committed). The proof goes action by action; cardinalities come
from the library's finite-set theorems and the assumption that `RowIds` is finite. Its
last part proves the refinement, `Spec => AtomicDecisions`, for any overlapping calls.
A re-decision that commits has compared the status under the row's lock, so it is
`Approve` or `Reject` of DecisionLedger; so is an approve / reject call whose request
is pending still (`CommitIsDecision`, with `WriteInv` for what was written and not
committed). The other approve / reject calls have been overtaken, and their commit is
`Overwrite` (`CommitIsOverwrite`): that no third thing can happen is what the theorem
says. Every other step of a call stutters.

`SalaryProofs` is about what a worker is paid and the slip that says so. For WageRates
it proves `TypeOK` and `SlotsBounded` for every set of companies, professions, sites
and terms, finitely many ids and callers. `SlotsBounded` is inductive together with
the types, because it counts claims: a company-wide slot's rules plus the creations
that will still insert one. A find adds a claim and lifts `peak` to the creations now
in flight, and it found no rule; an insert turns one claim into another; a removed
site moves a rule from its own slot and adds one to `promoted`. `ResolutionsAgree` is
about the salaries and not the candidates. Without an override both functions choose
among the same rules (`SameCandidates`), either of one site or company-wide. Of a site
there is one rule, by `SlotsBounded`; company-wide ones that do not contradict each
other have one set of terms; so whichever rows come first the pay is the same
(`OneSalary`). That the batch's other worker adds nothing to the worker's candidates
is `FetchedRules`.

The second half of `SalaryProofs` is about RenderJob on its own, `RenderSpec`, for any
number of renderings and any deadline. `PollsBounded` follows from `CadenceInv`:
between the first poll and the answer that settles the job, no more polls than
intervals, and a sleep only before the deadline. `RenderingKeepsItsPromise` is the
safety half of the refinement, step by step: starting and taking a rendering are
`Start` and `Take` of RenderPromise, a step of the event loop ends the rendering or
cannot be told from outside, and the environment is never seen.

The last part of `SalaryProofs` carries this to the payslip endpoints. By the lemma
`EndpointsUseTheRenderer` a step of an endpoint is one of the renderer's or leaves it
alone, by the way the modules are composed; so the bound on the polls and the promise
hold behind the endpoints (`EndpointsKeepTheBound`). `SlipTypeOK` relates the two
halves (a handler waits exactly while its rendering is under way) and takes the
renderer's types from `RenderInv`. `SlipsAddUp` follows from `SumsInv`: between the
queries a share holds the hours the worker has, unless a record changed since; then
the table is the same set, or a part of it, and a part of a finite set has no more
members.

`ForemanScopeProofs` proves `TypeOK`, `ReplacesAllItSaw` and `EditsStayInScope` for
every set of callers, foremen, workers and sites, from the invariant `IInv`. Besides
the types it says: what a call carries at each statement (`CallInv`); that what a
foreman's call would resolve now, what it has compared with the scope and the scope it
writes under are all within `held` (`ScopeInv`, the argument why a stale union does no
harm); that an open transaction touches its scope and its wanted sites only, and that
every site it ought to remove is still to be visited, already deleted or given by
another since the snapshot (`TxInv`); and that a worker who does not exist has no
sites (`NoStrayRows`), which lets a fresh worker start from nothing. Neither property
is inductive alone: `ReplacesAllItSaw` speaks of the end of the delete, and
`EditsStayInScope` of a write whose check was several statements ago.

`VacationDaysProofs` proves `TypeOK`, `CoveredUnlessFreed` and the action property
`NeverClobbers` for any requests, days and callers. A walk covers a day long before
its request is approved, so the invariant follows it: `WalkInv` says that every day
behind the cursor has a record, was freed since, or is one the call has inserted and
not committed; `TxInv` that the keys a transaction has inserted are still free and
nobody else's, that a reversal has deleted all days with its tag, and that the
transaction holds the request's lock. At `Commit` the first turns into `CoverInv`, and
the second is what `NeverClobbers` needs: the days written are the ones that were
free. `NoOrphanDays` needs two more invariants. `SeenStands`: what a re-decision in a
transaction read of its request is still so when it writes. `OvertakenInv`: a pending
request has had no overtaken decision, so its days are those of no approval, that is
none. A commit then either settles the request's days or puts the request into
`overtaken`.

`DecisionsAreAtomic` proves `Spec => AtomicDays`, like the refinement of RequestLedger
for any overlapping calls. Two facts are added (`ServedInv`): a call asks for another
outcome than it read, and creates records on days of its request only. At `Commit` the
free days of the vacation are then those the walk has inserted and days in `freed`,
which is what `Fill` of DecidedDays allows (`CommitFills`); a rejection deletes what
carries the tag, or, of a pending request, nothing (`CommitIsAtomic`); and an
overtaken call fills or leaves the days of a request that is decided already
(`CommitIsOverwrite`).

`DecisionsNeverWaitInACircle` needs no assumption. `WaitInv` says that a walk has
inserted days behind its cursor only, and that only an open transaction holds a
request row. Among calls that wait for each other's days the one with the largest
cursor waits for none of them; that there is a largest is the library's theorem on
minimal elements of well-founded relations, applied to the distance from the last day.

`ProvisioningProofs` proves `TypeOK`, `UserHasIdentity`, `AllOrNothing` and
`LockoutMirrored` for any logins, workers, emails and callers, and all kinds of faults
together (the run takes them one at a time). Which identity a call may still delete is
the heart of it: `OwnerInv` says that until a creation has committed its login is its
own (no User row, no ban, no other call has it) and a removal deletes an identity only
after the row. `CallInv` gives the locals of each step, `LinkInv` what refers to what.
`AllOrNothing` is inductive on top of these: whoever first leaves an identity without
a User, or a Worker without a login, is at a step that settles it, and the identity or
the Worker is settled when the call leaves that step. `MirrorInv` spells
`LockoutMirrored` out between the two writes: one call at most writes a User that is
not in `unsynced`, and ban and row agree before it reaches Supabase and ban and call
after.

`StaffingLinksProofs` proves `TypeOK`, `CopyMatchesLink` and the action property
`UntouchedSaveKeepsLink` for any companies, names and managers. `FoundInv` carries the
look-up to the write: the row a call found is there under the name it read, or was
renamed, or is gone, and then the write is refused. `FilledInv` follows an untouched
pick from the worker the form was filled from, through the preselection, to the call
that saves it.

`WorkerFilesProofs` proves `TypeOK`, `ReferencesOpen` and `NoStrayObject` for any
keys, rows and callers and any number of confirmations. Removals happen one by one
before the write that makes them right, so the invariant relates every call to the
objects it has removed and will remove: `PurgeInv` (what a write is about to unlink is
in the call's sweep, or gone, or excused), `OpenInv` (a missing object has a call that
removed it, or a mark), `KeyInv` and `OnceInv` (a key is nowhere before its
confirmation, and in one place after a single one, which is why no other call can
remove it, PUT or not) and `RivalInv` (calls that overlap and compete are marked).

`ForemanAppProofs` proves `TypeOK`, `GateFollowsSession`, `SiteOfUnion` and
`ChoiceIsStored` for any users, sites, retries and number of calls in flight.
`GateFollowsSession` is inductive with the types: a call that is not over keeps the
app from being at rest, and every answer sets `misled` afresh. The other two need what
the effect leaves behind: a restoration runs only over a union with sites, in a picker
that is not ready, and what it holds is still the stored preference (`ChoiceInv`); one
lemma, `EffectKeepsChoice`, shows it for every step that changes the effect's inputs.
With asynchronous writes `ChoiceInv` also says it of the writes under way: unless
something slipped, all of them are of the site that is worked on or was read, so their
end (`SaveEndsInv`) stores no other. A read starts the account anew, and is itself a
slip when a write is under way (`ReadEndsInv`).

**Assumptions.** Null values and marks (`NoCall`, `NoUser`, "idle") differ from
values; rows, callers and sites that are counted are finite; the dates of a request
are days of the calendar or missing (`SpansAssumption` in VacationDays); a user has
one role (`RolesAssumption` in ForemanApp, the `role` column). They are ASSUMEs of the
modules, which TLC evaluates in the runs. No theorem assumes anything about which
calls overlap.

**Model-checked only.** Liveness (`EveryDecisionEnds`, `SharesEnd`, `LoadingEnds`, the
liveness half of `RendersAsPromised`) is out of the proof system's reach; the safety
half of two of them is proved (`NoCircularWait`, `Promise!Steps`). The violated
properties are, of course, not theorems.

## Not modelled

Roles and tenants are checked before the writes modelled here and would only remove
behaviours; the foreman's scope is the subject of ForemanScope, which leaves out the
removal of the foreman's user, a change of role, and the scope checks of attendance
and ratings (they use the same `assertWorkerInScope`). Removing a worker cascades to
requests and rows and is left out of RequestLedger: in which order a cascade locks
those rows is the database's own affair. Attendance type, currencies, dates of ledger
rows and notes do not influence what the properties distinguish.

The archive flag and the salary data of a worker, companies, ratings, `create` and
`update` of sites, and the back office are single-row writes on which no other step
depends. Dashboard and profit and loss are read-only sums over one query each, on top
of the salary rules of WageRates; the remaining reports render one query as a payslip
is rendered. Their arithmetic is decimal and covered by unit tests.

The screens, navigation, themes, translations and components of the front ends, two
thirds of the repository's lines, draw what the HTTP API answers from the cache of a
query library; a state machine of them would be one of that library. The manager and
worker apps have the same AuthProvider as the Foreman app with other roles. Seeds,
fixtures, shared type declarations and style tokens have no behaviour.

## Plan

1. An abstract specification of what a replacement of a worker's sites promises
   (ForemanScope), with its refinement.
2. ForemanScope with attendance: a foreman's record is forced to the foreman's site
   (`modules/attendance`), which uses the same stale union.
