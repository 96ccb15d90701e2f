---------------------------- MODULE ForemanScope ----------------------------
(***************************************************************************)
(* The sites of a foreman, and what a foreman's call may do with them.     *)
(*                                                                         *)
(* A foreman's scope is the union of User.primarySiteId and the active     *)
(* rows of ForemanSiteAssignment (lib/scope.ts).  A call sees the primary  *)
(* site of the moment it was authenticated, and reads the rows again at    *)
(* every check: three times in one WorkersService.update, with managers    *)
(* free to move the foreman in between.                                    *)
(*                                                                         *)
(* A worker's sites are rows of SiteAssignment.  setAssignments (managers) *)
(* and setAssignmentsScoped (foremen) replace them in one transaction: a   *)
(* deleteMany and an upsert per site.  At READ COMMITTED the delete works  *)
(* on the rows its snapshot found, waits for a row that another open       *)
(* transaction has deleted or locked, and never sees rows inserted later.  *)
(*                                                                         *)
(* Everything here is one company's; its checks never change their answer. *)
(***************************************************************************)
EXTENDS FiniteSets

CONSTANTS
  Callers,      \* HTTP calls that can be in flight at once
  Foremen,      \* users of role FOREMAN
  Workers,      \* primary keys of Worker
  Sites,        \* primary keys of Site, all created before the behaviour starts
  Manager,      \* a caller of role MANAGER or ADMIN
  NoSite, NoWorker, NoCall, NoOrder

Call  == [by      : Foremen \cup {Manager},
          primary : Sites \cup {NoSite},        \* req.appUser.primarySiteId
          worker  : Workers \cup {NoWorker},
          wanted  : SUBSET Sites]               \* siteIds of the body
Order == [row : {"NONE", "FOUND"}, write : {"ACTIVE", "ENDED"},
          foreman : Foremen, site : Sites]

ASSUME NullsAssumption == /\ Manager \notin Foremen
                          /\ NoSite \notin Sites
                          /\ NoWorker \notin Workers
                          /\ NoCall \notin Call
                          /\ NoOrder \notin Order

VARIABLES
  sites,     \* the sites that exist
  workers,   \* the workers that exist
  primary,   \* User.primarySiteId
  granted,   \* ForemanSiteAssignment: no row, unassignedAt null, or set
  placed,    \* SiteAssignment: the sites of each worker
  pc,        \* the statement a call executes next
  call,      \* the request of a call on workers
  order,     \* an assign or unassign between its find and its write
  scope,     \* the scope a call resolved last
  target,    \* rows the transaction's deleteMany found and has not visited
  gone,      \* rows the transaction has deleted
  done,      \* sites the transaction has upserted
  added,     \* those of them it inserted or locked
  held,      \* history: sites in the foreman's scope at some time of the call
  since      \* history: sites others gave the worker since the deleteMany's snapshot

tables == <<sites, workers, primary, granted, placed>>
tx     == <<target, gone, done, added>>
vars   == <<tables, pc, call, order, scope, tx, held, since>>

ForemanCall(c) == call[c] # NoCall /\ call[c].by \in Foremen
Writing(c, w)  == pc[c] = "write" /\ call[c].worker = w

\* The transaction of another call has deleted, inserted or locked this row.
LockedByOther(c, w, s) ==
  \E d \in Callers \ {c} : Writing(d, w) /\ s \in gone[d] \cup added[d]

Active(f)   == {s \in Sites : granted[f][s] = "ACTIVE"}
ScopeNow(f) == Active(f) \cup ({primary[f]} \ {NoSite})

\* resolveSiteScope: rows of now, primary site of when the call was authenticated.
ResolvedScope(c) ==
  IF call[c].by = Manager THEN Sites
  ELSE Active(call[c].by) \cup ({call[c].primary} \ {NoSite})

PCs == {"idle", "scope", "worker", "sites", "row", "union", "begin", "write",
        "create", "insert", "order"}

TypeOK ==
  /\ sites   \in SUBSET Sites
  /\ workers \in SUBSET Workers
  /\ primary \in [Foremen -> sites \cup {NoSite}]
  /\ granted \in [Foremen -> [Sites -> {"NONE", "ACTIVE", "ENDED"}]]
  /\ placed  \in [Workers -> SUBSET sites]
  /\ pc      \in [Callers -> PCs]
  /\ call    \in [Callers -> Call \cup {NoCall}]
  /\ order   \in [Callers -> Order \cup {NoOrder}]
  /\ scope \in [Callers -> SUBSET Sites] /\ target \in [Callers -> SUBSET Sites]
  /\ gone  \in [Callers -> SUBSET Sites] /\ done   \in [Callers -> SUBSET Sites]
  /\ added \in [Callers -> SUBSET Sites] /\ held   \in [Callers -> SUBSET Sites]
  /\ since \in [Callers -> SUBSET Sites]

Init ==
  /\ sites   = Sites
  /\ workers \in SUBSET Workers
  /\ primary \in [Foremen -> Sites \cup {NoSite}]
  /\ granted = [f \in Foremen |-> [s \in Sites |-> "NONE"]]
  /\ placed  = [w \in Workers |-> {}]
  /\ pc      = [c \in Callers |-> "idle"]
  /\ call    = [c \in Callers |-> NoCall]
  /\ order   = [c \in Callers |-> NoOrder]
  /\ scope  = [c \in Callers |-> {}] /\ target = scope /\ gone  = scope
  /\ done   = scope /\ added = scope /\ held   = scope /\ since = scope

-----------------------------------------------------------------------------
(* Steps shared by the calls.                                              *)

Goto(c, next) == pc' = [pc EXCEPT ![c] = next]

\* The call ends; what it had not committed is rolled back.
Forget(c) ==
  /\ Goto(c, "idle")
  /\ call'   = [call EXCEPT ![c] = NoCall]
  /\ order'  = [order EXCEPT ![c] = NoOrder]
  /\ scope'  = [scope EXCEPT ![c] = {}]
  /\ target' = [target EXCEPT ![c] = {}]
  /\ gone'   = [gone EXCEPT ![c] = {}]
  /\ done'   = [done EXCEPT ![c] = {}]
  /\ added'  = [added EXCEPT ![c] = {}]
  /\ held'   = [held EXCEPT ![c] = {}]

\* A statement that only resolves the scope, and the check that follows it.
Resolve(c, check, next) ==
  /\ scope' = [scope EXCEPT ![c] = ResolvedScope(c)]
  /\ check
  /\ Goto(c, next)
  /\ UNCHANGED <<tables, call, order, tx, held, since>>

\* History: every foreman's call notes the scope that a manager's write leaves.
Observe ==
  held' = [c \in Callers |-> IF ForemanCall(c) THEN held[c] \cup ScopeNow(call[c].by)'
                                               ELSE held[c]]

\* A check answers 4xx, a statement fails (a foreign key, a deadlock), the call is
\* cut off: nothing of it is left.
Abort(c) ==
  /\ pc[c] # "idle"
  /\ Forget(c)
  /\ since' = [since EXCEPT ![c] = {}]
  /\ UNCHANGED tables

-----------------------------------------------------------------------------
(* WorkersService.update with siteIds, by a foreman or a manager.          *)

\* authenticate copies the user's row into the request.
Authenticate(c, by, w, wanted, next) ==
  /\ pc[c] = "idle"
  /\ call' = [call EXCEPT ![c] =
                [by |-> by, primary |-> IF by = Manager THEN NoSite ELSE primary[by],
                 worker |-> w, wanted |-> wanted]]
  /\ held' = [held EXCEPT ![c] = IF by = Manager THEN {} ELSE ScopeNow(by)]
  /\ Goto(c, next)
  /\ UNCHANGED <<tables, order, scope, tx, since>>

StartUpdate(c, by, w, wanted) ==
  /\ w \in workers
  /\ Authenticate(c, by, w, wanted, IF by = Manager THEN "row" ELSE "scope")

\* assertWorkerInScope: resolve the scope, then look for the worker in it.
ScopeForWorker(c) ==
  /\ pc[c] = "scope"
  /\ Resolve(c, ResolvedScope(c) # {}, "worker")

FindInScope(c) ==
  /\ pc[c] = "worker"
  /\ placed[call[c].worker] \cap scope[c] # {}
  /\ Goto(c, "sites")
  /\ UNCHANGED <<tables, call, order, scope, tx, held, since>>

\* Mutant: the requested sites are not compared with the scope.
CheckSitesNonEmpty(c) ==
  /\ pc[c] = "sites"
  /\ Resolve(c, call[c].wanted # {}, "row")

\* assertForemanEditSiteIds resolves the scope again.
CheckSites(c) ==
  /\ pc[c] = "sites"
  /\ Resolve(c, call[c].wanted # {} /\ call[c].wanted \subseteq ResolvedScope(c), "row")

\* The statements on the Worker and its login; only whether the row is there matters.
UpdateRow(c) ==
  /\ pc[c] = "row"
  /\ call[c].worker \in workers
  /\ Goto(c, IF call[c].by = Manager THEN "begin" ELSE "union")
  /\ scope' = [scope EXCEPT ![c] = {}]
  /\ UNCHANGED <<tables, call, order, tx, held, since>>

\* setAssignmentsScoped resolves it a third time.
ResolveUnion(c) ==
  /\ pc[c] = "union"
  /\ Resolve(c, TRUE, "begin")

\* BEGIN, and the snapshot of deleteMany.  A manager's has no scope.
BeginReplace(c) ==
  /\ pc[c] = "begin"
  /\ scope' = [scope EXCEPT ![c] = IF call[c].by = Manager THEN Sites ELSE @]
  /\ target' = [target EXCEPT ![c] =
                  (placed[call[c].worker] \cap scope'[c]) \ call[c].wanted]
  /\ Goto(c, "write")
  /\ UNCHANGED <<tables, call, order, gone, done, added, held, since>>

\* Mutant: a row that another transaction holds is skipped.
DeleteRowUnlessLocked(c, s) ==
  /\ pc[c] = "write"
  /\ s \in target[c]
  /\ target' = [target EXCEPT ![c] = @ \ {s}]
  /\ gone' = [gone EXCEPT ![c] = IF /\ s \in placed[call[c].worker]
                                    /\ ~LockedByOther(c, call[c].worker, s)
                                 THEN @ \cup {s} ELSE @]
  /\ UNCHANGED <<tables, pc, call, order, scope, done, added, held, since>>

\* deleteMany visits a row it found, when nobody else holds it; a row that has
\* been deleted meanwhile is passed over.
DeleteRow(c, s) ==
  /\ pc[c] = "write"
  /\ s \in target[c]
  /\ ~LockedByOther(c, call[c].worker, s)
  /\ target' = [target EXCEPT ![c] = @ \ {s}]
  /\ gone' = [gone EXCEPT ![c] = IF s \in placed[call[c].worker] THEN @ \cup {s} ELSE @]
  /\ UNCHANGED <<tables, pc, call, order, scope, done, added, held, since>>

\* Mutant: nothing makes the site of an assignment exist.
UpsertAnySite(c, s) ==
  /\ pc[c] = "write" /\ target[c] = {}
  /\ s \in call[c].wanted \ done[c]
  /\ ~LockedByOther(c, call[c].worker, s)
  /\ added' = [added EXCEPT ![c] = @ \cup {s}]
  /\ done' = [done EXCEPT ![c] = @ \cup {s}]
  /\ UNCHANGED <<tables, pc, call, order, scope, target, gone, held, since>>

\* upsert inserts the row or locks the one that is there.
Upsert(c, s) ==
  /\ pc[c] = "write" /\ target[c] = {}
  /\ s \in call[c].wanted \ done[c]
  /\ ~LockedByOther(c, call[c].worker, s)
  /\ s \in sites /\ call[c].worker \in workers
  /\ added' = [added EXCEPT ![c] = @ \cup {s}]
  /\ done' = [done EXCEPT ![c] = @ \cup {s}]
  /\ UNCHANGED <<tables, pc, call, order, scope, target, gone, held, since>>

\* With an empty `update` the client may also find the row and leave it alone.
UpsertFound(c, s) ==
  /\ pc[c] = "write" /\ target[c] = {}
  /\ s \in (call[c].wanted \ done[c]) \cap placed[call[c].worker]
  /\ done' = [done EXCEPT ![c] = @ \cup {s}]
  /\ UNCHANGED <<tables, pc, call, order, scope, target, gone, added, held, since>>

\* The worker's sites if the transaction commits.
Left(c) == (placed[call[c].worker] \ gone[c]) \cup added[c]

CommitReplace(c) ==
  /\ pc[c] = "write" /\ target[c] = {} /\ done[c] = call[c].wanted
  /\ placed' = [placed EXCEPT ![call[c].worker] = Left(c)]
  /\ since' = [d \in Callers |-> IF d = c THEN {}
                                 ELSE IF Writing(d, call[c].worker)
                                 THEN since[d] \cup added[c] ELSE since[d]]
  /\ Forget(c)
  /\ UNCHANGED <<sites, workers, primary, granted>>

-----------------------------------------------------------------------------
(* WorkersService.create and remove.                                       *)

StartCreate(c, by, wanted) ==
  Authenticate(c, by, NoWorker, wanted, IF by = Manager THEN "insert" ELSE "create")

\* assertForemanCreateScope.
CheckCreateScope(c) ==
  /\ pc[c] = "create"
  /\ Resolve(c, call[c].wanted # {} /\ call[c].wanted \subseteq ResolvedScope(c), "insert")

\* worker.create with its nested assignments; the key is fresh.
InsertWorker(c) ==
  /\ pc[c] = "insert"
  /\ call[c].wanted \subseteq sites
  /\ \E w \in Workers \ workers :
       /\ \A d \in Callers : call[d] # NoCall => call[d].worker # w
       /\ workers' = workers \cup {w}
       /\ placed' = [placed EXCEPT ![w] = call[c].wanted]
  /\ since' = [since EXCEPT ![c] = {}]
  /\ Forget(c)
  /\ UNCHANGED <<sites, primary, granted>>

\* remove, or the undo of a create that could not provision the login.  The rows
\* go with the worker, and wait for those who hold one.
RemoveWorker(w) ==
  /\ w \in workers
  /\ \A c \in Callers : Writing(c, w) => gone[c] \cup added[c] = {}
  /\ workers' = workers \ {w}
  /\ placed' = [placed EXCEPT ![w] = {}]
  /\ UNCHANGED <<sites, primary, granted, pc, call, order, scope, tx, held, since>>

-----------------------------------------------------------------------------
(* Managers: ForemanAssignmentsService, UsersService.update and            *)
(* SitesService.remove.                                                    *)

\* assign looks for the row of the pair; unassign wants an active one.
FindGrant(c, f, s, write) ==
  /\ pc[c] = "idle"
  /\ s \in sites
  /\ write = "ENDED" => granted[f][s] = "ACTIVE"
  /\ order' = [order EXCEPT ![c] =
                 [row |-> IF granted[f][s] = "NONE" THEN "NONE" ELSE "FOUND",
                  write |-> write, foreman |-> f, site |-> s]]
  /\ Goto(c, "order")
  /\ UNCHANGED <<tables, call, scope, tx, held, since>>

\* A row that was found is updated by id; a new one must not exist yet.
WriteGrant(c) ==
  LET o == order[c] IN
  /\ pc[c] = "order"
  /\ o.site \in sites
  /\ o.row = "NONE" => granted[o.foreman][o.site] = "NONE"
  /\ granted' = [granted EXCEPT ![o.foreman][o.site] = o.write]
  /\ order' = [order EXCEPT ![c] = NoOrder]
  /\ Goto(c, "idle")
  /\ UNCHANGED <<sites, workers, primary, placed, call, scope, tx, since>>
  /\ Observe

SetPrimary(f, s) ==
  /\ s \in sites \cup {NoSite}
  /\ primary' = [primary EXCEPT ![f] = s]
  /\ UNCHANGED <<sites, workers, granted, placed, pc, call, order, scope, tx, since>>
  /\ Observe

\* The assignments of workers and foremen go with the site (CASCADE), after the
\* transactions that hold one; a primary site becomes NULL.
RemoveSite(s) ==
  /\ s \in sites
  /\ \A c \in Callers : s \notin gone[c] \cup added[c]
  /\ sites' = sites \ {s}
  /\ placed' = [w \in Workers |-> placed[w] \ {s}]
  /\ granted' = [f \in Foremen |-> [granted[f] EXCEPT ![s] = "NONE"]]
  /\ primary' = [f \in Foremen |-> IF primary[f] = s THEN NoSite ELSE primary[f]]
  /\ UNCHANGED <<workers, pc, call, order, scope, tx, held, since>>

-----------------------------------------------------------------------------
Start(c) ==
  \E by \in Foremen \cup {Manager}, wanted \in SUBSET Sites :
    \/ StartCreate(c, by, wanted)
    \/ \E w \in Workers : StartUpdate(c, by, w, wanted)

Step(c) ==
  \/ ScopeForWorker(c) \/ FindInScope(c) \/ CheckSites(c) \/ UpdateRow(c)
  \/ ResolveUnion(c) \/ BeginReplace(c) \/ CommitReplace(c)
  \/ \E s \in Sites : DeleteRow(c, s) \/ Upsert(c, s) \/ UpsertFound(c, s)
  \/ CheckCreateScope(c) \/ InsertWorker(c)
  \/ WriteGrant(c)

Next ==
  \/ \E c \in Callers :
       \/ Start(c) \/ Step(c) \/ Abort(c)
       \/ \E f \in Foremen, s \in Sites, write \in {"ACTIVE", "ENDED"} : FindGrant(c, f, s, write)
  \/ \E w \in Workers : RemoveWorker(w)
  \/ \E f \in Foremen, s \in Sites \cup {NoSite} : SetPrimary(f, s)
  \/ \E s \in Sites : RemoveSite(s)

Spec == Init /\ [][Next]_vars

-----------------------------------------------------------------------------
Changed(w) == (placed[w] \ placed'[w]) \cup (placed'[w] \ placed[w])

\* The write of call c becomes visible: its call ends and a table has changed.
Writes(c) == pc[c] # "idle" /\ pc'[c] = "idle" /\ placed' # placed

\* WorkersService: a foreman may "only add/remove assignments WITHIN their union".
\* The union moves while the call runs, and is resolved from an old primary site and
\* three readings of the rows: every site a foreman's call gives or takes was in the
\* foreman's scope at some moment between its authentication and its commit.
EditsStayInScope ==
  [][\A c \in Callers : Writes(c) /\ ForemanCall(c) =>
       \A w \in Workers : Changed(w) \subseteq held[c]]_vars

\* setAssignments replaces across all sites, setAssignmentsScoped within the union:
\* once the deleteMany is through, what a commit would leave the worker of those
\* sites are the wanted ones and those another call gave it after the snapshot.
ReplacesAllItSaw ==
  \A c \in Callers : pc[c] = "write" /\ target[c] = {} =>
    (Left(c) \cap scope[c]) \ call[c].wanted \subseteq since[c]
=============================================================================
