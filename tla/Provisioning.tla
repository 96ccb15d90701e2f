---------------------------- MODULE Provisioning ----------------------------
(***************************************************************************)
(* Logins live in two systems: the identity in Supabase Auth, the User row *)
(* (and the Worker row it is linked to) in Postgres.  UsersService and     *)
(* WorkersService write them one after the other and undo what they did    *)
(* when a later write fails; other calls run in between, the undo itself   *)
(* may fail, and the process may stop anywhere.                            *)
(*                                                                         *)
(* A User row is keyed by its authUserId, which is unique in both systems. *)
(* Roles, tenants and names are left out; requireRole and the company      *)
(* scope are checked before any of the writes here.                        *)
(***************************************************************************)
EXTENDS Naturals, FiniteSets

CONSTANTS
  Callers,   \* HTTP calls that can be in flight at once
  Logins,    \* Supabase auth user ids (bounds the identities at once)
  Workers,   \* primary keys of Worker (bounds the workers at once)
  Emails,
  Ops,       \* the operations clients call, a subset of Operations
  NoEmail,   \* Supabase has no such identity
  NoUser, NoWorker, NoLogin, NoCall,
  Keep       \* a field the body of a PATCH leaves out

Operations == {"createUser", "createWorker", "removeUser", "removeWorker",
               "lockUser", "updateUser", "updateWorker"}

User   == [email : Emails, isLockedOut : BOOLEAN]
Worker == [email : Emails, login : Logins \cup {NoLogin}]

\* What a call remembers: its operation and the ids and values it works with.
Call == [op     : Operations,
         email  : Emails \cup {Keep},
         login  : Logins \cup {NoLogin},
         worker : Workers \cup {NoWorker},
         lock   : BOOLEAN \cup {Keep}]

ASSUME OpsAssumption   == Ops \subseteq Operations
ASSUME NullsAssumption == /\ NoEmail  \notin Emails
                          /\ Keep     \notin Emails \cup BOOLEAN
                          /\ NoLogin  \notin Logins
                          /\ NoWorker \notin Workers \cup Worker
                          /\ NoUser   \notin User
                          /\ NoCall   \notin Call

VARIABLES
  identity,  \* Supabase: the email each identity was created with
  banned,    \* Supabase: identities that cannot obtain a session
  user,      \* User rows, by authUserId
  worker,    \* Worker rows
  pc, call,  \* where each caller is, and its locals
  faults,    \* history: the kinds of fault that have happened
  unlinked,  \* history: workers whose User row was removed (onDelete: SetNull)
  unsynced   \* history: logins whose lockouts overlapped or stopped half-way

vars   == <<identity, banned, user, worker, pc, call, faults, unlinked, unsynced>>
stores == <<identity, banned, user, worker>>
marks  == <<faults, unlinked, unsynced>>

Steps == {"idle", "lookup", "provision", "persist", "unprovision", "dropWorker",
          "removeRow", "removeIdentity", "ban", "updateRow", "syncLogin", "workerRow"}

\* A call stopped half-way; an undo failed; Supabase created an identity, or
\* the database committed, and the answer was lost.
Faults == {"crash", "undo", "identityAnswer", "commitAnswer"}

TypeOK ==
  /\ identity \in [Logins -> Emails \cup {NoEmail}]
  /\ banned   \in SUBSET Logins
  /\ user     \in [Logins -> User \cup {NoUser}]
  /\ worker   \in [Workers -> Worker \cup {NoWorker}]
  /\ pc       \in [Callers -> Steps]
  /\ call     \in [Callers -> Call \cup {NoCall}]
  /\ faults   \in SUBSET Faults
  /\ unlinked \in SUBSET Workers
  /\ unsynced \in SUBSET Logins

-----------------------------------------------------------------------------
Op(c)    == call[c].op
Login(c) == call[c].login
Wkr(c)   == call[c].worker

Users   == {l \in Logins : user[l] # NoUser}
Present == {w \in Workers : worker[w] # NoWorker}

\* The two unique indexes on an email: User.email and Supabase's own.
EmailFree(e)    == \A l \in Users : user[l].email # e
IdentityFree(e) == \A l \in Logins : identity[l] # e

\* Ids are never used twice: not while a store or a call in flight has them.
FreshLogins  == {l \in Logins \ Users : /\ identity[l] = NoEmail
                                        /\ \A c \in Callers : pc[c] # "idle" => Login(c) # l
                                        /\ \A w \in Present : worker[w].login # l}
FreshWorkers == {w \in Workers \ Present : \A c \in Callers : pc[c] # "idle" => Wkr(c) # w}

Init ==
  /\ identity = [l \in Logins |-> NoEmail]
  /\ banned   = {}
  /\ user     = [l \in Logins |-> NoUser]
  /\ worker   = [w \in Workers |-> NoWorker]
  /\ pc       = [c \in Callers |-> "idle"]
  /\ call     = [c \in Callers |-> NoCall]
  /\ faults   = {}
  /\ unlinked = {}
  /\ unsynced = {}

Start(c, step, args) ==
  /\ pc[c] = "idle"
  /\ args.op \in Ops
  /\ pc'   = [pc EXCEPT ![c] = step]
  /\ call' = [call EXCEPT ![c] = args]

Goto(c, step) == pc' = [pc EXCEPT ![c] = step] /\ UNCHANGED call

Return(c) ==
  /\ pc'   = [pc EXCEPT ![c] = "idle"]
  /\ call' = [call EXCEPT ![c] = NoCall]

\* The undo of an identity is followed, for a worker, by the undo of the Worker.
AfterUndo(c) == IF Op(c) = "createWorker" THEN Goto(c, "dropWorker") ELSE Return(c)

-----------------------------------------------------------------------------
(* UsersService.create and WorkersService.create / provisionAndLinkLogin.  *)

\* users: the email is looked up first; a User that has it is a 409.
StartCreateUser(c, e) ==
  /\ EmailFree(e)
  /\ Start(c, "provision", [op |-> "createUser", email |-> e, login |-> NoLogin,
                            worker |-> NoWorker, lock |-> Keep])
  /\ UNCHANGED <<stores, marks>>

\* workers: the Worker row is inserted before its login exists.
InsertWorker(c, e) ==
  \E w \in FreshWorkers :
    /\ Start(c, "lookup", [op |-> "createWorker", email |-> e, login |-> NoLogin,
                           worker |-> w, lock |-> Keep])
    /\ worker'   = [worker EXCEPT ![w] = [email |-> e, login |-> NoLogin]]
    /\ unlinked' = unlinked \ {w}
    /\ UNCHANGED <<identity, banned, user, faults, unsynced>>

LookupEmail(c) ==
  /\ pc[c] = "lookup"
  /\ Goto(c, IF EmailFree(call[c].email) THEN "provision" ELSE "dropWorker")
  /\ UNCHANGED <<stores, marks>>

\* createAuthUser.
Provision(c) ==
  /\ pc[c] = "provision"
  /\ IdentityFree(call[c].email)
  /\ \E l \in FreshLogins :
       /\ identity' = [identity EXCEPT ![l] = call[c].email]
       /\ call'     = [call EXCEPT ![c].login = l]
  /\ pc' = [pc EXCEPT ![c] = "persist"]
  /\ UNCHANGED <<banned, user, worker, marks>>

\* Supabase has the email already, or cannot be reached.
ProvisionFails(c) ==
  /\ pc[c] = "provision"
  /\ AfterUndo(c)
  /\ UNCHANGED <<stores, marks>>

\* The identity was created but the call sees an error.
ProvisionUnanswered(c) ==
  /\ pc[c] = "provision"
  /\ IdentityFree(call[c].email)
  /\ \E l \in FreshLogins : identity' = [identity EXCEPT ![l] = call[c].email]
  /\ faults' = faults \cup {"identityAnswer"}
  /\ AfterUndo(c)
  /\ UNCHANGED <<banned, user, worker, unlinked, unsynced>>

NewUser(c) == [user EXCEPT ![Login(c)] = [email |-> call[c].email, isLockedOut |-> FALSE]]

\* prisma.user.create.
PersistUser(c) ==
  /\ Op(c) = "createUser"
  /\ EmailFree(call[c].email)
  /\ user' = NewUser(c)
  /\ UNCHANGED worker

\* One transaction: the User row, and the Worker linked to it.
LinkWorker(c) ==
  /\ Op(c) = "createWorker"
  /\ EmailFree(call[c].email)
  /\ Wkr(c) \in Present
  /\ user'   = NewUser(c)
  /\ worker' = [worker EXCEPT ![Wkr(c)].login = Login(c)]

Persist(c) ==
  /\ pc[c] = "persist"
  /\ PersistUser(c) \/ LinkWorker(c)
  /\ Return(c)
  /\ UNCHANGED <<identity, banned, marks>>

\* It was committed but the call sees an error, and starts to undo.
PersistUnanswered(c) ==
  /\ pc[c] = "persist"
  /\ PersistUser(c) \/ LinkWorker(c)
  /\ faults' = faults \cup {"commitAnswer"}
  /\ Goto(c, "unprovision")
  /\ UNCHANGED <<identity, banned, unlinked, unsynced>>

\* The email was taken meanwhile, the Worker is gone, or the database fails.
PersistFails(c) ==
  /\ pc[c] = "persist"
  /\ Goto(c, "unprovision")
  /\ UNCHANGED <<stores, marks>>

\* Mutant: the undo of a failed transaction forgets the identity.
UnprovisionSkipped(c) ==
  /\ pc[c] = "unprovision"
  /\ AfterUndo(c)
  /\ UNCHANGED <<stores, marks>>

\* deleteAuthUser, the compensating action.
Unprovision(c) ==
  /\ pc[c] = "unprovision"
  /\ identity' = [identity EXCEPT ![Login(c)] = NoEmail]
  /\ banned'   = banned \ {Login(c)}
  /\ AfterUndo(c)
  /\ UNCHANGED <<user, worker, marks>>

\* `.catch(() => undefined)`; an { error } Supabase returns is not even read.
UnprovisionFails(c) ==
  /\ pc[c] = "unprovision"
  /\ faults' = faults \cup {"undo"}
  /\ AfterUndo(c)
  /\ UNCHANGED <<stores, unlinked, unsynced>>

DropWorker(c) ==
  /\ pc[c] = "dropWorker"
  /\ worker'   = [worker EXCEPT ![Wkr(c)] = NoWorker]
  /\ unlinked' = unlinked \ {Wkr(c)}
  /\ Return(c)
  /\ UNCHANGED <<identity, banned, user, faults, unsynced>>

DropWorkerFails(c) ==
  /\ pc[c] = "dropWorker"
  /\ faults' = faults \cup {"undo"}
  /\ Return(c)
  /\ UNCHANGED <<stores, unlinked, unsynced>>

-----------------------------------------------------------------------------
(* UsersService.remove and WorkersService.remove.                          *)

StartRemoveUser(c, l) ==
  /\ l \in Users
  /\ Start(c, "removeRow", [op |-> "removeUser", email |-> Keep, login |-> l,
                            worker |-> NoWorker, lock |-> Keep])
  /\ UNCHANGED <<stores, marks>>

\* Mutant: the identity goes first.
RemoveRowAfterIdentity(c) ==
  /\ pc[c] = "removeRow"
  /\ Login(c) \in Users
  /\ identity' = [identity EXCEPT ![Login(c)] = NoEmail]
  /\ Goto(c, "removeIdentity")
  /\ UNCHANGED <<banned, user, worker, marks>>

\* The row first; the database unlinks a Worker that points to it.
RemoveRow(c) ==
  /\ pc[c] = "removeRow"
  /\ Login(c) \in Users
  /\ LET linked == {w \in Present : worker[w].login = Login(c)}
     IN  /\ worker' = [w \in Workers |-> IF w \in linked
                                         THEN [worker[w] EXCEPT !.login = NoLogin]
                                         ELSE worker[w]]
         /\ unlinked' = unlinked \cup linked
  /\ user' = [user EXCEPT ![Login(c)] = NoUser]
  /\ unsynced' = unsynced \ {Login(c)}
  /\ Goto(c, "removeIdentity")
  /\ UNCHANGED <<identity, banned, faults>>

RemoveIdentity(c) ==
  /\ pc[c] = "removeIdentity"
  /\ identity' = [identity EXCEPT ![Login(c)] = NoEmail]
  /\ banned'   = banned \ {Login(c)}
  /\ Return(c)
  /\ UNCHANGED <<user, worker, marks>>

RemoveIdentityFails(c) ==
  /\ pc[c] = "removeIdentity"
  /\ faults' = faults \cup {"undo"}
  /\ Return(c)
  /\ UNCHANGED <<stores, unlinked, unsynced>>

\* A hard delete of the Worker.  Its login, the User row and the identity stay.
RemoveWorker(w) ==
  /\ "removeWorker" \in Ops
  /\ w \in Present
  /\ worker'   = [worker EXCEPT ![w] = NoWorker]
  /\ unlinked' = unlinked \ {w}
  /\ UNCHANGED <<identity, banned, user, pc, call, faults, unsynced>>

-----------------------------------------------------------------------------
(* UsersService.update and setLockout; WorkersService.update of an email.  *)

\* Calls in flight that write the lockout of a login, and what another one leaves.
Locking(l)  == \E c \in Callers : pc[c] # "idle" /\ Login(c) = l /\ call[c].lock # Keep
Overlap(l)  == unsynced' = unsynced \cup IF Locking(l) THEN {l} ELSE {}
HalfDone(c) == unsynced' = unsynced \cup
                 IF pc[c] = "updateRow" /\ call[c].lock # Keep
                 THEN {Login(c)} \cap Users ELSE {}

StartLockUser(c, l, b) ==
  /\ l \in Users
  /\ Start(c, "ban", [op |-> "lockUser", email |-> Keep, login |-> l,
                      worker |-> NoWorker, lock |-> b])
  /\ Overlap(l)
  /\ UNCHANGED <<stores, faults, unlinked>>

\* Mutant: the lockout of the body is taken for the row's.
StartUpdateUserUnmirrored(c, l, e, b) ==
  /\ l \in Users
  /\ Start(c, "updateRow", [op |-> "updateUser", email |-> e, login |-> l,
                            worker |-> NoWorker, lock |-> b])
  /\ IF b = Keep THEN UNCHANGED unsynced ELSE Overlap(l)
  /\ UNCHANGED <<stores, faults, unlinked>>

\* The lockout goes to Supabase only when it differs from the row just read.
StartUpdateUser(c, l, e, b) ==
  /\ l \in Users
  /\ Start(c, IF b \in BOOLEAN \ {user[l].isLockedOut} THEN "ban" ELSE "updateRow",
           [op |-> "updateUser", email |-> e, login |-> l,
            worker |-> NoWorker, lock |-> b])
  /\ IF b = Keep THEN UNCHANGED unsynced ELSE Overlap(l)
  /\ UNCHANGED <<stores, faults, unlinked>>

Ban(c) ==
  /\ pc[c] = "ban"
  /\ identity[Login(c)] # NoEmail
  /\ banned' = IF call[c].lock THEN banned \cup {Login(c)} ELSE banned \ {Login(c)}
  /\ Goto(c, "updateRow")
  /\ UNCHANGED <<identity, user, worker, marks>>

RowTaken(l, e) == \E k \in Users \ {l} : user[k].email = e

\* Mutant: a field the body leaves out is written all the same.
UpdateRowRaw(c) ==
  /\ pc[c] = "updateRow"
  /\ Login(c) \in Users
  /\ ~RowTaken(Login(c), call[c].email)
  /\ user' = [user EXCEPT ![Login(c)] = [email |-> call[c].email, isLockedOut |-> call[c].lock]]
  /\ Return(c)
  /\ UNCHANGED <<identity, banned, worker, marks>>

UpdateRow(c) ==
  /\ pc[c] = "updateRow"
  /\ Login(c) \in Users
  /\ ~RowTaken(Login(c), call[c].email)
  /\ user' = [user EXCEPT ![Login(c)] =
                [email       |-> IF call[c].email = Keep THEN @.email ELSE call[c].email,
                 isLockedOut |-> IF call[c].lock = Keep THEN @.isLockedOut ELSE call[c].lock]]
  /\ Return(c)
  /\ UNCHANGED <<identity, banned, worker, marks>>

\* PATCH /workers/:id with an email.  A linked login is renamed first.
StartUpdateWorker(c, w, e) ==
  /\ w \in Present
  /\ Start(c, IF worker[w].login # NoLogin /\ worker[w].email # e
              THEN "syncLogin" ELSE "workerRow",
           [op |-> "updateWorker", email |-> e, login |-> worker[w].login,
            worker |-> w, lock |-> Keep])
  /\ UNCHANGED <<stores, marks>>

SyncLogin(c) ==
  /\ pc[c] = "syncLogin"
  /\ Login(c) \in Users
  /\ ~RowTaken(Login(c), call[c].email)
  /\ user' = [user EXCEPT ![Login(c)].email = call[c].email]
  /\ Goto(c, "workerRow")
  /\ UNCHANGED <<identity, banned, worker, marks>>

WorkerRow(c) ==
  /\ pc[c] = "workerRow"
  /\ Wkr(c) \in Present
  /\ worker' = [worker EXCEPT ![Wkr(c)].email = call[c].email]
  /\ Return(c)
  /\ UNCHANGED <<identity, banned, user, marks>>

\* A statement with nothing to undo fails: a row is gone, an email is taken, a
\* foreign key forbids the delete, a service does not answer.
Refused(c) ==
  /\ pc[c] \in {"removeRow", "ban", "updateRow", "syncLogin", "workerRow"}
  /\ HalfDone(c)
  /\ Return(c)
  /\ UNCHANGED <<stores, faults, unlinked>>

\* The process stops, or a read outside any try / catch throws.
Crash(c) ==
  /\ pc[c] # "idle"
  /\ faults' = faults \cup {"crash"}
  /\ HalfDone(c)
  /\ Return(c)
  /\ UNCHANGED <<stores, unlinked>>

-----------------------------------------------------------------------------
Begin(c) ==
  \/ \E e \in Emails : StartCreateUser(c, e) \/ InsertWorker(c, e)
  \/ \E l \in Logins :
       \/ StartRemoveUser(c, l)
       \/ \E b \in BOOLEAN : StartLockUser(c, l, b)
       \/ \E e \in Emails \cup {Keep}, b \in BOOLEAN \cup {Keep} : StartUpdateUser(c, l, e, b)
  \/ \E w \in Workers, e \in Emails : StartUpdateWorker(c, w, e)

Proceed(c) ==
  \/ LookupEmail(c)
  \/ Provision(c)   \/ ProvisionFails(c) \/ ProvisionUnanswered(c)
  \/ Persist(c)     \/ PersistFails(c)   \/ PersistUnanswered(c)
  \/ Unprovision(c) \/ UnprovisionFails(c)
  \/ DropWorker(c)  \/ DropWorkerFails(c)
  \/ RemoveRow(c)   \/ RemoveIdentity(c) \/ RemoveIdentityFails(c)
  \/ Ban(c)         \/ UpdateRow(c)      \/ SyncLogin(c) \/ WorkerRow(c)
  \/ Refused(c)     \/ Crash(c)

Next ==
  \/ \E c \in Callers : Begin(c) \/ Proceed(c)
  \/ \E w \in Workers : RemoveWorker(w)

Spec == Init /\ [][Next]_vars
-----------------------------------------------------------------------------
\* An app User always has the Supabase identity it authenticates with, whatever
\* crashed or failed to be undone: creation writes the identity first, removal
\* deletes it last, and an undo only deletes the identity its own call created.
\* (Not so when the answer to a commit is lost: the undo then runs for a User
\* that does exist.)
UserHasIdentity ==
  "commitAnswer" \notin faults => \A l \in Users : identity[l] # NoEmail

\* The calls that still owe something to an identity or to a Worker.
Settling(l) == \E c \in Callers :
  pc[c] \in {"persist", "unprovision", "removeIdentity"} /\ Login(c) = l
Creating(w) == \E c \in Callers :
  pc[c] # "idle" /\ Op(c) = "createWorker" /\ Wkr(c) = w

\* "One unit of work: if ANY step fails we roll back everything".  As long as no
\* fault happened, an identity without a User row and a Worker without a login
\* are seen only while a call is about to finish or undo them; a Worker may also
\* have lost its login to a removal of the User.
AllOrNothing ==
  faults = {} =>
    /\ \A l \in Logins : identity[l] # NoEmail => l \in Users \/ Settling(l)
    /\ \A w \in Present : worker[w].login = NoLogin => Creating(w) \/ w \in unlinked

\* setUserLockout: "Mirror app-level lockout to Supabase so a locked user cannot
\* obtain a session".  The row and the ban agree, whatever was removed, edited or
\* undone meanwhile, except between the two writes of a lockout and from then on if
\* that call stopped there; and except when two calls that carry a lockout of one user
\* overlap: each writes Supabase, then the row, and the two may come in opposite
\* orders, or an update finds the row as it wants it and skips Supabase.
LockoutMirrored ==
  "commitAnswer" \notin faults =>
    \A l \in Users \ unsynced : user[l].isLockedOut = (l \in banned) \/ Locking(l)
=============================================================================
