------------------------- MODULE ProvisioningProofs -------------------------
(***************************************************************************)
(* Theorems about Provisioning, for every set of callers, logins, workers  *)
(* and emails, every selection of operations, and any number and mixture   *)
(* of faults.                                                              *)
(***************************************************************************)
EXTENDS Provisioning, TLAPS

Active(c) == pc[c] # "idle"

\* What a call k carries at the step s.
CallOK(s, k) ==
  /\ s = "idle" => k = NoCall
  /\ s # "idle" => k \in Call
  /\ s # "idle" /\ k.op = "createWorker" =>
       s \in {"lookup", "provision", "persist", "unprovision", "dropWorker"} /\ k.worker \in Workers
  /\ s \in {"lookup", "dropWorker"} => k.op = "createWorker"
  /\ s \in {"lookup", "provision"} => k.login = NoLogin
  /\ s \in {"lookup", "provision", "persist", "unprovision"} =>
       k.op \in {"createUser", "createWorker"} /\ k.email \in Emails
  /\ s \in {"persist", "unprovision", "removeRow", "removeIdentity", "ban", "updateRow", "syncLogin"} =>
       k.login \in Logins
  /\ s = "ban" => k.lock \in BOOLEAN
  /\ s # "idle" /\ k.lock # Keep => s \in {"ban", "updateRow"}
  /\ s \in {"syncLogin", "workerRow"} => k.worker \in Workers /\ k.email \in Emails
CallInv == \A c \in Callers : CallOK(pc[c], call[c])

\* A worker's login is a User, and only an identity can be banned.
LinkInv ==
  /\ \A w \in Present : worker[w].login \in Users \cup {NoLogin}
  /\ \A l \in banned : identity[l] # NoEmail

\* The login of a call is its own: no User row, no ban, no other call has it.
Owned(c) ==
  /\ Login(c) \notin Users \cup banned
  /\ \A d \in Callers \ {c} : Active(d) => Login(d) # Login(c)

\* Who may still delete which identity: a creation the one it created, as long as it
\* has no User, and a removal one whose User is gone.
OwnerInv ==
  \A c \in Callers :
    /\ pc[c] = "persist" => Owned(c) /\ identity[Login(c)] # NoEmail
    /\ pc[c] = "unprovision" /\ "commitAnswer" \notin faults => Owned(c)
    /\ pc[c] = "removeIdentity" => Login(c) \notin Users

\* LockoutMirrored between the two writes: a User whose lockouts never overlapped has
\* one call at most that writes it, the ban agrees with the row until that call has
\* reached Supabase, and with the call afterwards.
Mirrored(l)  == user[l].isLockedOut = (l \in banned)
Locks(c, l)  == Active(c) /\ Login(c) = l /\ call[c].lock # Keep
MirrorInv ==
  "commitAnswer" \notin faults =>
    \A l \in Users \ unsynced :
      /\ (\A c \in Callers : Locks(c, l) => pc[c] = "ban") => Mirrored(l)
      /\ \A c \in Callers : Locks(c, l) =>
           /\ \A d \in Callers : Locks(d, l) => d = c
           /\ pc[c] = "updateRow" => call[c].lock = (l \in banned)

IInv == TypeOK /\ CallInv /\ LinkInv /\ OwnerInv /\ UserHasIdentity
SInv == IInv /\ AllOrNothing /\ MirrorInv

-----------------------------------------------------------------------------
\* Caller c is now at the step s with the locals k; the other callers are where they were.
Moves(c, s, k) ==
  /\ pc'   = [pc EXCEPT ![c] = s]
  /\ call' = [call EXCEPT ![c] = k]

LEMMA MovesCalls ==
  ASSUME TypeOK, CallInv, NEW c \in Callers, NEW s \in Steps, NEW k \in Call \cup {NoCall},
         Moves(c, s, k), CallOK(s, k)
  PROVE  /\ pc' \in [Callers -> Steps] /\ call' \in [Callers -> Call \cup {NoCall}]
         /\ CallInv'
         /\ pc'[c] = s /\ call'[c] = k
         /\ \A d \in Callers \ {c} : pc'[d] = pc[d] /\ call'[d] = call[d]
<1>1. /\ pc' \in [Callers -> Steps] /\ call' \in [Callers -> Call \cup {NoCall}]
      /\ pc'[c] = s /\ call'[c] = k
      /\ \A d \in Callers \ {c} : pc'[d] = pc[d] /\ call'[d] = call[d]
  BY DEF TypeOK, Moves
<1>2. \A d \in Callers : CallOK(pc'[d], call'[d])
  BY <1>1 DEF CallInv
<1> QED
  BY <1>1, <1>2 DEF CallInv, CallOK

\* The ways a call ends or goes on without learning anything.
LEMMA ReturnMoves ==
  ASSUME TypeOK, CallInv, NEW c \in Callers, Return(c)
  PROVE  Moves(c, "idle", NoCall) /\ CallOK("idle", NoCall)
BY DEF Return, Moves, CallOK

LEMMA GotoMoves ==
  ASSUME TypeOK, CallInv, NEW c \in Callers, NEW s \in Steps, Goto(c, s)
  PROVE  Moves(c, s, call[c])
BY DEF Goto, Moves, TypeOK

LEMMA AfterUndoMoves ==
  ASSUME TypeOK, CallInv, NEW c \in Callers, pc[c] \in {"provision", "unprovision"}, AfterUndo(c)
  PROVE  \/ Moves(c, "dropWorker", call[c]) /\ CallOK("dropWorker", call[c])
         \/ Moves(c, "idle", NoCall) /\ CallOK("idle", NoCall)
<1>1. CASE Op(c) = "createWorker"
  <2>1. Moves(c, "dropWorker", call[c])
    BY <1>1, GotoMoves DEF AfterUndo, Steps
  <2>2. CallOK("dropWorker", call[c])
    BY <1>1 DEF CallInv, CallOK, Op
  <2> QED
    BY <2>1, <2>2
<1>2. CASE Op(c) # "createWorker"
  BY <1>2, ReturnMoves DEF AfterUndo
<1> QED
  BY <1>1, <1>2

\* Every step of a caller leaves it with the locals its next step needs.
Stays(c) == \E s \in Steps, k \in Call \cup {NoCall} : Moves(c, s, k) /\ CallOK(s, k)

LEMMA BeginMoves ==
  ASSUME TypeOK, CallInv, LinkInv, NEW c \in Callers, Begin(c)
  PROVE  Stays(c)
<1> USE DEF Stays, Moves, Start, CallOK, Call, Operations, Steps
<1>1. ASSUME NEW e \in Emails, StartCreateUser(c, e)
      PROVE  Stays(c)
  BY <1>1, OpsAssumption DEF StartCreateUser
<1>2. ASSUME NEW e \in Emails, InsertWorker(c, e)
      PROVE  Stays(c)
  BY <1>2 DEF InsertWorker, FreshWorkers
<1>3. ASSUME NEW l \in Logins, StartRemoveUser(c, l)
      PROVE  Stays(c)
  BY <1>3 DEF StartRemoveUser
<1>4. ASSUME NEW l \in Logins, NEW b \in BOOLEAN, StartLockUser(c, l, b)
      PROVE  Stays(c)
  BY <1>4 DEF StartLockUser
<1>5. ASSUME NEW l \in Logins, NEW e \in Emails \cup {Keep}, NEW b \in BOOLEAN \cup {Keep},
             StartUpdateUser(c, l, e, b)
      PROVE  Stays(c)
  BY <1>5 DEF StartUpdateUser
<1>6. ASSUME NEW w \in Workers, NEW e \in Emails, StartUpdateWorker(c, w, e)
      PROVE  Stays(c)
  <2>1. worker[w].login \in Logins \cup {NoLogin} /\ Users \subseteq Logins
    BY <1>6 DEF StartUpdateWorker, LinkInv, Users
  <2>2. PICK s \in {"syncLogin", "workerRow"} :
          /\ Start(c, s, [op |-> "updateWorker", email |-> e, login |-> worker[w].login,
                          worker |-> w, lock |-> Keep])
          /\ s = "syncLogin" => worker[w].login # NoLogin
    BY <1>6 DEF StartUpdateWorker
  <2> DEFINE k == [op |-> "updateWorker", email |-> e, login |-> worker[w].login,
                   worker |-> w, lock |-> Keep]
  <2>3. k \in Call
    BY <2>1
  <2>4. s \in Steps /\ CallOK(s, k)
    BY <2>1, <2>2, <2>3
  <2>5. Moves(c, s, k)
    BY <2>2
  <2> HIDE DEF k
  <2> QED
    BY <2>3, <2>4, <2>5 DEF Stays
<1> QED
  BY <1>1, <1>2, <1>3, <1>4, <1>5, <1>6 DEF Begin

LEMMA ProceedMoves ==
  ASSUME TypeOK, CallInv, NEW c \in Callers, Proceed(c)
  PROVE  Stays(c)
<1>0. CallOK(pc[c], call[c]) /\ pc[c] \in Steps
  BY DEF CallInv, TypeOK
<1>1. ASSUME Return(c)
      PROVE  Stays(c)
  BY <1>1, ReturnMoves DEF Stays, Steps
<1>2. ASSUME NEW s \in Steps, Goto(c, s), pc[c] # "idle", CallOK(s, call[c])
      PROVE  Stays(c)
  BY <1>0, <1>2, GotoMoves DEF Stays, CallOK
<1>3. ASSUME pc[c] \in {"provision", "unprovision"}, AfterUndo(c)
      PROVE  Stays(c)
  BY <1>0, <1>3, AfterUndoMoves DEF Stays, CallOK, Steps
<1>4. ASSUME LookupEmail(c)
      PROVE  Stays(c)
  BY <1>0, <1>2, <1>4 DEF LookupEmail, CallOK, Steps
<1>5. ASSUME Provision(c)
      PROVE  Stays(c)
  <2>1. PICK l \in FreshLogins : call' = [call EXCEPT ![c].login = l]
    BY <1>5 DEF Provision
  <2>2. l \in Logins /\ call[c] \in Call /\ pc[c] = "provision" /\ pc' = [pc EXCEPT ![c] = "persist"]
    BY <1>0, <1>5 DEF Provision, FreshLogins, CallOK
  <2>3. Moves(c, "persist", [call[c] EXCEPT !.login = l])
    BY <2>1, <2>2 DEF Moves, TypeOK
  <2>4. /\ [call[c] EXCEPT !.login = l] \in Call
        /\ CallOK("persist", [call[c] EXCEPT !.login = l])
    BY <1>0, <2>2 DEF Call, CallOK
  <2> QED
    BY <2>3, <2>4 DEF Stays, Steps
<1>6. ASSUME \/ ProvisionFails(c) \/ ProvisionUnanswered(c)
             \/ Unprovision(c) \/ UnprovisionFails(c)
      PROVE  Stays(c)
  BY <1>3, <1>6 DEF ProvisionFails, ProvisionUnanswered, Unprovision, UnprovisionFails
<1>7. ASSUME PersistUnanswered(c) \/ PersistFails(c)
      PROVE  Stays(c)
  BY <1>0, <1>2, <1>7 DEF PersistUnanswered, PersistFails, CallOK, Steps
<1>8. ASSUME RemoveRow(c)
      PROVE  Stays(c)
  BY <1>0, <1>2, <1>8 DEF RemoveRow, CallOK, Steps
<1>9. ASSUME Ban(c) \/ SyncLogin(c)
      PROVE  Stays(c)
  BY <1>0, <1>2, <1>9 DEF Ban, SyncLogin, CallOK, Steps
<1>10. ASSUME \/ Persist(c) \/ DropWorker(c) \/ DropWorkerFails(c)
              \/ RemoveIdentity(c) \/ RemoveIdentityFails(c)
              \/ UpdateRow(c) \/ WorkerRow(c) \/ Refused(c) \/ Crash(c)
       PROVE  Stays(c)
  BY <1>1, <1>10
     DEF Persist, DropWorker, DropWorkerFails, RemoveIdentity, RemoveIdentityFails,
         UpdateRow, WorkerRow, Refused, Crash
<1> QED
  BY <1>4, <1>5, <1>6, <1>7, <1>8, <1>9, <1>10 DEF Proceed

-----------------------------------------------------------------------------
\* The other callers stay where they are.
Kept(c) == \A d \in Callers \ {c} : pc'[d] = pc[d] /\ call'[d] = call[d]

LEMMA StepCalls ==
  ASSUME IInv, NEW c \in Callers, Begin(c) \/ Proceed(c)
  PROVE  /\ pc' \in [Callers -> Steps] /\ call' \in [Callers -> Call \cup {NoCall}]
         /\ CallInv'
         /\ Kept(c)
<1>1. PICK s \in Steps, k \in Call \cup {NoCall} : Moves(c, s, k) /\ CallOK(s, k)
  BY BeginMoves, ProceedMoves DEF IInv, Stays
<1> QED
  BY <1>1, MovesCalls DEF IInv, Kept

LEMMA NewUserType ==
  ASSUME TypeOK, CallInv, NEW c \in Callers, pc[c] = "persist"
  PROVE  /\ NewUser(c) \in [Logins -> User \cup {NoUser}]
         /\ Login(c) \in Logins
         /\ NewUser(c)[Login(c)] \in User
         /\ \A l \in Logins \ {Login(c)} : NewUser(c)[l] = user[l]
<1>1. Login(c) \in Logins /\ call[c].email \in Emails
  BY DEF CallInv, CallOK, Login
<1>2. [email |-> call[c].email, isLockedOut |-> FALSE] \in User
  BY <1>1 DEF User
<1> QED
  BY <1>1, <1>2 DEF NewUser, TypeOK

\* An edit of a User row leaves a User row.
LEMMA EditedUser ==
  ASSUME TypeOK, CallInv, NEW c \in Callers, UpdateRow(c) \/ SyncLogin(c)
  PROVE  /\ user' \in [Logins -> User \cup {NoUser}]
         /\ Login(c) \in Users /\ Users' = Users
         /\ \A l \in Logins \ {Login(c)} : user'[l] = user[l]
<1>0. CallOK(pc[c], call[c])
  BY DEF CallInv
<1>1. Login(c) \in Users /\ call[c] \in Call
  BY <1>0 DEF UpdateRow, SyncLogin, CallOK
<1>2. user[Login(c)] \in User /\ Login(c) \in Logins
  BY <1>1 DEF Users, TypeOK
<1>3. PICK u \in User : user' = [user EXCEPT ![Login(c)] = u]
  <2>1. CASE UpdateRow(c)
    <3>1. call[c].lock # Keep => call[c].lock \in BOOLEAN
      BY <1>1 DEF Call
    <3>2. [email       |-> IF call[c].email = Keep THEN user[Login(c)].email ELSE call[c].email,
           isLockedOut |-> IF call[c].lock = Keep THEN user[Login(c)].isLockedOut ELSE call[c].lock]
            \in User
      BY <1>1, <1>2, <3>1 DEF User, Call
    <3> QED
      BY <1>2, <2>1, <3>2 DEF UpdateRow, TypeOK
  <2>2. CASE SyncLogin(c)
    <3>1. [user[Login(c)] EXCEPT !.email = call[c].email] \in User
      BY <1>0, <1>2, <2>2 DEF SyncLogin, CallOK, User
    <3> QED
      BY <1>2, <2>2, <3>1 DEF SyncLogin, TypeOK
  <2> QED
    BY <2>1, <2>2
<1> QED
  BY <1>1, <1>2, <1>3, NullsAssumption DEF TypeOK, Users

\* The stores stay what they are.
LEMMA StepStores ==
  ASSUME IInv, NEW c \in Callers, Begin(c) \/ Proceed(c)
  PROVE  /\ identity' \in [Logins -> Emails \cup {NoEmail}]
         /\ banned' \in SUBSET Logins
         /\ user' \in [Logins -> User \cup {NoUser}]
         /\ worker' \in [Workers -> Worker \cup {NoWorker}]
         /\ faults' \in SUBSET Faults
         /\ unlinked' \in SUBSET Workers
         /\ unsynced' \in SUBSET Logins
<1> DEFINE Stored == /\ identity' \in [Logins -> Emails \cup {NoEmail}]
                     /\ banned' \in SUBSET Logins
                     /\ user' \in [Logins -> User \cup {NoUser}]
                     /\ worker' \in [Workers -> Worker \cup {NoWorker}]
                     /\ faults' \in SUBSET Faults
                     /\ unlinked' \in SUBSET Workers
                     /\ unsynced' \in SUBSET Logins
<1>0. TypeOK /\ CallInv /\ CallOK(pc[c], call[c])
  BY DEF IInv, CallInv
<1>1. ASSUME Begin(c)
      PROVE  Stored
  <2>1. ASSUME NEW e \in Emails, InsertWorker(c, e)
        PROVE  Stored
    <3>1. [email |-> e, login |-> NoLogin] \in Worker
      BY DEF Worker
    <3> QED
      BY <1>0, <2>1, <3>1 DEF InsertWorker, FreshWorkers, TypeOK
  <2>2. ASSUME UNCHANGED <<stores, faults, unlinked>>,
               UNCHANGED unsynced \/ \E l \in Logins : Overlap(l)
        PROVE  Stored
    BY <1>0, <2>2 DEF TypeOK, stores, Overlap
  <2> QED
    BY <1>1, <2>1, <2>2
       DEF Begin, StartCreateUser, StartRemoveUser, StartLockUser, StartUpdateUser,
           StartUpdateWorker, marks
<1>2. ASSUME Provision(c) \/ ProvisionUnanswered(c)
      PROVE  Stored
  <2>1. call[c].email \in Emails /\ FreshLogins \subseteq Logins
    BY <1>0, <1>2 DEF Provision, ProvisionUnanswered, CallOK, FreshLogins
  <2> QED
    BY <1>0, <1>2, <2>1 DEF Provision, ProvisionUnanswered, TypeOK, Faults, marks
<1>3. ASSUME Persist(c) \/ PersistUnanswered(c)
      PROVE  Stored
  <2>1. user' = NewUser(c) /\ user' \in [Logins -> User \cup {NoUser}] /\ Login(c) \in Logins
    BY <1>0, <1>3, NewUserType DEF Persist, PersistUnanswered, PersistUser, LinkWorker
  <2>2. \A w \in Present : [worker[w] EXCEPT !.login = Login(c)] \in Worker
    BY <1>0, <2>1 DEF Present, TypeOK, Worker
  <2>3. worker' \in [Workers -> Worker \cup {NoWorker}]
    BY <1>0, <1>3, <2>2 DEF Persist, PersistUnanswered, PersistUser, LinkWorker, TypeOK, Present
  <2> QED
    BY <1>0, <1>3, <2>1, <2>3 DEF Persist, PersistUnanswered, TypeOK, Faults, marks
<1>4. ASSUME Unprovision(c) \/ RemoveIdentity(c)
      PROVE  Stored
  BY <1>0, <1>4 DEF Unprovision, RemoveIdentity, TypeOK, marks
<1>5. ASSUME DropWorker(c)
      PROVE  Stored
  BY <1>0, <1>5 DEF DropWorker, TypeOK
<1>6. ASSUME RemoveRow(c)
      PROVE  Stored
  <2>1. \A w \in Present : [worker[w] EXCEPT !.login = NoLogin] \in Worker
    BY <1>0 DEF Present, TypeOK, Worker
  <2> QED
    BY <1>0, <1>6, <2>1 DEF RemoveRow, TypeOK, Present
<1>7. ASSUME Ban(c)
      PROVE  Stored
  BY <1>0, <1>7 DEF Ban, TypeOK, CallOK, Login, marks
<1>8. ASSUME UpdateRow(c) \/ SyncLogin(c)
      PROVE  Stored
  BY <1>0, <1>8, EditedUser DEF UpdateRow, SyncLogin, TypeOK, marks
<1>10. ASSUME WorkerRow(c)
       PROVE  Stored
  <2>1. [worker[Wkr(c)] EXCEPT !.email = call[c].email] \in Worker
    BY <1>0, <1>10 DEF WorkerRow, CallOK, Present, TypeOK, Worker
  <2> QED
    BY <1>0, <1>10, <2>1 DEF WorkerRow, TypeOK, marks
<1>11. ASSUME \/ LookupEmail(c) \/ ProvisionFails(c) \/ PersistFails(c) \/ UnprovisionFails(c)
              \/ DropWorkerFails(c) \/ RemoveIdentityFails(c)
       PROVE  Stored
  BY <1>0, <1>11 DEF LookupEmail, ProvisionFails, PersistFails, UnprovisionFails, DropWorkerFails,
                     RemoveIdentityFails, TypeOK, Faults, stores, marks
<1>12. ASSUME Refused(c) \/ Crash(c)
       PROVE  Stored
  BY <1>0, <1>12 DEF Refused, Crash, HalfDone, TypeOK, Faults, stores, Users
<1> QED
  BY <1>1, <1>2, <1>3, <1>4, <1>5, <1>6, <1>7, <1>8, <1>10, <1>11, <1>12 DEF Proceed

LEMMA InitInv == Init => IInv
<1> SUFFICES ASSUME Init PROVE IInv
  OBVIOUS
<1>1. TypeOK
  BY DEF Init, TypeOK, Steps
<1>2. CallInv
  BY DEF Init, CallInv, CallOK
<1>3. LinkInv /\ OwnerInv /\ UserHasIdentity
  BY DEF Init, LinkInv, OwnerInv, UserHasIdentity, Users, Present
<1> QED
  BY <1>1, <1>2, <1>3 DEF IInv

-----------------------------------------------------------------------------
\* Every step but these leaves the set of identities' owners alone.
Quiet(c) ==
  /\ Users' = Users
  /\ faults \subseteq faults'
  /\ banned' \subseteq banned \cup (IF Active(c) THEN {Login(c)} ELSE {})
  /\ \A l \in Logins : identity[l] # NoEmail => identity'[l] # NoEmail
  /\ pc'[c] # "idle" => \/ call'[c].login \in Users \cup {NoLogin}
                        \/ Active(c) /\ call'[c].login = Login(c)
  /\ pc'[c] \notin {"persist", "removeIdentity"}
  /\ pc'[c] = "unprovision" => \/ "commitAnswer" \in faults'
                               \/ pc[c] = "persist" /\ call'[c] = call[c] /\ banned' = banned

LEMMA QuietStep ==
  ASSUME IInv, NEW c \in Callers, Kept(c), CallInv', Quiet(c)
  PROVE  OwnerInv' /\ UserHasIdentity'
<1>1. UserHasIdentity'
  BY DEF IInv, Quiet, UserHasIdentity, Users
<1>2. \A d \in Callers : /\ CallOK(pc[d], call[d])
                         /\ pc[d] = "persist" => Owned(d) /\ identity[Login(d)] # NoEmail
                         /\ pc[d] = "unprovision" /\ "commitAnswer" \notin faults => Owned(d)
                         /\ pc[d] = "removeIdentity" => Login(d) \notin Users
  BY DEF IInv, OwnerInv, CallInv
<1>3. ASSUME NEW d \in Callers \ {c}, Owned(d), pc[d] \in {"persist", "unprovision"}
      PROVE  Owned(d)'
  <2>1. Login(d) \in Logins /\ Login(d) # NoLogin /\ Login(d)' = Login(d)
    BY <1>2, <1>3, NullsAssumption DEF CallOK, Login, Kept
  <2>2. Active(c) => Login(c) # Login(d)
    BY <1>3 DEF Owned
  <2>3. Login(d) \notin Users' \cup banned'
    BY <1>3, <2>2 DEF Owned, Quiet
  <2>4. Active(c)' => Login(c)' # Login(d)
    BY <1>3, <2>1, <2>2 DEF Owned, Quiet, Active, Login
  <2>5. \A b \in Callers \ {c, d} : Active(b)' => Login(b)' # Login(d)
    BY <1>3 DEF Owned, Kept, Active, Login
  <2> QED
    BY <2>1, <2>3, <2>4, <2>5 DEF Owned
<1>4. ASSUME NEW d \in Callers \ {c}
      PROVE  /\ (pc[d] = "persist" => Owned(d) /\ identity[Login(d)] # NoEmail)'
             /\ (pc[d] = "unprovision" /\ "commitAnswer" \notin faults => Owned(d))'
             /\ (pc[d] = "removeIdentity" => Login(d) \notin Users)'
  BY <1>2, <1>3, <1>4 DEF CallOK, Login, Kept, Quiet
<1>5. ASSUME pc[c] = "persist", call'[c] = call[c], banned' = banned
      PROVE  Owned(c)'
  BY <1>2, <1>5 DEF Owned, Quiet, Kept, Active, Login
<1>6. (pc[c] = "unprovision" /\ "commitAnswer" \notin faults => Owned(c))'
  BY <1>5 DEF Quiet
<1> QED
  BY <1>1, <1>4, <1>6 DEF OwnerInv, Quiet

\* The steps that are quiet.
LEMMA BeginQuiet ==
  ASSUME IInv, NEW c \in Callers, Begin(c)
  PROVE  Quiet(c)
<1>0. TypeOK /\ LinkInv
  BY DEF IInv
<1>1. \A s \in Steps : \A k : Start(c, s, k) => pc'[c] = s /\ call'[c] = k
  BY <1>0 DEF Start, TypeOK
<1>2. identity' = identity /\ banned' = banned /\ user' = user /\ faults' = faults
  BY DEF Begin, StartCreateUser, InsertWorker, StartRemoveUser, StartLockUser, StartUpdateUser,
         StartUpdateWorker, stores, marks
<1>3. Users' = Users
  BY <1>2 DEF Users
<1> DEFINE From(l) == \E s \in {"provision", "lookup", "removeRow", "ban", "updateRow", "syncLogin", "workerRow"} :
                        \E k : Start(c, s, k) /\ k.login = l
<1>4. \E l \in Users \cup {NoLogin} : From(l)
  <2>1. ASSUME NEW e \in Emails, StartCreateUser(c, e) \/ InsertWorker(c, e)
        PROVE  From(NoLogin)
    <3>1. CASE StartCreateUser(c, e)
      BY <3>1 DEF StartCreateUser
    <3>2. CASE InsertWorker(c, e)
      BY <3>2 DEF InsertWorker
    <3> QED
      BY <2>1, <3>1, <3>2
  <2>2. ASSUME NEW l \in Logins, NEW e \in Emails \cup {Keep}, NEW b \in BOOLEAN \cup {Keep},
               StartRemoveUser(c, l) \/ StartLockUser(c, l, b) \/ StartUpdateUser(c, l, e, b)
        PROVE  l \in Users /\ From(l)
    <3>1. CASE StartRemoveUser(c, l)
      BY <3>1 DEF StartRemoveUser
    <3>2. CASE StartLockUser(c, l, b)
      BY <3>2 DEF StartLockUser
    <3>3. CASE StartUpdateUser(c, l, e, b)
      <4>1. PICK s \in {"ban", "updateRow"} :
              Start(c, s, [op |-> "updateUser", email |-> e, login |-> l,
                           worker |-> NoWorker, lock |-> b])
        BY <3>3 DEF StartUpdateUser
      <4> QED
        BY <3>3, <4>1 DEF StartUpdateUser
    <3> QED
      BY <2>2, <3>1, <3>2, <3>3
  <2>3. ASSUME NEW w \in Workers, NEW e \in Emails, StartUpdateWorker(c, w, e)
        PROVE  worker[w].login \in Users \cup {NoLogin} /\ From(worker[w].login)
    BY <1>0, <2>3 DEF StartUpdateWorker, LinkInv
  <2> HIDE DEF From
  <2> QED
    BY <2>1, <2>2, <2>3 DEF Begin
<1> QED
  BY <1>1, <1>2, <1>3, <1>4 DEF Quiet, Steps

Quieter(c) ==
  \/ LookupEmail(c) \/ ProvisionFails(c) \/ ProvisionUnanswered(c)
  \/ PersistFails(c) \/ UnprovisionFails(c) \/ DropWorker(c) \/ DropWorkerFails(c)
  \/ RemoveIdentityFails(c) \/ Ban(c) \/ UpdateRow(c) \/ SyncLogin(c) \/ WorkerRow(c)
  \/ Refused(c) \/ Crash(c)

LEMMA ProceedQuiet ==
  ASSUME IInv, NEW c \in Callers, Quieter(c)
  PROVE  Quiet(c)
<1>0. TypeOK /\ CallInv /\ CallOK(pc[c], call[c])
  BY DEF IInv, CallInv
<1>1. Active(c) /\ faults \subseteq faults'
  BY DEF Quieter, LookupEmail, ProvisionFails, ProvisionUnanswered, PersistFails,
         UnprovisionFails, DropWorker, DropWorkerFails, RemoveIdentityFails, Ban, UpdateRow,
         SyncLogin, WorkerRow, Refused, Crash, Active, marks
<1>2. Users' = Users
  <2>1. CASE UpdateRow(c) \/ SyncLogin(c)
    BY <1>0, <2>1, EditedUser
  <2>2. CASE ~(UpdateRow(c) \/ SyncLogin(c))
    BY <2>2 DEF Quieter, LookupEmail, ProvisionFails, ProvisionUnanswered, PersistFails,
                UnprovisionFails, DropWorker, DropWorkerFails, RemoveIdentityFails, Ban,
                WorkerRow, Refused, Crash, marks, stores, Users
  <2> QED
    BY <2>1, <2>2
<1>3. banned' \subseteq banned \cup {Login(c)} /\ (~Ban(c) => banned' = banned)
  BY DEF Quieter, LookupEmail, ProvisionFails, ProvisionUnanswered, PersistFails,
         UnprovisionFails, DropWorker, DropWorkerFails, RemoveIdentityFails, Ban, UpdateRow,
         SyncLogin, WorkerRow, Refused, Crash, marks, stores
<1>4. \A l \in Logins : identity[l] # NoEmail => identity'[l] # NoEmail
  <2>1. CASE ProvisionUnanswered(c)
    BY <1>0, <2>1, NullsAssumption DEF ProvisionUnanswered, TypeOK, FreshLogins
  <2>2. CASE ~ProvisionUnanswered(c)
    BY <2>2 DEF Quieter, LookupEmail, ProvisionFails, PersistFails,
                UnprovisionFails, DropWorker, DropWorkerFails, RemoveIdentityFails, Ban, UpdateRow,
                SyncLogin, WorkerRow, Refused, Crash, marks, stores
  <2> QED
    BY <2>1, <2>2
<1>5. /\ pc'[c] \in {"idle", "provision", "dropWorker", "unprovision", "updateRow", "workerRow"}
      /\ pc'[c] # "idle" => call'[c] = call[c]
      /\ pc'[c] = "unprovision" => pc[c] = "persist" /\ ~Ban(c)
  BY <1>0 DEF Quieter, LookupEmail, ProvisionFails, ProvisionUnanswered, PersistFails,
         UnprovisionFails, DropWorker, DropWorkerFails, RemoveIdentityFails, Ban, UpdateRow,
         SyncLogin, WorkerRow, Refused, Crash, AfterUndo, Goto, Return, TypeOK
<1> QED
  BY <1>1, <1>2, <1>3, <1>4, <1>5 DEF Quiet, Login

-----------------------------------------------------------------------------
\* The steps that are not.
LEMMA CallerFacts ==
  ASSUME IInv, NEW d \in Callers
  PROVE  /\ CallOK(pc[d], call[d])
         /\ pc[d] = "persist" => Owned(d) /\ identity[Login(d)] # NoEmail
         /\ pc[d] = "unprovision" /\ "commitAnswer" \notin faults => Owned(d)
         /\ pc[d] = "removeIdentity" => Login(d) \notin Users
         /\ pc[d] \in {"persist", "unprovision", "removeIdentity"} => Login(d) \in Logins /\ Login(d) # NoLogin
BY NullsAssumption DEF IInv, CallInv, OwnerInv, CallOK, Login

\* A new identity belongs to the call that created it.
LEMMA ProvisionOwner ==
  ASSUME IInv, NEW c \in Callers, Provision(c), Kept(c)
  PROVE  OwnerInv' /\ UserHasIdentity'
<1>0. TypeOK /\ LinkInv
  BY DEF IInv
<1>1. PICK l \in FreshLogins : /\ identity' = [identity EXCEPT ![l] = call[c].email]
                               /\ call'[c].login = l
                               /\ pc'[c] = "persist"
  <2>1. PICK l \in FreshLogins : /\ identity' = [identity EXCEPT ![l] = call[c].email]
                                 /\ call' = [call EXCEPT ![c].login = l]
    BY DEF Provision
  <2>2. call[c] \in Call /\ pc'[c] = "persist"
    BY <1>0, CallerFacts DEF Provision, TypeOK, CallOK
  <2>3. call'[c] = [call[c] EXCEPT !.login = l]
    BY <1>0, <2>1 DEF TypeOK
  <2>4. call'[c].login = l
    BY <2>2, <2>3 DEF Call
  <2> QED
    BY <2>1, <2>2, <2>4
<1>2. /\ l \in Logins /\ l \notin Users /\ identity[l] = NoEmail
      /\ \A d \in Callers : Active(d) => Login(d) # l
      /\ call[c].email \in Emails
  BY <1>1, CallerFacts DEF FreshLogins, Active, Provision, CallOK
<1>3. l \notin banned
  BY <1>0, <1>2 DEF LinkInv, TypeOK
<1>4. /\ user' = user /\ banned' = banned /\ faults' = faults /\ Users' = Users
      /\ Active(c) /\ Login(c)' = l
  BY <1>1 DEF Provision, marks, Users, Active, Login
<1>5. \A k \in Logins : identity[k] # NoEmail \/ k = l => identity'[k] # NoEmail
  BY <1>0, <1>1, <1>2, NullsAssumption DEF TypeOK
<1>6. Owned(c)'
  BY <1>2, <1>3, <1>4 DEF Owned, Kept, Active, Login
<1>7. ASSUME NEW d \in Callers \ {c}, Owned(d), Active(d)
      PROVE  Owned(d)'
  BY <1>2, <1>4, <1>7 DEF Owned, Kept, Active, Login
<1>8. UserHasIdentity'
  BY <1>4, <1>5 DEF IInv, UserHasIdentity, Users
<1>9. ASSUME NEW d \in Callers
      PROVE  /\ (pc[d] = "persist" => Owned(d) /\ identity[Login(d)] # NoEmail)'
             /\ (pc[d] = "unprovision" /\ "commitAnswer" \notin faults => Owned(d))'
             /\ (pc[d] = "removeIdentity" => Login(d) \notin Users)'
  <2>1. CASE d = c
    BY <1>1, <1>2, <1>4, <1>5, <1>6, <2>1
  <2>2. CASE d # c
    BY <1>4, <1>5, <1>7, <2>2, CallerFacts DEF Kept, Login, Active
  <2> QED
    BY <2>1, <2>2
<1> QED
  BY <1>8, <1>9 DEF OwnerInv

\* The User is the owner's, who lets go of the login or no longer answers for it.
LEMMA PersistOwner ==
  ASSUME IInv, NEW c \in Callers, Persist(c) \/ PersistUnanswered(c), Kept(c)
  PROVE  OwnerInv' /\ UserHasIdentity' /\ Users' = Users \cup {Login(c)}
<1>0. TypeOK /\ CallInv
  BY DEF IInv
<1>1. pc[c] = "persist" /\ identity' = identity /\ banned' = banned /\ faults \subseteq faults'
  BY DEF Persist, PersistUnanswered, marks
<1>2. user' = NewUser(c)
  BY DEF Persist, PersistUnanswered, PersistUser, LinkWorker
<1>3. Users' = Users \cup {Login(c)} /\ Login(c) \in Logins
  BY <1>0, <1>1, <1>2, NewUserType, NullsAssumption DEF Users
<1>4. Owned(c) /\ identity[Login(c)] # NoEmail
  BY <1>1, CallerFacts
<1>5. UserHasIdentity'
  BY <1>1, <1>3, <1>4 DEF IInv, UserHasIdentity
<1>6. /\ pc'[c] \in {"idle", "unprovision"}
      /\ pc'[c] = "unprovision" => "commitAnswer" \in faults'
      /\ pc'[c] # "idle" => call'[c] = call[c]
  BY <1>0 DEF Persist, PersistUnanswered, Return, Goto, TypeOK
<1>7. ASSUME NEW d \in Callers \ {c}, Owned(d), Active(d)
      PROVE  Owned(d)'
  BY <1>1, <1>3, <1>4, <1>6, <1>7 DEF Owned, Kept, Active, Login
<1>8. ASSUME NEW d \in Callers
      PROVE  /\ (pc[d] = "persist" => Owned(d) /\ identity[Login(d)] # NoEmail)'
             /\ (pc[d] = "unprovision" /\ "commitAnswer" \notin faults => Owned(d))'
             /\ (pc[d] = "removeIdentity" => Login(d) \notin Users)'
  <2>1. CASE d = c
    BY <1>6, <2>1
  <2>2. CASE d # c
    BY <1>1, <1>3, <1>4, <1>7, <2>2, CallerFacts DEF Kept, Login, Active, Owned
  <2> QED
    BY <2>1, <2>2
<1> QED
  BY <1>3, <1>5, <1>8 DEF OwnerInv

\* An identity goes that has no User, or whose User the database was not heard about.
LEMMA EraseOwner ==
  ASSUME IInv, NEW c \in Callers, Unprovision(c) \/ RemoveIdentity(c), Kept(c)
  PROVE  OwnerInv' /\ UserHasIdentity'
<1>0. TypeOK /\ CallInv
  BY DEF IInv
<1>1. /\ pc[c] \in {"unprovision", "removeIdentity"}
      /\ identity' = [identity EXCEPT ![Login(c)] = NoEmail]
      /\ banned' = banned \ {Login(c)}
      /\ user' = user /\ faults' = faults /\ Users' = Users
  BY DEF Unprovision, RemoveIdentity, marks, Users
<1>2. "commitAnswer" \notin faults => Login(c) \notin Users
  BY <1>1, CallerFacts DEF Owned
<1>3. UserHasIdentity'
  BY <1>0, <1>1, <1>2 DEF IInv, UserHasIdentity, TypeOK, Users
<1>4. pc'[c] \in {"idle", "dropWorker"} /\ (pc'[c] # "idle" => call'[c] = call[c])
  BY <1>0 DEF Unprovision, RemoveIdentity, AfterUndo, Return, Goto, TypeOK
<1>5. ASSUME NEW d \in Callers \ {c}, Owned(d), Active(d)
      PROVE  Owned(d)' /\ Login(c) # Login(d)
  BY <1>1, <1>4, <1>5 DEF Owned, Kept, Active, Login
<1>6. ASSUME NEW d \in Callers
      PROVE  /\ (pc[d] = "persist" => Owned(d) /\ identity[Login(d)] # NoEmail)'
             /\ (pc[d] = "unprovision" /\ "commitAnswer" \notin faults => Owned(d))'
             /\ (pc[d] = "removeIdentity" => Login(d) \notin Users)'
  <2>1. CASE d = c
    BY <1>4, <2>1
  <2>2. CASE d # c
    BY <1>0, <1>1, <1>5, <2>2, CallerFacts DEF Kept, Login, Active, TypeOK
  <2> QED
    BY <2>1, <2>2
<1> QED
  BY <1>3, <1>6 DEF OwnerInv

\* The User goes before its identity.
LEMMA RemoveRowOwner ==
  ASSUME IInv, NEW c \in Callers, RemoveRow(c), Kept(c)
  PROVE  OwnerInv' /\ UserHasIdentity' /\ Users' = Users \ {Login(c)}
<1>0. TypeOK /\ CallInv
  BY DEF IInv
<1>1. /\ pc[c] = "removeRow" /\ Login(c) \in Users
      /\ user' = [user EXCEPT ![Login(c)] = NoUser]
      /\ identity' = identity /\ banned' = banned /\ faults' = faults
      /\ pc'[c] = "removeIdentity" /\ call' = call
  BY <1>0 DEF RemoveRow, Goto, TypeOK
<1>2. Users' = Users \ {Login(c)}
  BY <1>0, <1>1 DEF Users, TypeOK
<1>3. UserHasIdentity'
  BY <1>1, <1>2 DEF IInv, UserHasIdentity
<1>4. ASSUME NEW d \in Callers \ {c}, Owned(d), Active(d)
      PROVE  Owned(d)'
  BY <1>1, <1>2, <1>4 DEF Owned, Kept, Active, Login
<1>5. ASSUME NEW d \in Callers
      PROVE  /\ (pc[d] = "persist" => Owned(d) /\ identity[Login(d)] # NoEmail)'
             /\ (pc[d] = "unprovision" /\ "commitAnswer" \notin faults => Owned(d))'
             /\ (pc[d] = "removeIdentity" => Login(d) \notin Users)'
  <2>1. CASE d = c
    BY <1>1, <1>2, <2>1 DEF Login
  <2>2. CASE d # c
    BY <1>1, <1>2, <1>4, <2>2, CallerFacts DEF Kept, Login, Active
  <2> QED
    BY <2>1, <2>2
<1> QED
  BY <1>2, <1>3, <1>5 DEF OwnerInv

-----------------------------------------------------------------------------
LEMMA OwnerStep ==
  ASSUME IInv, NEW c \in Callers, Begin(c) \/ Proceed(c)
  PROVE  OwnerInv' /\ UserHasIdentity'
BY StepCalls, QuietStep, BeginQuiet, ProceedQuiet, ProvisionOwner, PersistOwner, EraseOwner,
   RemoveRowOwner DEF Proceed, Quieter

\* A Worker points to a User, and a ban to an identity.
LEMMA LinkStep ==
  ASSUME IInv, NEW c \in Callers, Begin(c) \/ Proceed(c)
  PROVE  LinkInv'
<1>0. TypeOK /\ CallInv /\ LinkInv /\ CallOK(pc[c], call[c])
  BY DEF IInv, CallInv
<1>1. \A w \in Present' : worker'[w].login \in Users' \cup {NoLogin}
  <2>1. ASSUME Users' = Users, \A w \in Present' : w \in Present /\ worker'[w].login = worker[w].login
        PROVE  \A w \in Present' : worker'[w].login \in Users' \cup {NoLogin}
    BY <1>0, <2>1 DEF LinkInv
  <2>2. ASSUME NEW e \in Emails, InsertWorker(c, e)
        PROVE  \A w \in Present' : worker'[w].login \in Users' \cup {NoLogin}
    <3>1. PICK w \in Workers : worker' = [worker EXCEPT ![w] = [email |-> e, login |-> NoLogin]]
      BY <2>2 DEF InsertWorker, FreshWorkers
    <3>2. Users' = Users
      BY <2>2 DEF InsertWorker, Users
    <3> QED
      BY <1>0, <3>1, <3>2 DEF LinkInv, Present, TypeOK
  <2>3. ASSUME worker' = worker, Quieter(c) \/ Begin(c)
        PROVE  \A w \in Present' : worker'[w].login \in Users' \cup {NoLogin}
    BY <2>1, <2>3, BeginQuiet, ProceedQuiet DEF Quiet, Present
  <2>4. CASE Persist(c) \/ PersistUnanswered(c)
    <3>1. Users' = Users \cup {Login(c)}
      BY <2>4, StepCalls, PersistOwner
    <3>2. \A w \in Present' : w \in Present /\ worker'[w].login \in {worker[w].login, Login(c)}
      <4>1. CASE worker' = worker
        BY <4>1 DEF Present
      <4>2. CASE LinkWorker(c)
        <5>1. worker[Wkr(c)] \in Worker /\ Wkr(c) \in Present
          BY <1>0, <4>2 DEF LinkWorker, Present, TypeOK
        <5> QED
          BY <1>0, <4>2, <5>1 DEF LinkWorker, Present, TypeOK, Worker
      <4> QED
        BY <2>4, <4>1, <4>2 DEF Persist, PersistUnanswered, PersistUser
    <3> QED
      BY <1>0, <3>1, <3>2 DEF LinkInv
  <2>5. CASE RemoveRow(c)
    <3>1. Users' = Users \ {Login(c)}
      BY <2>5, StepCalls, RemoveRowOwner
    <3>2. ASSUME NEW w \in Present'
          PROVE  worker'[w].login \in (Users \ {Login(c)}) \cup {NoLogin}
      <4>1. w \in Workers /\ worker'[w] # NoWorker
        BY <3>2 DEF Present
      <4>2. /\ w \in Present /\ worker[w].login = Login(c) =>
                 worker'[w] = [worker[w] EXCEPT !.login = NoLogin]
            /\ ~(w \in Present /\ worker[w].login = Login(c)) => worker'[w] = worker[w]
        BY <2>5, <4>1 DEF RemoveRow
      <4>3. w \in Present /\ worker[w] \in Worker
        BY <1>0, <4>1, <4>2 DEF Present, TypeOK
      <4> QED
        BY <1>0, <4>2, <4>3 DEF LinkInv, Worker
    <3> QED
      BY <3>1, <3>2
  <2>6. CASE DropWorker(c)
    BY <1>0, <2>1, <2>6, ProceedQuiet DEF Quiet, Quieter, DropWorker, Present, TypeOK
  <2>7. CASE WorkerRow(c)
    <3>1. worker[Wkr(c)] \in Worker /\ Wkr(c) \in Present
      BY <1>0, <2>7 DEF WorkerRow, Present, TypeOK
    <3>2. \A w \in Present' : w \in Present /\ worker'[w].login = worker[w].login
      BY <1>0, <2>7, <3>1 DEF WorkerRow, Present, TypeOK, Worker
    <3> QED
      BY <2>1, <2>7, <3>2, ProceedQuiet DEF Quiet, Quieter
  <2>8. CASE Provision(c) \/ Unprovision(c) \/ RemoveIdentity(c)
    BY <2>1, <2>8 DEF Provision, Unprovision, RemoveIdentity, Users, Present
  <2>9. CASE /\ Quieter(c) /\ ~DropWorker(c) /\ ~WorkerRow(c)
    BY <2>3, <2>9 DEF Quieter, LookupEmail, ProvisionFails, ProvisionUnanswered, PersistFails,
         UnprovisionFails, DropWorkerFails, RemoveIdentityFails, Ban, UpdateRow,
         SyncLogin, Refused, Crash, marks, stores
  <2>10. CASE Begin(c) /\ ~\E e \in Emails : InsertWorker(c, e)
    BY <2>3, <2>10 DEF Begin, StartCreateUser, StartRemoveUser, StartLockUser, StartUpdateUser,
         StartUpdateWorker, stores
  <2> QED
    BY <2>2, <2>4, <2>5, <2>6, <2>7, <2>8, <2>9, <2>10 DEF Proceed, Quieter
<1>2. \A l \in banned' : identity'[l] # NoEmail
  <2>1. CASE Quieter(c) \/ Begin(c)
    <3>1. \A l \in Logins : identity[l] # NoEmail => identity'[l] # NoEmail
      BY <2>1, BeginQuiet, ProceedQuiet DEF Quiet
    <3>2. banned' = banned \/ Ban(c)
      BY <2>1 DEF Quieter, LookupEmail, ProvisionFails, ProvisionUnanswered, PersistFails,
         UnprovisionFails, DropWorker, DropWorkerFails, RemoveIdentityFails, UpdateRow,
         SyncLogin, WorkerRow, Refused, Crash, Begin, StartCreateUser, InsertWorker,
         StartRemoveUser, StartLockUser, StartUpdateUser, StartUpdateWorker, marks, stores
    <3>3. CASE Ban(c)
      BY <1>0, <3>3 DEF Ban, LinkInv
    <3> QED
      BY <1>0, <3>1, <3>2, <3>3 DEF LinkInv, TypeOK
  <2>2. CASE Provision(c)
    BY <1>0, <2>2, NullsAssumption DEF Provision, LinkInv, TypeOK, CallOK, FreshLogins
  <2>3. CASE Persist(c) \/ PersistUnanswered(c) \/ RemoveRow(c)
    BY <1>0, <2>3 DEF Persist, PersistUnanswered, RemoveRow, LinkInv
  <2>4. CASE Unprovision(c) \/ RemoveIdentity(c)
    BY <1>0, <2>4 DEF Unprovision, RemoveIdentity, LinkInv, TypeOK
  <2> QED
    BY <2>1, <2>2, <2>3, <2>4 DEF Proceed, Quieter
<1> QED
  BY <1>1, <1>2 DEF LinkInv

LEMMA CallerInv ==
  ASSUME IInv, NEW c \in Callers, Begin(c) \/ Proceed(c)
  PROVE  IInv'
<1>1. TypeOK'
  BY StepCalls, StepStores DEF TypeOK
<1> QED
  BY <1>1, StepCalls, OwnerStep, LinkStep DEF IInv

\* A Worker is deleted, its login stays.
LEMMA RemoveWorkerInv ==
  ASSUME IInv, NEW w \in Workers, RemoveWorker(w)
  PROVE  IInv'
<1>0. TypeOK /\ LinkInv
  BY DEF IInv
<1>1. /\ worker' = [worker EXCEPT ![w] = NoWorker] /\ unlinked' \in SUBSET Workers
      /\ UNCHANGED <<identity, banned, user, pc, call, faults, unsynced>>
  BY <1>0 DEF RemoveWorker, TypeOK
<1>2. TypeOK'
  BY <1>0, <1>1 DEF TypeOK
<1>3. LinkInv'
  BY <1>0, <1>1 DEF LinkInv, Present, Users, TypeOK
<1>4. CallInv' /\ OwnerInv' /\ UserHasIdentity'
  BY <1>1 DEF IInv, CallInv, CallOK, OwnerInv, Owned, UserHasIdentity, Users, Active, Login
<1> QED
  BY <1>2, <1>3, <1>4 DEF IInv

LEMMA StepInv == IInv /\ [Next]_vars => IInv'
<1> SUFFICES ASSUME IInv, [Next]_vars PROVE IInv'
  OBVIOUS
<1>1. CASE UNCHANGED vars
  BY <1>1 DEF vars, IInv, TypeOK, CallInv, CallOK, LinkInv, OwnerInv, Owned, UserHasIdentity,
              Users, Present, Active, Login
<1> QED
  BY <1>1, CallerInv, RemoveWorkerInv DEF Next

LEMMA Invariance == Spec => []IInv
BY InitInv, StepInv, PTL DEF Spec

\* Every value the stores and the calls take is of its type: ids of the rows that
\* exist, and locals that the step a call is at needs.
THEOREM TypeCorrect == Spec => []TypeOK
BY Invariance, PTL DEF IInv

\* UsersService.create and remove, WorkersService.create: whatever overlapped, crashed
\* or could not be undone, a User row has the identity it signs in with, unless the
\* answer to a commit was lost.
THEOREM UsersHaveIdentities == Spec => []UserHasIdentity
BY Invariance, PTL DEF IInv

-----------------------------------------------------------------------------
(* What a creation and a removal owe.                                      *)
Owes(c, l)    == pc[c] \in {"persist", "unprovision", "removeIdentity"} /\ Login(c) = l
Creates(c, w) == Active(c) /\ Op(c) = "createWorker" /\ Wkr(c) = w

LEMMA SettledIdentities ==
  ASSUME IInv, AllOrNothing, NEW c \in Callers, Begin(c) \/ Proceed(c), faults' = {},
         NEW l \in Logins, identity'[l] # NoEmail
  PROVE  l \in Users' \/ Settling(l)'
<1>0. /\ TypeOK /\ CallInv /\ CallOK(pc[c], call[c]) /\ Kept(c)
      /\ Login(c)' = call'[c].login
  BY StepCalls DEF IInv, CallInv, Login
<1>1. faults = {}
  BY DEF Begin, StartCreateUser, InsertWorker, StartRemoveUser, StartLockUser, StartUpdateUser,
         StartUpdateWorker, Proceed, LookupEmail, Provision, ProvisionFails, ProvisionUnanswered,
         Persist, PersistFails, PersistUnanswered, Unprovision, UnprovisionFails, DropWorker,
         DropWorkerFails, RemoveRow, RemoveIdentity, RemoveIdentityFails, Ban, UpdateRow,
         SyncLogin, WorkerRow, Refused, Crash, marks
<1>2. ASSUME NEW d \in Callers, Owes(d, l)'
      PROVE  Settling(l)'
  BY <1>2 DEF Owes, Settling, Login
<1>3. ASSUME NEW d \in Callers \ {c}, Owes(d, l)
      PROVE  Settling(l)'
  BY <1>0, <1>2, <1>3 DEF Owes, Kept, Login
<1>4. CASE Provision(c)
  <2>1. PICK k \in FreshLogins : /\ identity' = [identity EXCEPT ![k] = call[c].email]
                                 /\ call' = [call EXCEPT ![c].login = k]
    BY <1>4 DEF Provision
  <2>2. call[c] \in Call /\ pc[c] = "provision" /\ pc'[c] = "persist" /\ Users' = Users
    BY <1>0, <1>4 DEF Provision, TypeOK, CallOK, Users
  <2>3. Owes(c, k)'
    <3>1. call'[c] = [call[c] EXCEPT !.login = k]
      BY <1>0, <2>1 DEF TypeOK
    <3>2. call'[c].login = k
      BY <2>2, <3>1 DEF Call
    <3> QED
      BY <2>2, <3>2 DEF Owes, Login
  <2>4. CASE l = k
    BY <1>2, <2>3, <2>4
  <2>5. CASE l # k
    <3>1. identity[l] # NoEmail
      BY <1>0, <2>1, <2>5 DEF TypeOK
    <3> QED
      BY <1>1, <1>3, <2>2, <3>1 DEF AllOrNothing, Settling, Owes
  <2> QED
    BY <2>4, <2>5
<1>5. ASSUME ~Provision(c)
      PROVE  identity[l] # NoEmail
  <2>1. identity' = identity \/ identity' = [identity EXCEPT ![Login(c)] = NoEmail]
    BY <1>5 DEF Begin, StartCreateUser, InsertWorker, StartRemoveUser, StartLockUser, StartUpdateUser,
         StartUpdateWorker, Proceed, LookupEmail, ProvisionFails, ProvisionUnanswered,
         Persist, PersistFails, PersistUnanswered, Unprovision, UnprovisionFails, DropWorker,
         DropWorkerFails, RemoveRow, RemoveIdentity, RemoveIdentityFails, Ban, UpdateRow,
         SyncLogin, WorkerRow, Refused, Crash, stores
  <2> QED
    BY <1>0, <2>1 DEF TypeOK
<1>6. CASE ~Provision(c) /\ l \in Users
  <2>1. CASE RemoveRow(c) /\ Login(c) = l
    BY <1>0, <1>2, <2>1 DEF RemoveRow, Goto, Owes, TypeOK, Login
  <2>2. CASE RemoveRow(c) /\ Login(c) # l
    BY <1>0, <1>6, <2>2 DEF RemoveRow, Users, TypeOK
  <2>3. CASE ~RemoveRow(c)
    <3>1. CASE Begin(c) \/ Quieter(c)
      BY <1>6, <3>1, BeginQuiet, ProceedQuiet DEF Quiet
    <3>2. CASE Persist(c) \/ PersistUnanswered(c)
      BY <1>0, <1>6, <3>2, PersistOwner
    <3>3. CASE Unprovision(c) \/ RemoveIdentity(c)
      BY <1>6, <3>3 DEF Unprovision, RemoveIdentity, Users
    <3> QED
      BY <1>6, <2>3, <3>1, <3>2, <3>3 DEF Proceed, Quieter
  <2> QED
    BY <2>1, <2>2, <2>3
<1>7. CASE ~Provision(c) /\ l \notin Users
  <2>1. PICK d \in Callers : Owes(d, l)
    BY <1>1, <1>5, <1>7 DEF AllOrNothing, Settling, Owes
  <2>2. CASE d # c
    BY <1>3, <2>1, <2>2
  <2>3. CASE d = c
    <3>1. Login(c) = l /\ pc[c] \in {"persist", "unprovision", "removeIdentity"}
      BY <2>1, <2>3 DEF Owes
    <3>2. \/ Persist(c) \/ PersistUnanswered(c) \/ PersistFails(c) \/ Unprovision(c)
          \/ UnprovisionFails(c) \/ RemoveIdentity(c) \/ RemoveIdentityFails(c) \/ Crash(c)
      BY <1>7, <3>1 DEF Begin, StartCreateUser, InsertWorker, StartRemoveUser, StartLockUser,
         StartUpdateUser, StartUpdateWorker, Start, Proceed, LookupEmail, ProvisionFails,
         ProvisionUnanswered, DropWorker, DropWorkerFails, RemoveRow, Ban, UpdateRow,
         SyncLogin, WorkerRow, Refused
    <3>3. CASE Persist(c)
      BY <1>0, <3>1, <3>3, PersistOwner
    <3>4. CASE PersistFails(c)
      BY <1>0, <1>2, <3>1, <3>4 DEF PersistFails, Goto, TypeOK, Owes, Login
    <3>5. CASE Unprovision(c) \/ RemoveIdentity(c)
      BY <1>0, <3>1, <3>5 DEF Unprovision, RemoveIdentity, TypeOK
    <3> QED
      BY <3>2, <3>3, <3>4, <3>5 DEF PersistUnanswered, UnprovisionFails, RemoveIdentityFails, Crash
  <2> QED
    BY <2>2, <2>3
<1> QED
  BY <1>4, <1>6, <1>7

LEMMA LinkedWorkers ==
  ASSUME IInv, AllOrNothing, NEW c \in Callers, Begin(c) \/ Proceed(c), faults' = {},
         NEW w \in Present', worker'[w].login = NoLogin
  PROVE  Creating(w)' \/ w \in unlinked'
<1>0. /\ TypeOK /\ CallInv /\ CallOK(pc[c], call[c]) /\ Kept(c)
      /\ w \in Workers /\ worker'[w] # NoWorker
  BY StepCalls DEF IInv, CallInv, Present
<1>1. ASSUME NEW d \in Callers, Creates(d, w)'
      PROVE  Creating(w)'
  BY <1>1 DEF Creates, Creating, Active, Op, Wkr
<1>2. ASSUME NEW d \in Callers \ {c}, Creates(d, w)
      PROVE  Creating(w)'
  BY <1>0, <1>1, <1>2 DEF Creates, Kept, Active, Op, Wkr
<1>3. CASE \E e \in Emails : InsertWorker(c, e)
  <2>1. PICK e \in Emails, v \in FreshWorkers :
          /\ Start(c, "lookup", [op |-> "createWorker", email |-> e, login |-> NoLogin,
                                 worker |-> v, lock |-> Keep])
          /\ worker' = [worker EXCEPT ![v] = [email |-> e, login |-> NoLogin]]
          /\ unlinked' = unlinked \ {v} /\ faults' = faults
    BY <1>3 DEF InsertWorker
  <2>2. CASE w = v
    BY <1>0, <1>1, <2>1, <2>2 DEF Start, Creates, Active, Op, Wkr, TypeOK
  <2>3. CASE w # v
    <3>1. worker'[w] = worker[w] /\ w \in Present /\ pc[c] = "idle"
      BY <1>0, <2>1, <2>3 DEF TypeOK, Present, FreshWorkers, Start
    <3> QED
      BY <1>2, <2>1, <2>3, <3>1 DEF AllOrNothing, Creating, Creates, Active
  <2> QED
    BY <2>2, <2>3
<1>4. CASE RemoveRow(c) /\ w \in Present /\ worker[w].login = Login(c)
  BY <1>4 DEF RemoveRow
<1>5. ASSUME ~(\E e \in Emails : InsertWorker(c, e)),
             ~(RemoveRow(c) /\ w \in Present /\ worker[w].login = Login(c))
      PROVE  Creating(w)' \/ w \in unlinked'
  <2>1. faults = {}
    BY <1>5 DEF Begin, StartCreateUser, StartRemoveUser, StartLockUser, StartUpdateUser,
         StartUpdateWorker, Proceed, LookupEmail, Provision, ProvisionFails, ProvisionUnanswered,
         Persist, PersistFails, PersistUnanswered, Unprovision, UnprovisionFails, DropWorker,
         DropWorkerFails, RemoveRow, RemoveIdentity, RemoveIdentityFails, Ban, UpdateRow,
         SyncLogin, WorkerRow, Refused, Crash, marks
  <2>2. w \in Present /\ worker[w].login = NoLogin /\ (w \in unlinked => w \in unlinked')
    <3>1. CASE RemoveRow(c)
      BY <1>0, <1>5, <3>1 DEF RemoveRow, Present
    <3>2. CASE DropWorker(c)
      BY <1>0, <3>2 DEF DropWorker, Present, TypeOK
    <3>3. CASE WorkerRow(c)
      <4>1. worker[Wkr(c)] \in Worker /\ Wkr(c) \in Workers
        BY <1>0, <3>3 DEF WorkerRow, Present, TypeOK
      <4> QED
        BY <1>0, <3>3, <4>1 DEF WorkerRow, Present, TypeOK, Worker, marks
    <3>4. CASE LinkWorker(c) /\ unlinked' = unlinked /\ pc[c] = "persist"
      <4>1. worker[Wkr(c)] \in Worker /\ Wkr(c) \in Workers /\ Login(c) # NoLogin
        BY <1>0, <3>4, NullsAssumption DEF LinkWorker, Present, TypeOK, CallOK, Login
      <4> QED
        BY <1>0, <3>4, <4>1 DEF LinkWorker, Present, TypeOK, Worker
    <3>5. CASE worker' = worker /\ unlinked' = unlinked
      BY <1>0, <3>5 DEF Present
    <3> QED
      BY <1>5, <3>1, <3>2, <3>3, <3>4, <3>5
         DEF Begin, StartCreateUser, StartRemoveUser, StartLockUser, StartUpdateUser,
         StartUpdateWorker, Proceed, LookupEmail, Provision, ProvisionFails, ProvisionUnanswered,
         Persist, PersistFails, PersistUnanswered, PersistUser, Unprovision, UnprovisionFails,
         DropWorkerFails, RemoveIdentity, RemoveIdentityFails, Ban, UpdateRow,
         SyncLogin, Refused, Crash, marks, stores
  <2>3. CASE w \in unlinked
    BY <2>2, <2>3
  <2>4. CASE \E d \in Callers \ {c} : Creates(d, w)
    BY <1>2, <2>4
  <2>5. CASE Creates(c, w)
    <3>1. pc[c] \in {"lookup", "provision", "persist", "unprovision", "dropWorker"}
      BY <1>0, <2>5 DEF Creates, CallOK, Op, Active
    <3>2. Op(c) = "createWorker" /\ Wkr(c) = w
      BY <2>5 DEF Creates
    <3>3. ASSUME NEW s \in Steps, Goto(c, s), s # "idle"
          PROVE  Creating(w)'
      BY <1>0, <1>1, <3>2, <3>3 DEF Goto, TypeOK, Creates, Active, Op, Wkr
    <3>4. \/ LookupEmail(c) \/ Provision(c) \/ ProvisionFails(c) \/ Persist(c) \/ PersistFails(c)
          \/ Unprovision(c) \/ DropWorker(c)
      BY <2>1, <3>1 DEF Begin, StartCreateUser, InsertWorker, StartRemoveUser, StartLockUser,
         StartUpdateUser, StartUpdateWorker, Start, Proceed, ProvisionUnanswered,
         PersistUnanswered, UnprovisionFails, DropWorkerFails, RemoveRow, RemoveIdentity,
         RemoveIdentityFails, Ban, UpdateRow, SyncLogin, WorkerRow, Refused, Crash
    <3>5. CASE LookupEmail(c) \/ PersistFails(c)
      BY <3>3, <3>5 DEF LookupEmail, PersistFails, Steps
    <3>6. CASE ProvisionFails(c) \/ Unprovision(c)
      BY <3>2, <3>3, <3>6 DEF ProvisionFails, Unprovision, AfterUndo, Steps
    <3>7. CASE Provision(c)
      <4>1. PICK k \in FreshLogins : call' = [call EXCEPT ![c].login = k]
        BY <3>7 DEF Provision
      <4>2. call[c] \in Call /\ pc'[c] = "persist"
        BY <1>0, <3>7 DEF Provision, TypeOK, CallOK
      <4>3. call'[c] = [call[c] EXCEPT !.login = k]
        BY <1>0, <4>1 DEF TypeOK
      <4>4. Creates(c, w)'
        BY <3>2, <4>2, <4>3 DEF Creates, Active, Op, Wkr, Call
      <4> QED
        BY <1>1, <4>4
    <3>8. CASE Persist(c)
      <4>1. worker[w] \in Worker /\ Login(c) \in Logins
        BY <1>0, <2>2, <3>8 DEF TypeOK, Present, Persist, CallOK, Login
      <4>2. worker'[w].login = Login(c)
        BY <1>0, <3>2, <3>8, <4>1 DEF Persist, PersistUser, LinkWorker, TypeOK, Worker
      <4> QED
        BY <4>1, <4>2, NullsAssumption
    <3>9. CASE DropWorker(c)
      BY <1>0, <3>2, <3>9 DEF DropWorker, TypeOK
    <3> QED
      BY <3>4, <3>5, <3>6, <3>7, <3>8, <3>9
  <2> QED
    BY <2>1, <2>2, <2>3, <2>4, <2>5 DEF AllOrNothing, Creating, Creates, Active
<1> QED
  BY <1>3, <1>4, <1>5

LEMMA AllOrNothingStep ==
  ASSUME IInv, AllOrNothing, [Next]_vars
  PROVE  AllOrNothing'
<1>1. ASSUME NEW c \in Callers, Begin(c) \/ Proceed(c)
      PROVE  AllOrNothing'
  BY <1>1, SettledIdentities, LinkedWorkers DEF AllOrNothing
<1>2. ASSUME NEW w \in Workers, RemoveWorker(w)
      PROVE  AllOrNothing'
  BY <1>2 DEF RemoveWorker, AllOrNothing, Users, Present, Settling, Creating, Login, Op, Wkr,
              IInv, TypeOK
<1>3. CASE UNCHANGED vars
  BY <1>3 DEF vars, AllOrNothing, Users, Present, Settling, Creating, Login, Op, Wkr
<1> QED
  BY <1>1, <1>2, <1>3 DEF Next

-----------------------------------------------------------------------------
(* The lockout and its mirror.                                             *)

\* Clean(l): the lockouts of the user l have neither overlapped nor stopped half-way.
Clean(l) == l \in Users \ unsynced
Mirrors(l) ==
  /\ (\A c \in Callers : Locks(c, l) => pc[c] = "ban") => Mirrored(l)
  /\ \A c \in Callers : Locks(c, l) =>
       /\ \A d \in Callers : Locks(d, l) => d = c
       /\ pc[c] = "updateRow" => call[c].lock = (l \in banned)

\* A caller that has nothing to do with the lockout of l.
LEMMA MirrorsFrame ==
  ASSUME IInv, NEW c \in Callers, Kept(c), NEW l \in Logins, Mirrors(l),
         ~Locks(c, l), ~Locks(c, l)',
         user'[l].isLockedOut = user[l].isLockedOut, l \in banned' <=> l \in banned
  PROVE  Mirrors(l)'
<1>1. \A d \in Callers \ {c} : /\ Locks(d, l)' <=> Locks(d, l)
                               /\ pc'[d] = pc[d] /\ call'[d] = call[d]
  BY DEF Kept, Locks, Active, Login
<1>2. \A d \in Callers : Locks(d, l)' => d # c
  OBVIOUS
<1>3. Mirrored(l)' <=> Mirrored(l)
  BY DEF Mirrored
<1>4. (\A d \in Callers : Locks(d, l) => pc[d] = "ban")' =>
        \A d \in Callers : Locks(d, l) => pc[d] = "ban"
  BY <1>1
<1>5. (\A d \in Callers : Locks(d, l) => pc[d] = "ban")' => Mirrored(l)'
  BY <1>3, <1>4 DEF Mirrors
<1>6. ASSUME NEW d \in Callers, Locks(d, l)'
      PROVE  /\ \A b \in Callers : Locks(b, l)' => b = d
             /\ pc'[d] = "updateRow" => call'[d].lock = (l \in banned')
  <2>1. d # c /\ Locks(d, l)
    BY <1>1, <1>2, <1>6
  <2>2. \A b \in Callers : Locks(b, l)' => Locks(b, l)
    BY <1>1, <1>2
  <2> QED
    BY <1>1, <2>1, <2>2 DEF Mirrors
<1> QED
  BY <1>5, <1>6 DEF Mirrors

\* A caller that becomes the only one to write the lockout of l.
LEMMA MirrorsBegin ==
  ASSUME IInv, NEW c \in Callers, Kept(c), pc[c] = "idle", NEW l \in Logins, Mirrors(l), ~Locking(l),
         user' = user, banned' = banned,
         pc'[c] = "updateRow" => call'[c].lock = user[l].isLockedOut
  PROVE  Mirrors(l)'
<1>1. \A d \in Callers : ~Locks(d, l)
  BY DEF Locking, Locks, Active
<1>2. Mirrored(l)
  BY <1>1 DEF Mirrors
<1>3. \A d \in Callers : Locks(d, l)' => d = c
  BY <1>1 DEF Kept, Locks, Active, Login
<1>4. pc'[c] = "updateRow" => call'[c].lock = (l \in banned')
  BY <1>2 DEF Mirrored
<1>5. Mirrored(l)'
  BY <1>2 DEF Mirrored
<1> QED
  BY <1>3, <1>4, <1>5 DEF Mirrors

LEMMA MirrorsStart ==
  ASSUME IInv, NEW c \in Callers, Begin(c), NEW l \in Logins, Clean(l)', Clean(l) => Mirrors(l)
  PROVE  Mirrors(l)'
<1>0. TypeOK /\ Kept(c)
  BY StepCalls DEF IInv
<1>1. user' = user /\ banned' = banned /\ unsynced \subseteq unsynced' /\ pc[c] = "idle"
  BY DEF Begin, StartCreateUser, InsertWorker, StartRemoveUser, StartLockUser, StartUpdateUser,
         StartUpdateWorker, stores, marks, Overlap, Start
<1>2. Mirrors(l) /\ ~Locks(c, l)
  BY <1>1 DEF Clean, Users, Locks, Active
<1>3. ASSUME ~Locks(c, l)'
      PROVE  Mirrors(l)'
  BY <1>0, <1>1, <1>2, <1>3, MirrorsFrame
<1>4. ASSUME NEW s \in Steps, NEW k, Start(c, s, k), k.lock = Keep \/ k.login # l
      PROVE  ~Locks(c, l)'
  BY <1>0, <1>4 DEF Start, Locks, Active, Login, TypeOK
<1>5. CASE \E b \in BOOLEAN : StartLockUser(c, l, b)
  <2>1. ~Locking(l)
    BY <1>5 DEF StartLockUser, Overlap, Clean
  <2>2. pc'[c] = "ban"
    BY <1>0, <1>5 DEF StartLockUser, Start, TypeOK
  <2> QED
    BY <1>0, <1>1, <1>2, <2>1, <2>2, MirrorsBegin
<1>6. CASE \E e \in Emails \cup {Keep}, b \in BOOLEAN : StartUpdateUser(c, l, e, b)
  <2>1. PICK e \in Emails \cup {Keep}, b \in BOOLEAN : StartUpdateUser(c, l, e, b)
    BY <1>6
  <2>2. ~Locking(l)
    BY <2>1, NullsAssumption DEF StartUpdateUser, Overlap, Clean
  <2>3. /\ pc'[c] = IF b \in BOOLEAN \ {user[l].isLockedOut} THEN "ban" ELSE "updateRow"
        /\ call'[c].lock = b
    BY <1>0, <2>1 DEF StartUpdateUser, Start, TypeOK
  <2>4. pc'[c] = "updateRow" => call'[c].lock = user[l].isLockedOut
    BY <2>3
  <2> QED
    BY <1>0, <1>1, <1>2, <2>2, <2>4, MirrorsBegin
<1>7. ASSUME NEW e \in Emails, StartCreateUser(c, e) \/ InsertWorker(c, e)
      PROVE  ~Locks(c, l)'
  BY <1>4, <1>7 DEF StartCreateUser, InsertWorker, Steps
<1>8. ASSUME NEW k \in Logins, StartRemoveUser(c, k)
      PROVE  ~Locks(c, l)'
  BY <1>4, <1>8 DEF StartRemoveUser, Steps
<1>9. ASSUME NEW w \in Workers, NEW e \in Emails, StartUpdateWorker(c, w, e)
      PROVE  ~Locks(c, l)'
  BY <1>4, <1>9 DEF StartUpdateWorker, Steps
<1>10. ASSUME NEW k \in Logins \ {l}, NEW b \in BOOLEAN, StartLockUser(c, k, b)
       PROVE  ~Locks(c, l)'
  BY <1>4, <1>10 DEF StartLockUser, Steps
<1>11. ASSUME NEW k \in Logins, NEW e \in Emails \cup {Keep}, NEW b \in BOOLEAN \cup {Keep},
              StartUpdateUser(c, k, e, b), k # l \/ b = Keep
       PROVE  ~Locks(c, l)'
  BY <1>4, <1>11 DEF StartUpdateUser, Steps
<1> QED
  BY <1>3, <1>5, <1>6, <1>7, <1>8, <1>9, <1>10, <1>11 DEF Begin

\* A new User is not locked, its identity is not banned, and nobody is about to lock it.
LEMMA MirrorsPersist ==
  ASSUME IInv, NEW c \in Callers, Persist(c), NEW l \in Logins, Clean(l)',
         Clean(l) => Mirrors(l)
  PROVE  Mirrors(l)'
<1>0. /\ TypeOK /\ CallInv /\ Kept(c) /\ CallOK(pc[c], call[c]) /\ pc[c] = "persist"
      /\ Owned(c) /\ pc'[c] = "idle"
  BY StepCalls, CallerFacts DEF IInv, Proceed, Persist, Return, TypeOK
<1>1. user' = NewUser(c) /\ banned' = banned /\ unsynced' = unsynced /\ Login(c) \in Logins
  BY <1>0, NewUserType DEF Persist, PersistUser, LinkWorker, marks
<1>2. ~Locks(c, l) /\ ~Locks(c, l)'
  BY <1>0 DEF Locks, CallOK, Active
<1>3. CASE l = Login(c)
  <2>1. l \notin banned' /\ user'[l].isLockedOut = FALSE
    <3>1. user'[l] = [email |-> call[c].email, isLockedOut |-> FALSE]
      BY <1>0, <1>1, <1>3 DEF NewUser, TypeOK
    <3>2. l \notin banned'
      BY <1>0, <1>1, <1>3 DEF Owned
    <3>3. [email |-> call[c].email, isLockedOut |-> FALSE].isLockedOut = FALSE
      BY Zenon
    <3> QED
      BY <3>1, <3>2, <3>3, Zenon
  <2>2. \A d \in Callers : ~Locks(d, l)'
    BY <1>0, <1>2, <1>3 DEF Owned, Kept, Locks, Active, Login
  <2>3. Mirrored(l)'
    <3>1. (l \in banned') = FALSE
      BY <2>1
    <3> QED
      BY <2>1, <3>1, Zenon DEF Mirrored
  <2> QED
    BY <2>2, <2>3 DEF Mirrors
<1>4. CASE l # Login(c)
  <2>1. user'[l] = user[l]
    BY <1>0, <1>1, <1>4, NewUserType
  <2>2. Clean(l)
    BY <1>1, <2>1 DEF Clean, Users
  <2> QED
    BY <1>0, <1>1, <1>2, <2>1, <2>2, MirrorsFrame
<1> QED
  BY <1>3, <1>4

\* The first write of a lockout: the identity is as the call wants it.
LEMMA MirrorsBan ==
  ASSUME IInv, NEW c \in Callers, Ban(c), NEW l \in Logins, Clean(l)',
         Clean(l) => Mirrors(l)
  PROVE  Mirrors(l)'
<1>0. /\ TypeOK /\ CallInv /\ Kept(c) /\ CallOK(pc[c], call[c])
      /\ pc[c] = "ban" /\ pc'[c] = "updateRow" /\ call' = call
  BY StepCalls, CallerFacts DEF IInv, Proceed, Ban, Goto, TypeOK
<1>1. user' = user /\ Users' = Users /\ Mirrors(l)
  BY DEF Ban, marks, Clean, Users
<1>2. call[c].lock \in BOOLEAN /\ Login(c) \in Logins /\ call[c].lock # Keep
  BY <1>0, NullsAssumption DEF CallOK, Login
<1>3. CASE Login(c) = l
  <2>1. Locks(c, l) /\ Locks(c, l)'
    BY <1>0, <1>2, <1>3 DEF Locks, Active, Login
  <2>2. \A d \in Callers : Locks(d, l)' => d = c
    BY <1>0, <1>1, <2>1 DEF Mirrors, Locks, Kept, Active, Login
  <2>3. call[c].lock <=> l \in banned'
    BY <1>0, <1>2, <1>3 DEF Ban, TypeOK
  <2>4. call'[c].lock = (l \in banned')
    BY <1>0, <1>2, <2>3
  <2> QED
    BY <1>0, <2>1, <2>2, <2>4 DEF Mirrors
<1>4. CASE Login(c) # l
  <2>1. l \in banned' <=> l \in banned
    BY <1>4 DEF Ban
  <2>2. ~Locks(c, l) /\ ~Locks(c, l)'
    BY <1>0, <1>4 DEF Locks, Login
  <2> QED
    BY <1>0, <1>1, <2>1, <2>2, MirrorsFrame
<1> QED
  BY <1>3, <1>4

\* The second write: the row follows.
LEMMA MirrorsUpdateRow ==
  ASSUME IInv, NEW c \in Callers, UpdateRow(c), NEW l \in Logins, Clean(l)',
         Clean(l) => Mirrors(l)
  PROVE  Mirrors(l)'
<1>0. /\ TypeOK /\ CallInv /\ Kept(c) /\ CallOK(pc[c], call[c])
      /\ pc[c] = "updateRow" /\ pc'[c] = "idle"
  BY StepCalls, CallerFacts DEF IInv, Proceed, UpdateRow, Return, TypeOK
<1>1. /\ banned' = banned /\ Users' = Users /\ Mirrors(l)
      /\ Login(c) \in Users /\ Login(c) \in Logins
  BY <1>0, EditedUser DEF UpdateRow, marks, Clean, Users
<1>2. ~Locks(c, l)'
  BY <1>0 DEF Locks, Active
<1>3. CASE Locks(c, l)
  <2>1. Login(c) = l /\ call[c].lock # Keep
    BY <1>3 DEF Locks
  <2>2. user'[l].isLockedOut = call[c].lock
    BY <1>0, <1>1, <2>1 DEF UpdateRow, TypeOK
  <2>3. call[c].lock = (l \in banned)
    BY <1>0, <1>1, <1>3 DEF Mirrors
  <2>4. Mirrored(l)'
    BY <1>1, <2>2, <2>3 DEF Mirrored
  <2>5. \A d \in Callers : ~Locks(d, l)'
    BY <1>0, <1>1, <1>2, <1>3 DEF Mirrors, Locks, Kept, Active, Login
  <2> QED
    BY <2>4, <2>5 DEF Mirrors
<1>4. CASE ~Locks(c, l)
  <2>1. user'[l].isLockedOut = user[l].isLockedOut
    <3>1. CASE Login(c) # l
      BY <1>0, <3>1 DEF UpdateRow, TypeOK
    <3>2. CASE Login(c) = l
      <4>1. call[c].lock = Keep
        BY <1>0, <1>4, <3>2 DEF Locks, Active
      <4> QED
        BY <1>0, <1>1, <3>2, <4>1 DEF UpdateRow, TypeOK
    <3> QED
      BY <3>1, <3>2
  <2> QED
    BY <1>0, <1>1, <1>2, <1>4, <2>1, MirrorsFrame
<1> QED
  BY <1>3, <1>4

\* A call that stops: before the first write nothing has happened, after it the login
\* is no longer clean.
LEMMA MirrorsStop ==
  ASSUME IInv, NEW c \in Callers, Refused(c) \/ Crash(c), NEW l \in Logins, Clean(l)',
         Clean(l) => Mirrors(l)
  PROVE  Mirrors(l)'
<1>0. /\ TypeOK /\ CallInv /\ Kept(c) /\ CallOK(pc[c], call[c])
      /\ pc[c] # "idle" /\ pc'[c] = "idle"
  BY StepCalls, CallerFacts DEF IInv, Proceed, Refused, Crash, Return, TypeOK
<1>1. /\ banned' = banned /\ user' = user /\ unsynced \subseteq unsynced' /\ HalfDone(c)
  BY DEF Refused, Crash, stores, HalfDone
<1>2. Mirrors(l) /\ l \in Users
  BY <1>1 DEF Clean, Users
<1>3. ~Locks(c, l)'
  BY <1>0 DEF Locks, Active
<1>4. CASE Locks(c, l)
  <2>1. pc[c] \in {"ban", "updateRow"} /\ pc[c] # "updateRow"
    BY <1>0, <1>1, <1>2, <1>4 DEF CallOK, Locks, Active, HalfDone, Clean
  <2>2. Mirrored(l)
    BY <1>2, <1>4, <2>1 DEF Mirrors
  <2>3. \A d \in Callers : ~Locks(d, l)'
    BY <1>0, <1>2, <1>3, <1>4 DEF Mirrors, Locks, Kept, Active, Login
  <2> QED
    BY <1>1, <2>2, <2>3 DEF Mirrors, Mirrored
<1>5. CASE ~Locks(c, l)
  BY <1>0, <1>1, <1>2, <1>3, <1>5, MirrorsFrame
<1> QED
  BY <1>4, <1>5

\* The other steps leave the lockout of a User alone.
LEMMA MirrorsOther ==
  ASSUME IInv, "commitAnswer" \notin faults', NEW c \in Callers, Proceed(c),
         ~Persist(c), ~Ban(c), ~UpdateRow(c), ~Refused(c), ~Crash(c),
         NEW l \in Logins, Clean(l)', Clean(l) => Mirrors(l)
  PROVE  Mirrors(l)'
<1>0. /\ TypeOK /\ CallInv /\ Kept(c) /\ CallOK(pc[c], call[c]) /\ CallOK(pc'[c], call'[c])
  BY StepCalls DEF IInv, CallInv, CallOK
<1>1. /\ pc[c] \notin {"idle", "ban", "updateRow"} /\ pc'[c] \notin {"ban", "updateRow"}
  BY <1>0 DEF Proceed, LookupEmail, Provision, ProvisionFails, ProvisionUnanswered,
         PersistFails, PersistUnanswered, Unprovision, UnprovisionFails, DropWorker,
         DropWorkerFails, RemoveRow, RemoveIdentity, RemoveIdentityFails,
         SyncLogin, WorkerRow, AfterUndo, Goto, Return, TypeOK
<1>2. ~Locks(c, l) /\ ~Locks(c, l)'
  BY <1>0, <1>1 DEF CallOK, Locks, Active
<1>3. CASE RemoveRow(c)
  <2>1. /\ Users' = Users \ {Login(c)} /\ unsynced' = unsynced \ {Login(c)} /\ banned' = banned
        /\ user' = [user EXCEPT ![Login(c)] = NoUser]
    BY <1>0, <1>3, RemoveRowOwner DEF RemoveRow
  <2>2. l # Login(c) /\ Clean(l) /\ user'[l] = user[l]
    BY <1>0, <2>1 DEF Clean, TypeOK
  <2> QED
    BY <1>0, <1>2, <2>1, <2>2, MirrorsFrame
<1>4. CASE SyncLogin(c)
  <2>1. Users' = Users /\ Login(c) \in Users /\ unsynced' = unsynced /\ banned' = banned
    BY <1>0, <1>4, EditedUser DEF SyncLogin, marks
  <2>2. user[Login(c)] \in User /\ Login(c) \in Logins
    BY <1>0, <2>1 DEF Users, TypeOK
  <2>3. user'[l].isLockedOut = user[l].isLockedOut
    BY <1>0, <1>4, <2>2 DEF SyncLogin, TypeOK, User
  <2> QED
    BY <1>0, <1>2, <2>1, <2>3, MirrorsFrame DEF Clean
<1>5. CASE Unprovision(c) \/ RemoveIdentity(c)
  <2>1. /\ user' = user /\ Users' = Users /\ unsynced' = unsynced /\ faults' = faults
        /\ banned' = banned \ {Login(c)}
    BY <1>5 DEF Unprovision, RemoveIdentity, marks, Users
  <2>2. Login(c) \notin Users
    BY <1>5, <2>1, CallerFacts DEF Unprovision, RemoveIdentity, Owned
  <2>3. l # Login(c)
    BY <2>1, <2>2 DEF Clean
  <2> QED
    BY <1>0, <1>2, <2>1, <2>3, MirrorsFrame DEF Clean
<1>6. CASE \/ LookupEmail(c) \/ Provision(c) \/ ProvisionFails(c) \/ ProvisionUnanswered(c)
           \/ PersistFails(c) \/ UnprovisionFails(c) \/ DropWorker(c) \/ DropWorkerFails(c)
           \/ RemoveIdentityFails(c) \/ WorkerRow(c)
  <2>1. user' = user /\ unsynced' = unsynced /\ banned' = banned
    BY <1>6 DEF LookupEmail, Provision, ProvisionFails, ProvisionUnanswered,
         PersistFails, UnprovisionFails, DropWorker, DropWorkerFails, RemoveIdentityFails,
         WorkerRow, marks, stores
  <2>2. Clean(l)
    BY <2>1 DEF Clean, Users
  <2> QED
    BY <1>0, <1>2, <2>1, <2>2, MirrorsFrame
<1>7. ~PersistUnanswered(c)
  BY DEF PersistUnanswered
<1> QED
  BY <1>3, <1>4, <1>5, <1>6, <1>7 DEF Proceed

LEMMA MirrorStep ==
  ASSUME IInv, MirrorInv, [Next]_vars
  PROVE  MirrorInv'
<1>0. "commitAnswer" \notin faults => \A l \in Logins : Clean(l) => Mirrors(l)
  BY DEF MirrorInv, Clean, Mirrors
<1>1. ASSUME "commitAnswer" \notin faults' => \A l \in Logins : Clean(l)' => Mirrors(l)'
      PROVE  MirrorInv'
  BY <1>1 DEF MirrorInv, Clean, Mirrors, Users
<1>2. ASSUME NEW c \in Callers, Begin(c) \/ Proceed(c), "commitAnswer" \notin faults',
             NEW l \in Logins, Clean(l)'
      PROVE  Mirrors(l)'
  <2>1. "commitAnswer" \notin faults
    BY <1>2 DEF Begin, StartCreateUser, InsertWorker, StartRemoveUser, StartLockUser, StartUpdateUser,
         StartUpdateWorker, Proceed, LookupEmail, Provision, ProvisionFails, ProvisionUnanswered,
         Persist, PersistFails, PersistUnanswered, Unprovision, UnprovisionFails, DropWorker,
         DropWorkerFails, RemoveRow, RemoveIdentity, RemoveIdentityFails, Ban, UpdateRow,
         SyncLogin, WorkerRow, Refused, Crash, marks
  <2> QED
    BY <1>0, <1>2, <2>1, MirrorsStart, MirrorsPersist, MirrorsBan, MirrorsUpdateRow, MirrorsStop,
       MirrorsOther
<1>3. ASSUME UNCHANGED <<banned, user, pc, call, faults, unsynced>>
      PROVE  MirrorInv'
  BY <1>3 DEF MirrorInv, Mirrored, Locks, Active, Login, Users
<1> QED
  BY <1>1, <1>2, <1>3 DEF Next, RemoveWorker, vars

LEMMA SInvariance == Spec => []SInv
<1>1. Init => SInv
  <2>1. Init => AllOrNothing /\ MirrorInv
    BY DEF Init, AllOrNothing, MirrorInv, Users, Present
  <2> QED
    BY <2>1, InitInv DEF SInv
<1>2. SInv /\ [Next]_vars => SInv'
  BY StepInv, AllOrNothingStep, MirrorStep DEF SInv
<1> QED
  BY <1>1, <1>2, PTL DEF Spec

\* WorkersService.create's "one unit of work": without a fault, an identity without a
\* User and a Worker without a login are only seen while a call settles them.
THEOREM CreationIsAllOrNothing == Spec => []AllOrNothing
BY SInvariance, PTL DEF SInv

\* setUserLockout: the ban and the row agree whenever no call is writing them, except
\* for the users whose lockouts overlapped or stopped between the two writes.
THEOREM LockoutsAreMirrored == Spec => []LockoutMirrored
<1>1. SInv => LockoutMirrored
  BY DEF SInv, MirrorInv, LockoutMirrored, Locking, Locks, Active, Mirrored
<1> QED
  BY <1>1, SInvariance, PTL
=============================================================================
