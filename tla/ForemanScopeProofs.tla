------------------------- MODULE ForemanScopeProofs -------------------------
(***************************************************************************)
(* Theorems about ForemanScope, for every set of callers, foremen, workers *)
(* and sites.                                                              *)
(***************************************************************************)
EXTENDS ForemanScope, TLAPS

Editing == {"scope", "worker", "sites", "row", "union", "begin", "write"}

\* What a call carries at each of its statements.
CallInv ==
  \A c \in Callers :
    /\ pc[c] \in Editing => call[c] \in Call /\ call[c].worker \in Workers
    /\ pc[c] \in {"create", "insert"} => call[c] \in Call
    /\ pc[c] \in {"idle", "order"} => call[c] = NoCall
    /\ pc[c] = "order" => order[c] \in Order
    /\ pc[c] # "write" => gone[c] = {} /\ added[c] = {}

\* What a foreman's call has resolved or compared with the scope was in the scope.
ScopeInv ==
  \A c \in Callers : ForemanCall(c) =>
    /\ ResolvedScope(c) \subseteq held[c]
    /\ pc[c] \in {"row", "union", "begin", "write", "insert"} => call[c].wanted \subseteq held[c]
    /\ pc[c] \in {"begin", "write"} => scope[c] \subseteq held[c]

\* An open transaction: what it may touch, and what its delete still owes.
TxInv ==
  \A c \in Callers : pc[c] = "write" =>
    /\ target[c] \cup gone[c] \subseteq scope[c]
    /\ added[c] \subseteq call[c].wanted \cap sites
    /\ added[c] # {} => call[c].worker \in workers
    /\ (placed[call[c].worker] \cap scope[c]) \ call[c].wanted
         \subseteq target[c] \cup gone[c] \cup since[c]

\* A worker that does not exist has no sites.
NoStrayRows == \A w \in Workers \ workers : placed[w] = {}

IInv == TypeOK /\ CallInv /\ ScopeInv /\ TxInv /\ NoStrayRows

-----------------------------------------------------------------------------
\* A call on workers is not the null call, and its fields have their types.
LEMMA CallFields ==
  ASSUME NEW k \in Call
  PROVE  /\ k # NoCall
         /\ k.by \in Foremen \cup {Manager}
         /\ k.primary \in Sites \cup {NoSite}
         /\ k.worker \in Workers \cup {NoWorker}
         /\ k.wanted \in SUBSET Sites
BY NullsAssumption DEF Call

\* A resolved scope is a set of sites.
LEMMA ResolvedIsSites ==
  ASSUME TypeOK, NEW c \in Callers, call[c] \in Call
  PROVE  ResolvedScope(c) \in SUBSET Sites
BY CallFields DEF ResolvedScope, Active

LEMMA InitInv == Init => IInv
<1> SUFFICES ASSUME Init PROVE IInv
  OBVIOUS
<1>1. TypeOK
  BY DEF Init, TypeOK, PCs
<1>2. CallInv
  BY DEF Init, CallInv, Editing
<1>3. ScopeInv /\ TxInv /\ NoStrayRows
  BY DEF Init, ScopeInv, ForemanCall, TxInv, NoStrayRows
<1> QED
  BY <1>1, <1>2, <1>3 DEF IInv

\* Authentication: the call notes the scope and the primary site of this moment.
LEMMA AuthenticateInv ==
  ASSUME IInv, NEW c \in Callers, NEW by \in Foremen \cup {Manager},
         NEW w \in Workers \cup {NoWorker}, NEW wanted \in SUBSET Sites, NEW next,
         Authenticate(c, by, w, wanted, next),
         \/ w \in Workers /\ next = IF by = Manager THEN "row" ELSE "scope"
         \/ next = IF by = Manager THEN "insert" ELSE "create"
  PROVE  IInv'
<1> DEFINE k == [by |-> by, primary |-> IF by = Manager THEN NoSite ELSE primary[by],
                 worker |-> w, wanted |-> wanted]
<1> USE DEF IInv, tables, tx
<1>1. k \in Call
  BY DEF TypeOK, Call
<1>2. /\ call' = [call EXCEPT ![c] = k] /\ pc' = [pc EXCEPT ![c] = next]
      /\ held' = [held EXCEPT ![c] = IF by = Manager THEN {} ELSE ScopeNow(by)]
      /\ pc[c] = "idle"
      /\ UNCHANGED <<tables, order, scope, tx, since>>
  BY DEF Authenticate, Goto
<1>3. by # Manager => by \in Foremen /\ ScopeNow(by) \in SUBSET Sites
  BY DEF ScopeNow, Active, TypeOK
<1>4. TypeOK'
  BY <1>1, <1>2, <1>3 DEF TypeOK, PCs
<1>5. CallInv'
  BY <1>1, <1>2 DEF CallInv, Editing, TypeOK
<1>6. ScopeInv'
  BY <1>1, <1>2, <1>3, NullsAssumption
     DEF ScopeInv, ForemanCall, ResolvedScope, ScopeNow, Active, TypeOK
<1>7. TxInv' /\ NoStrayRows'
  BY <1>2 DEF TxInv, NoStrayRows, TypeOK
<1> QED
  BY <1>4, <1>5, <1>6, <1>7

\* The statements of a call that read, or write only the rows of the worker itself.
LEMMA ReadInv ==
  ASSUME IInv, NEW c \in Callers,
         \/ ScopeForWorker(c) \/ FindInScope(c) \/ CheckSites(c) \/ UpdateRow(c)
         \/ ResolveUnion(c) \/ CheckCreateScope(c)
  PROVE  IInv'
<1> USE DEF IInv, tables, tx
<1>1. call[c] \in Call /\ pc[c] \in (Editing \ {"write", "begin"}) \cup {"create"}
  BY DEF CallInv, Editing, ScopeForWorker, FindInScope, CheckSites, UpdateRow, ResolveUnion,
         CheckCreateScope
<1>2. ResolvedScope(c) \in SUBSET Sites
  BY <1>1, ResolvedIsSites
<1>3. PICK next \in PCs, sc \in SUBSET Sites :
        /\ pc' = [pc EXCEPT ![c] = next] /\ scope' = [scope EXCEPT ![c] = sc]
        /\ UNCHANGED <<tables, call, order, tx, held, since>>
        /\ \/ next = "insert" /\ pc[c] = "create"
           \/ next \in Editing \ {"write"} /\ pc[c] \in Editing
        /\ next \in {"row", "insert"} => call[c].wanted \subseteq ResolvedScope(c)
        /\ next \in {"union", "begin"} => pc[c] \in {"row", "union"}
        /\ next = "begin" => sc = ResolvedScope(c) \/ ~ForemanCall(c)
  <2>1. CASE ScopeForWorker(c)
    BY <2>1, <1>2 DEF ScopeForWorker, Resolve, Goto, PCs, Editing
  <2>2. CASE FindInScope(c)
    BY <2>2 DEF FindInScope, Goto, PCs, Editing, TypeOK
  <2>3. CASE CheckSites(c)
    BY <2>3, <1>2 DEF CheckSites, Resolve, Goto, PCs, Editing
  <2>4. CASE UpdateRow(c)
    <3>1. call[c].by = Manager => ~ForemanCall(c)
      BY NullsAssumption DEF ForemanCall
    <3> DEFINE next == IF call[c].by = Manager THEN "begin" ELSE "union"
    <3>2. /\ next \in PCs /\ next \in Editing \ {"write"} /\ {} \in SUBSET Sites
          /\ pc[c] = "row" /\ next \notin {"row", "insert"}
          /\ next = "begin" => ~ForemanCall(c)
      BY <2>4, <3>1 DEF UpdateRow, PCs, Editing
    <3>3. /\ pc' = [pc EXCEPT ![c] = next] /\ scope' = [scope EXCEPT ![c] = {}]
          /\ UNCHANGED <<tables, call, order, tx, held, since>>
      BY <2>4 DEF UpdateRow, Goto
    <3> HIDE DEF next
    <3> QED
      BY <3>2, <3>3 DEF Editing
  <2>5. CASE ResolveUnion(c)
    BY <2>5, <1>2 DEF ResolveUnion, Resolve, Goto, PCs, Editing
  <2>6. CASE CheckCreateScope(c)
    BY <2>6, <1>2 DEF CheckCreateScope, Resolve, Goto, PCs, Editing
  <2> QED
    BY <2>1, <2>2, <2>3, <2>4, <2>5, <2>6
<1>4. TypeOK'
  BY <1>3 DEF TypeOK
<1>5. CallInv'
  BY <1>1, <1>3 DEF CallInv, Editing, TypeOK
<1>6. ScopeInv'
  BY <1>1, <1>3 DEF ScopeInv, ForemanCall, ResolvedScope, Active, TypeOK, Editing
<1>7. TxInv' /\ NoStrayRows'
  BY <1>1, <1>3 DEF TxInv, NoStrayRows, TypeOK, Editing
<1> QED
  BY <1>4, <1>5, <1>6, <1>7

\* The transaction begins: its target is all it has to delete.
LEMMA BeginInv ==
  ASSUME IInv, NEW c \in Callers, BeginReplace(c)
  PROVE  IInv'
<1> USE DEF IInv, tables, tx
<1>1. call[c] \in Call /\ call[c].worker \in Workers /\ pc[c] = "begin"
  BY DEF BeginReplace, CallInv, Editing
<1>2. PICK sc \in SUBSET Sites :
        /\ scope' = [scope EXCEPT ![c] = sc]
        /\ target' = [target EXCEPT ![c] = (placed[call[c].worker] \cap sc) \ call[c].wanted]
        /\ ForemanCall(c) => sc = scope[c]
  <2> DEFINE sc == IF call[c].by = Manager THEN Sites ELSE scope[c]
  <2>1. sc \in SUBSET Sites /\ scope' = [scope EXCEPT ![c] = sc]
    BY DEF BeginReplace, TypeOK
  <2>2. scope'[c] = sc
    BY <2>1 DEF TypeOK
  <2>3. ForemanCall(c) => sc = scope[c]
    BY NullsAssumption DEF ForemanCall
  <2>4. target' = [target EXCEPT ![c] = (placed[call[c].worker] \cap sc) \ call[c].wanted]
    BY <2>2 DEF BeginReplace
  <2> HIDE DEF sc
  <2> QED
    BY <2>1, <2>3, <2>4
<1>3. /\ pc' = [pc EXCEPT ![c] = "write"]
      /\ UNCHANGED <<tables, call, order, gone, done, added, held, since>>
  BY DEF BeginReplace, Goto
<1>4. TypeOK'
  BY <1>1, <1>2, <1>3 DEF TypeOK, PCs
<1>5. CallInv'
  BY <1>1, <1>3 DEF CallInv, Editing, TypeOK
<1>6. ScopeInv'
  BY <1>1, <1>2, <1>3 DEF ScopeInv, ForemanCall, ResolvedScope, Active, TypeOK
<1>7. TxInv' /\ NoStrayRows'
  BY <1>1, <1>2, <1>3 DEF TxInv, NoStrayRows, TypeOK, CallInv
<1> QED
  BY <1>4, <1>5, <1>6, <1>7

\* A row leaves the target, for the deleted ones or because it is gone already.
LEMMA DeleteRowInv ==
  ASSUME IInv, NEW c \in Callers, NEW s \in Sites, DeleteRow(c, s)
  PROVE  IInv'
<1> USE DEF IInv, tables
<1>1. call[c] \in Call /\ call[c].worker \in Workers /\ pc[c] = "write" /\ s \in target[c]
  BY DEF DeleteRow, CallInv, Editing
<1>2. TypeOK' /\ CallInv'
  BY <1>1 DEF DeleteRow, TypeOK, CallInv
<1>3. ScopeInv'
  BY DEF DeleteRow, ScopeInv, ForemanCall, ResolvedScope, Active
<1>4. TxInv' /\ NoStrayRows'
  BY <1>1 DEF DeleteRow, TxInv, NoStrayRows, TypeOK
<1> QED
  BY <1>2, <1>3, <1>4

\* An upsert adds wanted sites that exist, or nothing.
LEMMA UpsertInv ==
  ASSUME IInv, NEW c \in Callers, NEW s \in Sites, Upsert(c, s) \/ UpsertFound(c, s)
  PROVE  IInv'
<1> USE DEF IInv, tables
<1>1. call[c] \in Call /\ call[c].worker \in Workers /\ pc[c] = "write"
  BY DEF Upsert, UpsertFound, CallInv, Editing
<1>2. PICK new \in SUBSET {s} :
        /\ added' = [added EXCEPT ![c] = @ \cup new]
        /\ done' = [done EXCEPT ![c] = @ \cup {s}]
        /\ new \subseteq call[c].wanted \cap sites
        /\ new # {} => call[c].worker \in workers
        /\ UNCHANGED <<tables, pc, call, order, scope, target, gone, held, since>>
  <2>1. CASE Upsert(c, s)
    BY <2>1 DEF Upsert
  <2>2. CASE UpsertFound(c, s)
    <3>1. added' = [added EXCEPT ![c] = @ \cup {}]
      BY <2>2 DEF UpsertFound, TypeOK
    <3> QED
      BY <2>2, <3>1 DEF UpsertFound
  <2> QED
    BY <2>1, <2>2
<1>3. TypeOK' /\ CallInv'
  BY <1>1, <1>2 DEF TypeOK, CallInv
<1>4. ScopeInv'
  BY <1>2 DEF ScopeInv, ForemanCall, ResolvedScope, Active
<1>5. TxInv' /\ NoStrayRows'
  BY <1>1, <1>2 DEF TxInv, NoStrayRows, TypeOK
<1> QED
  BY <1>3, <1>4, <1>5

\* A call that ends leaves no trace in what the invariant says of the others.
LEMMA ForgetInv ==
  ASSUME IInv, NEW c \in Callers, Forget(c), UNCHANGED <<primary, granted>>
  PROVE  CallInv' /\ ScopeInv'
<1> USE DEF IInv
<1>1. CallInv'
  BY DEF Forget, Goto, CallInv, Editing, TypeOK
<1>2. ScopeInv'
  BY DEF Forget, Goto, ScopeInv, ForemanCall, ResolvedScope, Active, TypeOK
<1> QED
  BY <1>1, <1>2

LEMMA AbortInv ==
  ASSUME IInv, NEW c \in Callers, Abort(c)
  PROVE  IInv'
<1> USE DEF IInv, tables
<1>1. CallInv' /\ ScopeInv'
  BY ForgetInv DEF Abort
<1>2. TypeOK'
  BY DEF Abort, Forget, Goto, TypeOK, PCs
<1>3. TxInv' /\ NoStrayRows'
  BY DEF Abort, Forget, Goto, TxInv, NoStrayRows, TypeOK
<1> QED
  BY <1>1, <1>2, <1>3

\* A commit: what it adds is what the other transactions note in since.
LEMMA CommitInv ==
  ASSUME IInv, NEW c \in Callers, CommitReplace(c)
  PROVE  IInv'
<1> USE DEF IInv
<1>1. /\ call[c] \in Call /\ call[c].worker \in Workers /\ pc[c] = "write"
      /\ added[c] \subseteq sites
      /\ added[c] # {} => call[c].worker \in workers
  BY DEF CommitReplace, CallInv, TxInv, Editing
<1>2. CallInv' /\ ScopeInv'
  BY ForgetInv DEF CommitReplace
<1>3. TypeOK'
  BY <1>1 DEF CommitReplace, Forget, Goto, Left, TypeOK, PCs
<1>4. NoStrayRows'
  BY <1>1 DEF CommitReplace, Left, NoStrayRows, TypeOK
<1>5. TxInv'
  <2> SUFFICES ASSUME NEW d \in Callers, pc'[d] = "write" PROVE TxInv!(d)'
    BY DEF TxInv
  <2>1. d # c /\ pc[d] = "write" /\ call'[d] = call[d] /\ call[d].worker \in Workers
    BY DEF CommitReplace, Forget, Goto, TypeOK, CallInv, Editing
  <2>2. /\ target'[d] = target[d] /\ gone'[d] = gone[d] /\ added'[d] = added[d]
        /\ scope'[d] = scope[d] /\ UNCHANGED <<sites, workers>>
    BY <2>1 DEF CommitReplace, Forget, TypeOK
  <2>3. CASE call[d].worker = call[c].worker
    <3>1. since'[d] = since[d] \cup added[c]
      BY <2>1, <2>3 DEF CommitReplace, Writing, TypeOK
    <3>2. placed'[call[d].worker] \subseteq placed[call[d].worker] \cup added[c]
      BY <1>1, <2>3 DEF CommitReplace, Left, TypeOK
    <3> QED
      BY <2>1, <2>2, <3>1, <3>2 DEF TxInv
  <2>4. CASE call[d].worker # call[c].worker
    <3>1. since'[d] = since[d] /\ placed'[call[d].worker] = placed[call[d].worker]
      BY <2>1, <2>4 DEF CommitReplace, Writing, TypeOK
    <3> QED
      BY <2>1, <2>2, <3>1 DEF TxInv
  <2> QED
    BY <2>3, <2>4
<1> QED
  BY <1>2, <1>3, <1>4, <1>5

\* A new worker is one nobody works on.
LEMMA InsertWorkerInv ==
  ASSUME IInv, NEW c \in Callers, InsertWorker(c)
  PROVE  IInv'
<1> USE DEF IInv
<1>1. call[c] \in Call /\ pc[c] = "insert" /\ call[c].wanted \subseteq sites
  BY DEF InsertWorker, CallInv
<1>2. PICK w \in Workers \ workers :
        /\ \A d \in Callers : call[d] # NoCall => call[d].worker # w
        /\ workers' = workers \cup {w}
        /\ placed' = [placed EXCEPT ![w] = call[c].wanted]
  BY DEF InsertWorker
<1>3. CallInv' /\ ScopeInv'
  BY ForgetInv DEF InsertWorker
<1>4. TypeOK'
  BY <1>1, <1>2 DEF InsertWorker, Forget, Goto, TypeOK, PCs
<1>5. NoStrayRows'
  BY <1>2 DEF NoStrayRows, TypeOK
<1>6. TxInv'
  <2> SUFFICES ASSUME NEW d \in Callers, pc'[d] = "write" PROVE TxInv!(d)'
    BY DEF TxInv
  <2>1. d # c /\ pc[d] = "write" /\ call'[d] = call[d] /\ call[d] \in Call
    BY DEF InsertWorker, Forget, Goto, TypeOK, CallInv, Editing
  <2>2. /\ target'[d] = target[d] /\ gone'[d] = gone[d] /\ added'[d] = added[d]
        /\ scope'[d] = scope[d] /\ since'[d] = since[d] /\ UNCHANGED sites
    BY <2>1 DEF InsertWorker, Forget, TypeOK
  <2>3. call[d].worker # w
    BY <1>2, <2>1, CallFields
  <2>4. placed'[call[d].worker] = placed[call[d].worker]
    BY <1>2, <2>3 DEF TypeOK
  <2> QED
    BY <1>2, <2>1, <2>2, <2>4 DEF TxInv
<1> QED
  BY <1>3, <1>4, <1>5, <1>6

\* Removing a worker waits for the transactions that hold one of its rows.
LEMMA RemoveWorkerInv ==
  ASSUME IInv, NEW w \in Workers, RemoveWorker(w)
  PROVE  IInv'
<1> USE DEF IInv, tx
<1>1. TypeOK'
  BY DEF RemoveWorker, TypeOK
<1>2. CallInv' /\ ScopeInv'
  BY DEF RemoveWorker, CallInv, ScopeInv, ForemanCall, ResolvedScope, Active
<1>3. NoStrayRows'
  BY DEF RemoveWorker, NoStrayRows, TypeOK
<1>4. TxInv'
  BY DEF RemoveWorker, TxInv, Writing, TypeOK
<1> QED
  BY <1>1, <1>2, <1>3, <1>4

\* A manager's change of a foreman's sites is noted by the calls of that foreman.
LEMMA MoveForemanInv ==
  ASSUME IInv,
         \/ \E c \in Callers : WriteGrant(c)
         \/ \E f \in Foremen, s \in Sites \cup {NoSite} : SetPrimary(f, s)
  PROVE  IInv'
<1> USE DEF IInv, tables, tx
<1>1. /\ UNCHANGED <<sites, workers, placed, call, scope, tx, since>> /\ Observe
      /\ primary' \in [Foremen -> sites \cup {NoSite}]
      /\ granted' \in [Foremen -> [Sites -> {"NONE", "ACTIVE", "ENDED"}]]
      /\ order' \in [Callers -> Order \cup {NoOrder}]
      /\ \/ UNCHANGED <<pc, order>>
         \/ \E c \in Callers : /\ pc[c] = "order" /\ pc' = [pc EXCEPT ![c] = "idle"]
                               /\ order' = [order EXCEPT ![c] = NoOrder]
  <2>1. ASSUME NEW c \in Callers, WriteGrant(c) PROVE <1>1
    <3>1. order[c] \in Order
      BY <2>1 DEF WriteGrant, CallInv
    <3>2. /\ order[c].foreman \in Foremen /\ order[c].site \in Sites
          /\ order[c].write \in {"ACTIVE", "ENDED"}
      BY <3>1 DEF Order
    <3> QED
      BY <2>1, <3>2 DEF WriteGrant, Goto, TypeOK
  <2>2. ASSUME NEW f \in Foremen, NEW s \in Sites \cup {NoSite}, SetPrimary(f, s) PROVE <1>1
    BY <2>2 DEF SetPrimary, TypeOK
  <2> QED
    BY <2>1, <2>2
<1>2. \A c \in Callers : ForemanCall(c) <=> ForemanCall(c)'
  BY <1>1 DEF ForemanCall
<1>3. \A c \in Callers : ForemanCall(c) =>
        /\ call[c].by \in Foremen /\ held'[c] = held[c] \cup ScopeNow(call[c].by)'
        /\ ScopeNow(call[c].by)' \in SUBSET Sites
  BY <1>1 DEF Observe, ForemanCall, ScopeNow, Active, TypeOK
<1>4. \A c \in Callers : ~ForemanCall(c) => held'[c] = held[c]
  BY <1>1 DEF Observe
<1>5. held' \in [Callers -> SUBSET Sites]
  <2>1. held' = [c \in Callers |-> held'[c]]
    BY <1>1 DEF Observe
  <2>2. \A c \in Callers : held'[c] \in SUBSET Sites
    BY <1>3, <1>4 DEF TypeOK
  <2> QED
    BY <2>1, <2>2
<1>6. TypeOK'
  BY <1>1, <1>5 DEF TypeOK, PCs
<1>7. CallInv'
  BY <1>1 DEF CallInv, Editing, TypeOK
<1>8. ScopeInv'
  <2> SUFFICES ASSUME NEW c \in Callers, ForemanCall(c)' PROVE ScopeInv!(c)'
    BY DEF ScopeInv
  <2>1. /\ ForemanCall(c) /\ held[c] \subseteq held'[c]
        /\ Active(call[c].by)' \subseteq held'[c]
    BY <1>2, <1>3 DEF ScopeNow
  <2>2. ResolvedScope(c)' \subseteq held'[c]
    BY <1>1, <2>1, NullsAssumption DEF ScopeInv, ResolvedScope, ForemanCall
  <2>3. /\ pc'[c] \in {"row", "union", "begin", "write", "insert"} => pc[c] = pc'[c]
        /\ UNCHANGED <<call, scope>>
    BY <1>1 DEF TypeOK
  <2> QED
    BY <2>1, <2>2, <2>3 DEF ScopeInv
<1>9. TxInv' /\ NoStrayRows'
  BY <1>1 DEF TxInv, NoStrayRows, TypeOK
<1> QED
  BY <1>6, <1>7, <1>8, <1>9

\* assign and unassign read before they write.
LEMMA FindGrantInv ==
  ASSUME IInv, NEW c \in Callers, NEW f \in Foremen, NEW s \in Sites,
         NEW write \in {"ACTIVE", "ENDED"}, FindGrant(c, f, s, write)
  PROVE  IInv'
<1> USE DEF IInv, tables, tx
<1> DEFINE o == [row |-> IF granted[f][s] = "NONE" THEN "NONE" ELSE "FOUND",
                 write |-> write, foreman |-> f, site |-> s]
<1>1. o \in Order
  BY DEF Order
<1>2. /\ pc[c] = "idle" /\ pc' = [pc EXCEPT ![c] = "order"]
      /\ order' = [order EXCEPT ![c] = o]
      /\ UNCHANGED <<tables, call, scope, tx, held, since>>
  BY DEF FindGrant, Goto
<1> HIDE DEF o
<1>3. TypeOK' /\ CallInv'
  BY <1>1, <1>2 DEF TypeOK, PCs, CallInv, Editing
<1>4. ScopeInv' /\ TxInv' /\ NoStrayRows'
  BY <1>2 DEF ScopeInv, ForemanCall, ResolvedScope, Active, TxInv, NoStrayRows, TypeOK
<1> QED
  BY <1>3, <1>4

\* Removing a site waits for the transactions that hold a row of it.
LEMMA RemoveSiteInv ==
  ASSUME IInv, NEW s \in Sites, RemoveSite(s)
  PROVE  IInv'
<1> USE DEF IInv, tx
<1>1. TypeOK' /\ CallInv'
  BY DEF RemoveSite, TypeOK, CallInv
<1>2. \A f \in Foremen : Active(f)' \subseteq Active(f)
  BY DEF RemoveSite, Active, TypeOK
<1>3. ScopeInv'
  BY <1>2 DEF RemoveSite, ScopeInv, ForemanCall, ResolvedScope
<1>4. NoStrayRows'
  BY DEF RemoveSite, NoStrayRows
<1>5. TxInv'
  BY DEF RemoveSite, TxInv, CallInv, Editing, TypeOK
<1> QED
  BY <1>1, <1>3, <1>4, <1>5

-----------------------------------------------------------------------------
\* Every step preserves the invariant.
LEMMA StepInv == IInv /\ [Next]_vars => IInv'
<1> SUFFICES ASSUME IInv, [Next]_vars PROVE IInv'
  OBVIOUS
<1>1. CASE UNCHANGED vars
  BY <1>1 DEF vars, tables, tx, IInv, TypeOK, CallInv, ScopeInv, ForemanCall, ResolvedScope, Active,
              TxInv, NoStrayRows
<1>2. ASSUME NEW c \in Callers, Start(c) PROVE IInv'
  <2> PICK by \in Foremen \cup {Manager}, wanted \in SUBSET Sites :
         \/ StartCreate(c, by, wanted)
         \/ \E w \in Workers : StartUpdate(c, by, w, wanted)
    BY <1>2 DEF Start
  <2> QED
    BY AuthenticateInv DEF StartCreate, StartUpdate
<1>3. ASSUME NEW c \in Callers, Step(c) PROVE IInv'
  BY <1>3, ReadInv, BeginInv, DeleteRowInv, UpsertInv, CommitInv, InsertWorkerInv, MoveForemanInv
     DEF Step
<1>4. ASSUME NEW c \in Callers, Abort(c) PROVE IInv'
  BY <1>4, AbortInv
<1> QED
  BY <1>1, <1>2, <1>3, <1>4, FindGrantInv, RemoveWorkerInv, MoveForemanInv, RemoveSiteInv DEF Next

LEMMA Invariance == Spec => []IInv
BY InitInv, StepInv, PTL DEF Spec

\* ForemanScope keeps its types; no assignment and no primary site names a site
\* that has been removed.
THEOREM TypeCorrect == Spec => []TypeOK
<1>1. IInv => TypeOK
  BY DEF IInv
<1> QED
  BY <1>1, Invariance, PTL

\* A replacement deletes every row of the scope that its snapshot found and that is
\* not wanted, whoever waits for whom.
THEOREM ReplacementsAreComplete == Spec => []ReplacesAllItSaw
<1>1. IInv => ReplacesAllItSaw
  BY DEF IInv, TxInv, ReplacesAllItSaw, Left
<1> QED
  BY <1>1, Invariance, PTL

\* A foreman's call changes a worker's sites only within sites that were in the
\* foreman's scope during the call.
THEOREM ForemenStayInScope == Spec => EditsStayInScope
<1> DEFINE InScope(c) == Writes(c) /\ ForemanCall(c) => \A w \in Workers : Changed(w) \subseteq held[c]
<1>1. IInv /\ [Next]_vars => [\A c \in Callers : InScope(c)]_vars
  <2> SUFFICES ASSUME IInv, Next, NEW c \in Callers, Writes(c), ForemanCall(c), NEW w \in Workers
               PROVE  Changed(w) \subseteq held[c]
    BY DEF Writes, vars
  <2> USE DEF IInv
  <2>1. CommitReplace(c) \/ InsertWorker(c)
    <3> USE DEF Writes, TypeOK, Goto, Forget, tables
    <3>1. ASSUME NEW d \in Callers, Start(d) PROVE FALSE
      BY <3>1 DEF Start, StartCreate, StartUpdate, Authenticate
    <3>2. ASSUME NEW d \in Callers, Step(d), ~CommitReplace(d), ~InsertWorker(d) PROVE FALSE
      BY <3>2 DEF Step, ScopeForWorker, FindInScope, CheckSites, UpdateRow, ResolveUnion, Resolve,
                  BeginReplace, DeleteRow, Upsert, UpsertFound, CheckCreateScope, WriteGrant
    <3>3. ASSUME NEW d \in Callers, CommitReplace(d) \/ InsertWorker(d) PROVE d = c
      BY <3>3 DEF CommitReplace, InsertWorker
    <3>4. ASSUME NEW d \in Callers, Abort(d) PROVE FALSE
      BY <3>4 DEF Abort
    <3>5. ASSUME NEW d \in Callers, NEW f \in Foremen, NEW s \in Sites, NEW write \in {"ACTIVE", "ENDED"},
                 FindGrant(d, f, s, write)
          PROVE  FALSE
      BY <3>5 DEF FindGrant
    <3>6. ASSUME NEW v \in Workers, RemoveWorker(v) PROVE FALSE
      BY <3>6 DEF RemoveWorker
    <3>7. ASSUME NEW f \in Foremen, NEW s \in Sites \cup {NoSite}, SetPrimary(f, s) PROVE FALSE
      BY <3>7 DEF SetPrimary
    <3>8. ASSUME NEW s \in Sites, RemoveSite(s) PROVE FALSE
      BY <3>8 DEF RemoveSite
    <3> QED
      BY <3>1, <3>2, <3>3, <3>4, <3>5, <3>6, <3>7, <3>8 DEF Next, Step
  <2>2. CASE CommitReplace(c)
    <3>1. call[c].wanted \cup scope[c] \subseteq held[c] /\ gone[c] \cup added[c] \subseteq held[c]
      BY <2>2 DEF CommitReplace, ScopeInv, TxInv
    <3> QED
      BY <2>2, <3>1 DEF CommitReplace, Left, Changed, TypeOK
  <2>3. CASE InsertWorker(c)
    <3>1. call[c].wanted \subseteq held[c]
      BY <2>3 DEF InsertWorker, ScopeInv
    <3> QED
      BY <2>3, <3>1 DEF InsertWorker, NoStrayRows, Changed, TypeOK
  <2> QED
    BY <2>1, <2>2, <2>3
<1> QED
  BY <1>1, Invariance, PTL DEF Spec, EditsStayInScope
=============================================================================
