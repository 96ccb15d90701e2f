-------------------------- MODULE ForemanAppProofs --------------------------
(***************************************************************************)
(* Theorems about ForemanApp, for any users, sites, number of calls of     *)
(* resolveMe and of writes in flight, and number of retries.               *)
(***************************************************************************)
EXTENDS ForemanApp, FiniteSetTheorems, TLAPS

\* What the selection effect leaves behind: it restores only over sites to restore
\* from, and what it has read is still what the device stores, unless a write was under
\* way then; a screen that is ready no longer waits for the union.
ChoiceInv ==
  /\ restoring # "nothing" =>
       ~ready /\ ~Waiting(status, union, failed) /\ SitesOf(union) # {}
  /\ restoring \in Sites \cup {NoSite} /\ ~slipped => ~Saving /\ restoring = pref
  /\ ready => ~Waiting(status, union, failed)
  /\ SiteOfUnion
  /\ ChoiceIsStored

\* The inductive invariant.
IInv == TypeOK /\ ChoiceInv /\ GateFollowsSession

\* What a change of the gate or of the query has to leave well-typed.
Inputs ==
  /\ status \in {"loading", "signedOut", "signedIn", "unauthorized"}
  /\ union  \in Union \cup {NoUnion}
  /\ failed \in BOOLEAN

\* The types of what the effect sets.
ChoiceTypes ==
  /\ site      \in Sites \cup {NoSite}
  /\ restoring \in Sites \cup {NoSite, "nothing", "reading", "lost"}
  /\ ready     \in BOOLEAN
  /\ restoring # "nothing" => ~ready /\ status = "signedIn"

-----------------------------------------------------------------------------
LEMMA InitInv == Init => IInv
<1> SUFFICES ASSUME Init PROVE IInv
  OBVIOUS
<1>1. TypeOK
  <2>1. saving \in [Sites -> 0..MaxSaves] /\ calls \in [Calls -> {"idle"}]
    BY RetriesAssumption DEF Init
  <2>2. \A b \in {failed, ready, misled, slipped} : b \in BOOLEAN
    BY DEF Init
  <2> QED
    BY <2>1, <2>2, NullsAssumption DEF Init, TypeOK
<1>2. ChoiceInv
  BY MarksAssumption DEF Init, ChoiceInv, SiteOfUnion, ChoiceIsStored
<1>3. GateFollowsSession
  BY DEF Init, GateFollowsSession, Quiet
<1> QED
  BY <1>1, <1>2, <1>3 DEF IInv

\* The sites of the union, when there are any.
LEMMA SitesOfUnion ==
  ASSUME NEW u \in Union \cup {NoUnion}, SitesOf(u) # {}
  PROVE  u \in Union /\ SitesOf(u) = u.sites /\ u.sites \subseteq Sites
BY DEF SitesOf, Union

\* Whatever changes the gate or the query, the effect after it leaves the choice as
\* the invariant wants it: it restarts over the union it now sees or stays away.
LEMMA EffectKeepsChoice ==
  ASSUME TypeOK, ChoiceInv, Inputs', Effect, UNCHANGED store
  PROVE  ChoiceInv' /\ ChoiceTypes'
<1> USE DEF TypeOK, ChoiceInv, Inputs
<1>1. CASE EffectRuns
  <2> DEFINE waits == Waiting(status', union', failed')
             empty == ~waits /\ SitesOf(union') = {}
  <2>1. /\ ready'     = empty
        /\ site'      = IF empty THEN NoSite ELSE site
        /\ restoring' = IF empty \/ waits THEN "nothing" ELSE "reading"
    BY <1>1 DEF Effect
  <2>2. Waiting(status, union, failed)' = waits /\ SitesOf(union)' = SitesOf(union')
    BY DEF Waiting, SitesOf
  <2>3. waits => restoring' = "nothing" /\ ~ready'
    BY <2>1
  <2>4. /\ restoring' # "nothing" => ~ready' /\ ~waits /\ SitesOf(union') # {}
        /\ restoring' \notin Sites \cup {NoSite}
    BY <2>1, MarksAssumption
  <2>5. ready' => ~waits /\ SitesOf(union') = {} /\ site' = NoSite
    BY <2>1
  <2>6. ChoiceInv'
    BY <2>2, <2>4, <2>5 DEF SiteOfUnion, ChoiceIsStored
  <2>7. status' # "signedIn" => waits
    BY DEF Waiting
  <2>8. ChoiceTypes'
    <3>1. site' \in Sites \cup {NoSite} /\ restoring' \in {"nothing", "reading"}
      BY <2>1
    <3>2. ready' \in BOOLEAN
      BY <2>1
    <3> QED
      BY <2>4, <2>7, <3>1, <3>2 DEF ChoiceTypes
  <2> QED
    BY <2>6, <2>8
<1>2. CASE ~EffectRuns
  <2>1. UNCHANGED choice
    BY <1>2 DEF Effect
  <2>2. /\ Waiting(status, union, failed)' = Waiting(status, union, failed)
        /\ SitesOf(union)' = SitesOf(union)
    BY <1>2 DEF EffectRuns, Waiting, SitesOf
  <2>3. SitesOf(union) # {} => union'.sites = union.sites
    BY <2>2, SitesOfUnion
  <2>4. /\ (restoring # "nothing")' =>
             ~ready' /\ ~Waiting(status, union, failed)' /\ SitesOf(union)' # {}
        /\ (restoring \in Sites \cup {NoSite} /\ ~slipped)' => ~Saving' /\ restoring' = pref'
    BY <2>1, <2>2 DEF choice, store, Saving
  <2>5. ready' => ~Waiting(status, union, failed)'
    BY <2>1, <2>2 DEF choice
  <2>6. SiteOfUnion' /\ ChoiceIsStored'
    BY <2>1, <2>2, <2>3 DEF choice, store, Saving, SiteOfUnion, ChoiceIsStored
  <2>7. restoring' # "nothing" => status' = "signedIn"
    BY <2>4 DEF Waiting
  <2>8. ChoiceTypes'
    BY <2>1, <2>4, <2>7 DEF choice, ChoiceTypes
  <2> QED
    BY <2>4, <2>5, <2>6, <2>8
<1> QED
  BY <1>1, <1>2

\* Signing in may start a fetch of the query, which then has not failed.
LEMMA EnabledTypes ==
  ASSUME TypeOK, Enabled, union' = union
  PROVE  /\ fetch' \in Fetch \cup {NoFetch}
         /\ failed' \in BOOLEAN
         /\ failed' => union' = NoUnion
<1>1. [as |-> "asking", left |-> Retries] \in Fetch
  BY RetriesAssumption DEF Fetch
<1> QED
  BY <1>1 DEF Enabled, StartFetch, TypeOK

\* A change of the gate keeps everything it does not name well-typed.
LEMMA SetGateKeeps ==
  ASSUME TypeOK, ChoiceInv, NEW doubt \in BOOLEAN,
         NEW s \in {"loading", "signedOut", "signedIn", "unauthorized"},
         NEW u \in Admitted \cup {NoUser}, (s = "signedIn") = (u # NoUser),
         SetGate(s, u, doubt), UNCHANGED store,
         session' \in Users \cup {NoUser},
         launching' \subseteq {"hydrate", "initial"},
         calls' \in [Calls -> Users \cup {NoUser, "idle", "asking"}]
  PROVE  TypeOK' /\ ChoiceInv'
<1>1. /\ status' = s /\ user' = u /\ misled' = doubt /\ union' = union
      /\ Enabled /\ Effect
  BY DEF SetGate
<1>2. /\ fetch' \in Fetch \cup {NoFetch}
      /\ failed' \in BOOLEAN
      /\ failed' => union' = NoUnion
  BY <1>1, EnabledTypes
<1>3. Inputs'
  BY <1>1, <1>2 DEF Inputs, TypeOK
<1>4. ChoiceInv' /\ ChoiceTypes'
  BY <1>1, <1>3, EffectKeepsChoice
<1>5. (status' = "signedIn") = (user' # NoUser)
  BY <1>1
<1> QED
  BY <1>1, <1>2, <1>4, <1>5 DEF TypeOK, ChoiceTypes, store

\* A step that leaves the gate, the query and the choice.
LEMMA KeepGateKeeps ==
  ASSUME TypeOK, ChoiceInv, KeepGate, UNCHANGED store,
         session' \in Users \cup {NoUser},
         launching' \subseteq {"hydrate", "initial"},
         calls' \in [Calls -> Users \cup {NoUser, "idle", "asking"}]
  PROVE  TypeOK' /\ ChoiceInv'
<1>1. TypeOK'
  BY DEF TypeOK, KeepGate, store, query, choice
<1>2. ChoiceInv'
  BY DEF ChoiceInv, Saving, SiteOfUnion, ChoiceIsStored, KeepGate, store, query, choice
<1> QED
  BY <1>1, <1>2

\* A step of the query keeps the gate.
LEMMA QueryKeeps ==
  ASSUME TypeOK, ChoiceInv, UNCHANGED <<device, gate>>, Effect,
         union' \in Union \cup {NoUnion},
         fetch' \in Fetch \cup {NoFetch},
         failed' \in BOOLEAN,
         failed' => union' = NoUnion
  PROVE  TypeOK' /\ ChoiceInv'
<1>1. Inputs' /\ UNCHANGED store
  BY DEF Inputs, TypeOK, gate, device
<1>2. ChoiceInv' /\ ChoiceTypes'
  BY <1>1, EffectKeepsChoice
<1>3. TypeOK'
  BY <1>2 DEF TypeOK, ChoiceTypes, gate, device, store
<1> QED
  BY <1>2, <1>3

\* Neither does a step that leaves the session and the gate change whom it follows.
LEMMA SameGate ==
  ASSUME GateFollowsSession, session' = session, UNCHANGED gate
  PROVE  GateFollowsSession'
BY DEF GateFollowsSession, Quiet, Free, gate

-----------------------------------------------------------------------------
(* The steps of AuthProvider.                                              *)

\* The session has ended and the listener closes the gate.
LEMMA ClosedFollows ==
  ASSUME Closed, session' = NoUser
  PROVE  GateFollowsSession'
<1>1. status' = "signedOut" /\ session' = NoUser
  BY DEF Closed, SetGate
<1>2. NoUser \notin Admitted
  BY NullsAssumption DEF Users, Admitted
<1> QED
  BY <1>1, <1>2 DEF GateFollowsSession

\* A call that has been asked for, or sent, is not over.
LEMMA AskingIsNotQuiet ==
  ASSUME NEW c \in Calls, calls'[c] # "idle", GateFollowsSession,
         UNCHANGED <<session, status, user, misled>>
  PROVE  GateFollowsSession'
BY DEF GateFollowsSession, Quiet, Free

\* Asking for a call is well-typed.
LEMMA AskTypes ==
  ASSUME TypeOK, NEW cs \in SUBSET Calls, Ask(cs)
  PROVE  /\ calls' \in [Calls -> Users \cup {NoUser, "idle", "asking"}]
         /\ \A c \in cs : calls'[c] = "asking"
BY DEF TypeOK, Ask

LEMMA LookInv ==
  ASSUME IInv, NEW l, NEW c \in Calls, Look(l, c)
  PROVE  IInv'
<1> USE DEF IInv
<1>1. /\ session' = session /\ UNCHANGED store
      /\ session' \in Users \cup {NoUser}
      /\ launching' \subseteq {"hydrate", "initial"}
  BY DEF Look, device, TypeOK
<1>2. CASE session # NoUser /\ Free(c) /\ Ask({c}) /\ KeepGate
  <2>1. /\ calls' \in [Calls -> Users \cup {NoUser, "idle", "asking"}]
        /\ calls'[c] = "asking"
    BY <1>2, AskTypes
  <2>2. TypeOK' /\ ChoiceInv'
    BY <1>1, <1>2, <2>1, KeepGateKeeps
  <2>3. GateFollowsSession'
    BY <1>1, <1>2, <2>1, AskingIsNotQuiet DEF KeepGate
  <2> QED
    BY <2>2, <2>3
<1>3. CASE session = NoUser /\ UNCHANGED calls /\ Closed
  <2>1. TypeOK' /\ ChoiceInv'
    <3>1. /\ calls' \in [Calls -> Users \cup {NoUser, "idle", "asking"}]
          /\ ("signedOut" = "signedIn") = (NoUser # NoUser)
      BY <1>3 DEF TypeOK
    <3> QED
      BY <1>1, <1>3, <3>1, SetGateKeeps DEF Closed
  <2>2. GateFollowsSession'
    BY <1>1, <1>3, ClosedFollows
  <2> QED
    BY <2>1, <2>2
<1> QED
  BY <1>2, <1>3 DEF Look

LEMMA SignInInv ==
  ASSUME IInv, NEW u \in Users, NEW c \in EventCalls, SignIn(u, c)
  PROVE  IInv'
<1> USE DEF IInv
<1>1. /\ session' = u /\ UNCHANGED store /\ launching' = launching
      /\ Ask({c, "awaited"}) /\ KeepGate
      /\ status \in {"signedOut", "unauthorized"}
  BY DEF SignIn
<1>2. {c, "awaited"} \in SUBSET Calls
  BY DEF Calls
<1>3. /\ calls' \in [Calls -> Users \cup {NoUser, "idle", "asking"}]
      /\ calls'[c] = "asking"
  BY <1>1, <1>2, AskTypes
<1>4. TypeOK' /\ ChoiceInv'
  BY <1>1, <1>3, KeepGateKeeps DEF TypeOK
<1>5. ~Quiet'
  BY <1>2, <1>3 DEF Quiet, Free
<1>6. GateFollowsSession'
  BY <1>1, <1>5 DEF GateFollowsSession, KeepGate
<1> QED
  BY <1>4, <1>6

LEMMA TokenRefreshedInv ==
  ASSUME IInv, NEW c \in EventCalls, TokenRefreshed(c)
  PROVE  IInv'
<1> USE DEF IInv
<1>1. session' = session /\ UNCHANGED <<store, launching>> /\ Ask({c}) /\ KeepGate
  BY DEF TokenRefreshed, device
<1>2. /\ calls' \in [Calls -> Users \cup {NoUser, "idle", "asking"}]
      /\ c \in Calls /\ calls'[c] = "asking"
  BY <1>1, AskTypes DEF Calls
<1>3. TypeOK' /\ ChoiceInv'
  BY <1>1, <1>2, KeepGateKeeps DEF TypeOK
<1>4. GateFollowsSession'
  BY <1>1, <1>2, AskingIsNotQuiet DEF KeepGate
<1> QED
  BY <1>3, <1>4

\* The session ends, noticed by the SDK or asked for by the user.
LEMMA SessionEndsInv ==
  ASSUME IInv, SessionLost \/ SignOut
  PROVE  IInv'
<1> USE DEF IInv
<1>1. session' = NoUser /\ Closed /\ UNCHANGED <<store, launching, calls>>
  BY DEF SessionLost, SignOut
<1>2. ("signedOut" = "signedIn") = (NoUser # NoUser)
  OBVIOUS
<1>3. TypeOK' /\ ChoiceInv'
  BY <1>1, <1>2, SetGateKeeps DEF Closed, TypeOK
<1>4. GateFollowsSession'
  BY <1>1, ClosedFollows
<1> QED
  BY <1>3, <1>4

\* The gate closes over a session that stays, and the history says so.
LEMMA SignOutOfflineInv ==
  ASSUME IInv, SignOutOffline
  PROVE  IInv'
<1> USE DEF IInv
<1>1. SetGate("signedOut", NoUser, TRUE) /\ UNCHANGED <<device, launching, calls>>
  BY DEF SignOutOffline
<1>2. ("signedOut" = "signedIn") = (NoUser # NoUser)
  OBVIOUS
<1>3. TypeOK' /\ ChoiceInv'
  BY <1>1, <1>2, SetGateKeeps DEF device, TypeOK
<1>4. misled'
  BY <1>1 DEF SetGate
<1> QED
  BY <1>3, <1>4 DEF GateFollowsSession

LEMMA SendInv ==
  ASSUME IInv, NEW c \in Calls, Send(c)
  PROVE  IInv'
<1> USE DEF IInv
<1>1. /\ calls' = [calls EXCEPT ![c] = session] /\ KeepGate
      /\ session' = session /\ UNCHANGED <<store, launching>>
  BY DEF Send, device
<1>2. /\ calls' \in [Calls -> Users \cup {NoUser, "idle", "asking"}]
      /\ calls'[c] # "idle"
  BY <1>1, MarksAssumption DEF TypeOK
<1>3. TypeOK' /\ ChoiceInv'
  BY <1>1, <1>2, KeepGateKeeps DEF TypeOK
<1>4. GateFollowsSession'
  BY <1>1, <1>2, AskingIsNotQuiet DEF KeepGate
<1> QED
  BY <1>3, <1>4

\* An answer for a user of an admitted role opens the gate for that user.
LEMMA WelcomedInv ==
  ASSUME IInv, NEW c \in Calls, Welcomed(c)
  PROVE  IInv'
<1> USE DEF IInv
<1> DEFINE who == calls[c]
<1>1. /\ who \in Admitted /\ who # NoUser
      /\ calls' = [calls EXCEPT ![c] = "idle"] /\ UNCHANGED <<device, launching>>
      /\ SetGate("signedIn", who, who # session)
  BY NullsAssumption DEF Welcomed, Answered, Admitted, Users
<1>2. TypeOK' /\ ChoiceInv'
  <2>1. /\ calls' \in [Calls -> Users \cup {NoUser, "idle", "asking"}]
        /\ launching' \subseteq {"hydrate", "initial"}
        /\ session' \in Users \cup {NoUser} /\ UNCHANGED store
    BY <1>1 DEF TypeOK, device
  <2>2. ("signedIn" = "signedIn") = (who # NoUser)
    BY <1>1
  <2>3. (who # session) \in BOOLEAN
    OBVIOUS
  <2> HIDE DEF who
  <2> QED
    BY <1>1, <2>1, <2>2, <2>3, SetGateKeeps
<1>3. /\ status' = "signedIn" /\ user' = who /\ misled' = (who # session)
      /\ session' = session
  BY <1>1 DEF SetGate, device
<1>4. GateFollowsSession'
  BY <1>1, <1>3 DEF GateFollowsSession
<1> QED
  BY <1>2, <1>4

\* A refusal is right about the session when that session sent it and its user has
\* another role: a user has one role, so is not admitted.
LEMMA RefusedInv ==
  ASSUME IInv, NEW c \in Calls, Refused(c)
  PROVE  IInv'
<1> USE DEF IInv
<1> DEFINE who == calls[c]
           doubt == who \notin Strangers \/ who # session
<1>1. /\ calls' = [calls EXCEPT ![c] = "idle"] /\ UNCHANGED <<device, launching>>
      /\ SetGate("unauthorized", NoUser, doubt)
  BY DEF Refused, Answered
<1>2. TypeOK' /\ ChoiceInv'
  <2>1. /\ calls' \in [Calls -> Users \cup {NoUser, "idle", "asking"}]
        /\ launching' \subseteq {"hydrate", "initial"}
        /\ session' \in Users \cup {NoUser} /\ UNCHANGED store
    BY <1>1 DEF TypeOK, device
  <2>2. ("unauthorized" = "signedIn") = (NoUser # NoUser)
    OBVIOUS
  <2>3. doubt \in BOOLEAN
    OBVIOUS
  <2> HIDE DEF doubt
  <2> QED
    BY <1>1, <2>1, <2>2, <2>3, SetGateKeeps
<1>3. /\ status' = "unauthorized" /\ misled' = doubt /\ session' = session
  BY <1>1 DEF SetGate, device
<1>4. ~doubt => session' \in Strangers /\ session' \notin Admitted /\ session' # NoUser
  BY <1>3, RolesAssumption, NullsAssumption DEF Users
<1>5. doubt => GateFollowsSession'
  BY <1>3 DEF GateFollowsSession
<1>6. ~doubt => GateFollowsSession'
  <2>1. ("unauthorized" = "signedIn") = FALSE
    OBVIOUS
  <2>2. ~doubt => (Quiet' => (status' = "signedIn") = (session' \in Admitted))
    BY <1>3, <1>4, <2>1
  <2> QED
    BY <1>3, <1>4, <2>2 DEF GateFollowsSession
<1> QED
  BY <1>2, <1>5, <1>6

LEMMA UnreachedInv ==
  ASSUME IInv, NEW c \in Calls, Unreached(c)
  PROVE  IInv'
<1> USE DEF IInv
<1>1. /\ calls' = [calls EXCEPT ![c] = "idle"] /\ UNCHANGED <<device, launching>>
      /\ SetGate("signedOut", NoUser, TRUE)
  BY DEF Unreached, Answered
<1>2. /\ calls' \in [Calls -> Users \cup {NoUser, "idle", "asking"}]
      /\ ("signedOut" = "signedIn") = (NoUser # NoUser)
  BY <1>1 DEF TypeOK
<1>3. TypeOK' /\ ChoiceInv'
  BY <1>1, <1>2, SetGateKeeps DEF device, TypeOK
<1>4. misled'
  BY <1>1 DEF SetGate
<1> QED
  BY <1>3, <1>4 DEF GateFollowsSession

-----------------------------------------------------------------------------
(* The steps of the query.                                                 *)

LEMMA RefocusInv ==
  ASSUME IInv, Refocus
  PROVE  IInv'
<1> USE DEF IInv
<1>1. /\ fetch' = [as |-> "asking", left |-> Retries] /\ failed' = FALSE
      /\ union' = union /\ UNCHANGED <<device, gate>> /\ Effect
  BY DEF Refocus, StartFetch
<1>2. fetch' \in Fetch
  BY <1>1, RetriesAssumption DEF Fetch
<1>3. TypeOK' /\ ChoiceInv'
  BY <1>1, <1>2, QueryKeeps DEF TypeOK
<1>4. GateFollowsSession'
  BY <1>1, SameGate DEF device
<1> QED
  BY <1>3, <1>4

LEMMA SendFetchInv ==
  ASSUME IInv, SendFetch
  PROVE  IInv'
<1> USE DEF IInv
<1>1. /\ fetch \in Fetch /\ fetch' = [fetch EXCEPT !.as = session]
      /\ UNCHANGED <<device, gate, union, failed, choice>>
  BY DEF SendFetch, TypeOK
<1>2. fetch' \in Fetch
  BY <1>1 DEF Fetch, TypeOK
<1>3. TypeOK'
  BY <1>1, <1>2 DEF TypeOK, device, store, gate, choice
<1>4. ChoiceInv'
  BY <1>1 DEF ChoiceInv, Saving, SiteOfUnion, ChoiceIsStored, device, store, gate, choice
<1>5. GateFollowsSession'
  BY <1>1, SameGate DEF device
<1> QED
  BY <1>3, <1>4, <1>5

LEMMA UnionArrivesInv ==
  ASSUME IInv, NEW ss \in SUBSET Sites, NEW p \in Sites \cup {NoSite}, UnionArrives(ss, p)
  PROVE  IInv'
<1> USE DEF IInv
<1>1. /\ union' = [sites |-> ss, primary |-> p] /\ failed' = FALSE /\ fetch' = NoFetch
      /\ UNCHANGED <<device, gate>> /\ Effect
  BY DEF UnionArrives
<1>2. union' \in Union
  BY <1>1 DEF Union
<1>3. TypeOK' /\ ChoiceInv'
  BY <1>1, <1>2, QueryKeeps
<1>4. GateFollowsSession'
  BY <1>1, SameGate DEF device
<1> QED
  BY <1>3, <1>4

LEMMA FetchFailsInv ==
  ASSUME IInv, FetchFails
  PROVE  IInv'
<1> USE DEF IInv
<1>1. /\ fetch \in Fetch
      /\ fetch' = IF fetch.left > 0 THEN [as |-> "asking", left |-> fetch.left - 1] ELSE NoFetch
      /\ failed' = (fetch.left = 0 /\ union = NoUnion)
      /\ union' = union /\ UNCHANGED <<device, gate>> /\ Effect
  BY DEF FetchFails, TypeOK
<1>2. fetch' \in Fetch \cup {NoFetch}
  <2>1. fetch.left \in 0..Retries
    BY <1>1 DEF Fetch
  <2>2. fetch.left > 0 => [as |-> "asking", left |-> fetch.left - 1] \in Fetch
    BY <2>1, RetriesAssumption DEF Fetch
  <2> QED
    BY <1>1, <2>2
<1>3. failed' \in BOOLEAN /\ (failed' => union' = NoUnion)
  BY <1>1
<1>4. TypeOK' /\ ChoiceInv'
  BY <1>1, <1>2, <1>3, QueryKeeps DEF TypeOK
<1>5. GateFollowsSession'
  BY <1>1, SameGate DEF device
<1> QED
  BY <1>4, <1>5

-----------------------------------------------------------------------------
(* The steps of the choice.                                                *)

\* A step of the choice keeps what the union and the gate say.
LEMMA SameUnion ==
  ASSUME UNCHANGED <<gate, query>>
  PROVE  /\ Waiting(status, union, failed)' = Waiting(status, union, failed)
         /\ SitesOf(union)' = SitesOf(union) /\ union' = union
BY DEF Waiting, SitesOf, gate, query

\* One more write of a site is under way, and of no other site if none was before.
LEMMA SaveStartsTypes ==
  ASSUME TypeOK, NEW s \in Sites, SaveStarts(s)
  PROVE  /\ saving' \in [Sites -> 0..MaxSaves]
         /\ Saving'
         /\ ~Saving => \A t \in Sites : saving'[t] > 0 => t = s
BY RetriesAssumption DEF TypeOK, SaveStarts, Saving

\* A write that ends leaves the others; one that lands and was the only one leaves its
\* site stored.
LEMMA SaveEndsInv ==
  ASSUME IInv, NEW s \in Sites, SaveEnds(s)
  PROVE  IInv'
<1> USE DEF IInv
<1>1. /\ saving[s] > 0 /\ saving' = [saving EXCEPT ![s] = @ - 1]
      /\ \/ pref' = s /\ slipped' = slipped
         \/ pref' = pref /\ slipped' = TRUE
      /\ UNCHANGED <<session, gate, query, choice>>
  BY DEF SaveEnds
<1>2. TypeOK'
  <2>1. saving' \in [Sites -> 0..MaxSaves]
    BY <1>1, RetriesAssumption DEF TypeOK
  <2>2. pref' \in Sites \cup {NoSite} /\ slipped' \in BOOLEAN
    BY <1>1 DEF TypeOK
  <2>3. UNCHANGED <<session, gate, query, choice>>
    BY <1>1
  <2> QED
    BY <2>1, <2>2, <2>3 DEF TypeOK, gate, query, choice
<1>3. Saving /\ \A t \in Sites : saving'[t] > 0 => saving[t] > 0
  BY <1>1, RetriesAssumption DEF TypeOK, Saving
<1>4. ChoiceInv'
  <2>1. (restoring \in Sites \cup {NoSite})' => slipped'
    BY <1>1, <1>3 DEF ChoiceInv, choice
  <2>2. ChoiceIsStored'
    <3>1. SUFFICES ASSUME (ready /\ site # NoSite /\ ~slipped)'
          PROVE  IF Saving' THEN \A t \in Sites : saving'[t] > 0 => t = site ELSE pref' = site
      BY <1>1 DEF ChoiceIsStored, choice
    <3>2. /\ ready /\ site # NoSite /\ ~slipped /\ pref' = s
      BY <1>1, <3>1 DEF choice
    <3>3. \A t \in Sites : saving[t] > 0 => t = site
      BY <1>3, <3>2 DEF ChoiceInv, ChoiceIsStored
    <3> QED
      BY <1>1, <1>3, <3>2, <3>3
  <2> QED
    <3>1. UNCHANGED <<ready, restoring, site>>
      BY <1>1 DEF choice
    <3>2. UNCHANGED <<gate, query>>
      BY <1>1
    <3> QED
      BY <2>1, <2>2, <3>1, <3>2, SameUnion DEF ChoiceInv, SiteOfUnion
<1>5. GateFollowsSession'
  BY <1>1, SameGate
<1> QED
  BY <1>2, <1>4, <1>5

\* The preference is read, or cannot be: what was under way then is remembered.
LEMMA ReadEndsInv ==
  ASSUME IInv, ReadEnds
  PROVE  IInv'
<1> USE DEF IInv
<1>1. /\ restoring = "reading"
      /\ \/ restoring' = pref /\ slipped' = Saving
         \/ restoring' = "lost" /\ slipped' = slipped
      /\ UNCHANGED <<session, pref, saving, gate, query, site, ready>>
  BY DEF ReadEnds, ReadPref, ReadPrefFails, device, store
<1>2. ~ready /\ ~Waiting(status, union, failed) /\ SitesOf(union) # {}
  BY <1>1 DEF ChoiceInv
<1>3. Saving \in BOOLEAN /\ Saving' = Saving
  BY <1>1 DEF Saving
<1>4. TypeOK'
  BY <1>1, <1>2, <1>3 DEF TypeOK, Waiting, gate, query
<1>5. ChoiceInv'
  <2>1. (restoring \in Sites \cup {NoSite} /\ ~slipped)' => ~Saving' /\ restoring' = pref'
    BY <1>1, <1>3, MarksAssumption
  <2> QED
    BY <1>1, <1>2, <2>1, SameUnion DEF ChoiceInv, SiteOfUnion, ChoiceIsStored
<1>6. GateFollowsSession'
  BY <1>1, SameGate
<1> QED
  BY <1>4, <1>5, <1>6

\* The restoration takes a site of the union, the stored one if it is there, and
\* writes back any other.
LEMMA RestoreInv ==
  ASSUME IInv, Restore
  PROVE  IInv'
<1> USE DEF IInv
<1> DEFINE next == IF restoring \in union.sites THEN restoring ELSE Fallback(union)
<1>1. /\ restoring \in Sites \cup {NoSite} /\ site' = next
      /\ IF next # restoring THEN SaveStarts(next) ELSE saving' = saving
      /\ ready' = TRUE /\ restoring' = "nothing"
      /\ UNCHANGED <<session, pref, slipped, gate, query>>
  BY DEF Restore
<1>2. ~Waiting(status, union, failed) /\ SitesOf(union) # {}
  BY <1>1, MarksAssumption DEF ChoiceInv
<1>3. /\ SitesOf(union) = union.sites
      /\ union.sites \subseteq Sites /\ union.sites # {}
  BY <1>2, SitesOfUnion DEF TypeOK
<1>4. next \in union.sites /\ next \in Sites
  BY <1>3 DEF Fallback
<1> HIDE DEF next
<1>5. saving' \in [Sites -> 0..MaxSaves]
  BY <1>1, <1>4, SaveStartsTypes DEF TypeOK
<1>6. TypeOK'
  BY <1>1, <1>4, <1>5 DEF TypeOK, gate, query
<1>7. ChoiceIsStored'
  <2>1. SUFFICES ASSUME ~slipped
        PROVE  IF Saving' THEN \A t \in Sites : saving'[t] > 0 => t = next ELSE pref' = next
    BY <1>1 DEF ChoiceIsStored
  <2>2. ~Saving /\ restoring = pref
    BY <1>1, <2>1 DEF ChoiceInv
  <2>3. CASE next # restoring
    BY <1>1, <1>4, <2>2, <2>3, SaveStartsTypes
  <2>4. CASE next = restoring
    BY <1>1, <2>2, <2>4 DEF Saving
  <2> QED
    BY <2>3, <2>4
<1>8. ChoiceInv'
  BY <1>1, <1>2, <1>3, <1>4, <1>7, SameUnion, MarksAssumption DEF ChoiceInv, SiteOfUnion
<1>9. GateFollowsSession'
  BY <1>1, SameGate
<1> QED
  BY <1>6, <1>8, <1>9

\* The picker offers the sites of the union, and is there when nothing is restored.
LEMMA PickSiteInv ==
  ASSUME IInv, NEW s \in Sites, PickSite(s)
  PROVE  IInv'
<1> USE DEF IInv
<1>1. /\ ready /\ s \in union.sites /\ site' = s
      /\ SaveStarts(s) /\ slipped' = Saving
      /\ UNCHANGED <<session, pref, gate, query, ready, restoring>>
  BY DEF PickSite
<1>2. restoring = "nothing"
  BY <1>1 DEF TypeOK
<1>3. /\ saving' \in [Sites -> 0..MaxSaves] /\ Saving'
      /\ ~Saving => \A t \in Sites : saving'[t] > 0 => t = s
  BY <1>1, SaveStartsTypes
<1>4. Saving \in BOOLEAN
  BY DEF Saving
<1>5. TypeOK'
  BY <1>1, <1>3, <1>4 DEF TypeOK, gate, query
<1>6. SitesOf(union) # {}
  <2>1. Cardinality(SitesOf(union)) > 1
    BY DEF PickSite
  <2> QED
    BY <2>1, FS_EmptySet
<1>7. ChoiceIsStored'
  BY <1>1, <1>3 DEF ChoiceIsStored
<1>8. ChoiceInv'
  BY <1>1, <1>2, <1>6, <1>7, SameUnion, MarksAssumption DEF ChoiceInv, SiteOfUnion
<1>9. GateFollowsSession'
  BY <1>1, SameGate
<1> QED
  BY <1>5, <1>8, <1>9

\* A launched app starts over, but for what the device keeps.
LEMMA RelaunchInv ==
  ASSUME IInv, Relaunch
  PROVE  IInv'
<1> USE DEF IInv
<1>1. TypeOK'
  <2>1. saving' \in [Sites -> 0..MaxSaves] /\ calls' \in [Calls -> {"idle"}]
    BY RetriesAssumption DEF Relaunch
  <2>2. \A b \in {failed, ready, misled, slipped}' : b \in BOOLEAN
    BY DEF Relaunch
  <2> QED
    BY <2>1, <2>2, NullsAssumption DEF Relaunch, TypeOK
<1>2. ChoiceInv'
  BY MarksAssumption DEF Relaunch, ChoiceInv, SiteOfUnion, ChoiceIsStored
<1>3. GateFollowsSession'
  BY DEF Relaunch, GateFollowsSession, Quiet
<1> QED
  BY <1>1, <1>2, <1>3

-----------------------------------------------------------------------------
LEMMA EventsInv == IInv /\ Events => IInv'
<1> SUFFICES ASSUME IInv, Events PROVE IInv'
  OBVIOUS
<1>1. CASE \E c \in EventCalls : TokenRefreshed(c) \/ \E u \in Users : SignIn(u, c)
  BY <1>1, TokenRefreshedInv, SignInInv
<1>2. CASE SessionLost \/ SignOut \/ SignOutOffline
  BY <1>2, SessionEndsInv, SignOutOfflineInv
<1>3. CASE Refocus \/ Relaunch \/ \E s \in Sites : PickSite(s)
  BY <1>3, RefocusInv, RelaunchInv, PickSiteInv
<1> QED
  BY <1>1, <1>2, <1>3 DEF Events

LEMMA NextInv == IInv /\ [Next]_vars => IInv'
<1> SUFFICES ASSUME IInv, [Next]_vars PROVE IInv'
  OBVIOUS
<1>1. CASE UNCHANGED vars
  BY <1>1 DEF vars, device, store, gate, query, choice, IInv, TypeOK, ChoiceInv, Waiting,
       SitesOf, Saving, SiteOfUnion, ChoiceIsStored, GateFollowsSession, Quiet, Free
<1>2. CASE Launch
  <2>1. "awaited" \in Calls /\ EventCalls \subseteq Calls
    BY DEF Calls
  <2> QED
    BY <1>2, <2>1, LookInv DEF Launch
<1>3. CASE \E c \in Calls : Send(c) \/ Answer(c)
  BY <1>3, SendInv, WelcomedInv, RefusedInv, UnreachedInv DEF Answer
<1>4. CASE SendFetch \/ FetchEnds
  BY <1>4, SendFetchInv, UnionArrivesInv, FetchFailsInv DEF FetchEnds
<1> QED
  BY <1>1, <1>2, <1>3, <1>4, EventsInv, ReadEndsInv, RestoreInv, SaveEndsInv DEF Next

LEMMA Invariance == Spec => []IInv
BY InitInv, NextInv, PTL DEF Spec

\* The gate and the user change together, and a fetch never has more retries left
\* than the QueryClient grants.
THEOREM TypeCorrect == Spec => []TypeOK
<1>1. IInv => TypeOK
  BY DEF IInv
<1> QED
  BY <1>1, Invariance, PTL

\* Whatever answers arrive in whatever order, the drawer is open for nobody but the
\* user of the session, and at rest exactly for the admitted ones, unless the last
\* answer was a failure or another session's.
THEOREM GateIsRight == Spec => []GateFollowsSession
<1>1. IInv => GateFollowsSession
  BY DEF IInv
<1> QED
  BY <1>1, Invariance, PTL

\* A screen that is ready works on a site of the union the app holds.
THEOREM SiteIsOfTheUnion == Spec => []SiteOfUnion
<1>1. IInv => SiteOfUnion
  BY DEF IInv, ChoiceInv
<1> QED
  BY <1>1, Invariance, PTL

\* No restoration puts back an older site than the foreman's choice and no write of an
\* older one is left to end after it, for any number of writes under way, but for the
\* two things nobody waits for or looks at: a write that fails, and one that is under
\* way at the next choice or read.
THEOREM ChoiceSurvives == Spec => []ChoiceIsStored
<1>1. IInv => ChoiceIsStored
  BY DEF IInv, ChoiceInv
<1> QED
  BY <1>1, Invariance, PTL
=============================================================================
