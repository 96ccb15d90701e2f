----------------------------- MODULE ForemanApp -----------------------------
(***************************************************************************)
(* The Foreman app between its login screen and the site it works on.      *)
(*                                                                         *)
(* The Supabase SDK owns the session.  AuthProvider asks GET /auth/me who  *)
(* the session belongs to: at launch (twice: its own getSession and the    *)
(* SDK's first event), at every event of the SDK that carries a session,   *)
(* and once more inside signIn.  A call attaches the token of the moment   *)
(* it is sent, none is ever cancelled, and the answer that arrives last    *)
(* sets the gate.                                                          *)
(*                                                                         *)
(* ActiveSiteProvider keeps the union of sites that GET /foreman-sites     *)
(* answered in a cache that outlives the session, and restores the stored  *)
(* choice whenever the union changes.  The store of the device is read and *)
(* written asynchronously: nobody awaits a write or looks whether it       *)
(* failed, a read may fail too, and nothing orders those under way.        *)
(*                                                                         *)
(* The manager and worker apps have the same AuthProvider with other       *)
(* roles, and no sites.                                                    *)
(***************************************************************************)
EXTENDS FiniteSets, Naturals

CONSTANTS
  Foremen,      \* users whom /foreman-sites answers
  Overseers,    \* managers and admins: admitted, but 403 at /foreman-sites
  Strangers,    \* users of other roles
  Sites,
  EventCalls,   \* calls of resolveMe from SDK events, in flight at once
  Retries,      \* retry of the QueryClient
  MaxSaves,     \* writes of one site to the store, under way at once (a bound)
  NoUser, NoSite, NoUnion

Users    == Foremen \cup Overseers \cup Strangers
Admitted == Foremen \cup Overseers
\* The call that the launch effect or signIn awaits, and those nobody awaits.
Calls    == {"awaited"} \cup EventCalls

\* An answer of /foreman-sites; whose it is, nothing in the app remembers.
Union == [sites : SUBSET Sites, primary : Sites \cup {NoSite}]
Fetch == [as : Users \cup {NoUser, "asking"}, left : 0..Retries]

ASSUME RetriesAssumption == Retries \in Nat /\ MaxSaves \in Nat
ASSUME NullsAssumption   == NoUser \notin Users /\ NoSite \notin Sites /\ NoUnion \notin Union
\* A user has one role.
ASSUME RolesAssumption   == Admitted \cap Strangers = {}
\* The marks of a call and of a restoration that carry no value yet.
ASSUME MarksAssumption   ==
  /\ {"idle", "asking"} \cap (Users \cup {NoUser}) = {}
  /\ {"nothing", "reading", "lost"} \cap (Sites \cup {NoSite}) = {}
  /\ "awaited" \notin EventCalls

VARIABLES
  session,     \* the SDK's session, on the device
  pref,        \* sitelink_foreman_active_site, on the device
  saving,      \* the writes of each site to it that have not ended
  slipped,     \* history: since the site was last set or the preference last read, a
               \* write failed, or writes or a write and the read were under way at once
  launching,   \* what the launch has still to look at
  status,      \* AuthProvider
  user,
  calls,       \* each resolveMe: not running, its token not yet read, or sent as
  union,       \* the data of the foremanSites query
  failed,      \* the query has no data and ended in an error
  fetch,       \* the fetch of the query, if any
  site,        \* activeSiteId
  ready,
  restoring,   \* the restoration: reading, what it read, or "lost" when that failed
  misled       \* history: status was last set by a failure or for another session

store  == <<pref, saving, slipped>>
device == <<session, store>>
gate   == <<launching, status, user, calls, misled>>
query  == <<union, failed, fetch>>
choice == <<site, ready, restoring>>
vars   == <<device, gate, query, choice>>

NoFetch == [as |-> "asking", left |-> Retries + 1]

TypeOK ==
  /\ session   \in Users \cup {NoUser}
  /\ pref      \in Sites \cup {NoSite}
  /\ saving    \in [Sites -> 0..MaxSaves]
  /\ launching \subseteq {"hydrate", "initial"}
  /\ status    \in {"loading", "signedOut", "signedIn", "unauthorized"}
  /\ user      \in Admitted \cup {NoUser}
  /\ calls     \in [Calls -> Users \cup {NoUser, "idle", "asking"}]
  /\ union     \in Union \cup {NoUnion}
  /\ fetch     \in Fetch \cup {NoFetch}
  /\ site      \in Sites \cup {NoSite}
  /\ restoring \in Sites \cup {NoSite, "nothing", "reading", "lost"}
  /\ \A b \in {failed, ready, misled, slipped} : b \in BOOLEAN
  \* The gate and the user change together; the picker waits for the gate.
  /\ (status = "signedIn") = (user # NoUser)
  /\ failed => union = NoUnion
  /\ restoring # "nothing" => ~ready /\ status = "signedIn"

-----------------------------------------------------------------------------
(* ActiveSiteProvider's effect: it runs again when the union or the wait   *)
(* for it changes, and a new run discards the restoration of the last.     *)

SitesOf(u) == IF u = NoUnion THEN {} ELSE u.sites

\* unionLoading
Waiting(s, u, f) == s # "signedIn" \/ (u = NoUnion /\ ~f)

\* fallbackSiteId: the primary site, else the first.
Fallback(u) ==
  IF u.primary \in u.sites THEN u.primary ELSE CHOOSE s \in u.sites : TRUE

EffectRuns ==
  \/ Waiting(status, union, failed) # Waiting(status', union', failed')
  \/ SitesOf(union) # SitesOf(union')
  \/ union # NoUnion /\ union' # NoUnion /\ union.primary # union'.primary

Effect ==
  IF EffectRuns THEN
    LET empty == ~Waiting(status', union', failed') /\ SitesOf(union') = {}
    IN  /\ ready'     = empty
        /\ site'      = IF empty THEN NoSite ELSE site
        /\ restoring' = IF empty \/ Waiting(status', union', failed') THEN "nothing" ELSE "reading"
  ELSE UNCHANGED choice

-----------------------------------------------------------------------------
(* The foremanSites query, enabled while signed in.  Signing in fetches    *)
(* when there are no data; older data count as fresh for 30 s.             *)

StartFetch == fetch' = [as |-> "asking", left |-> Retries] /\ failed' = FALSE

Enabled ==
  LET turnsOn == status # "signedIn" /\ status' = "signedIn"
  IN  \/ turnsOn /\ fetch = NoFetch /\ StartFetch
      \/ ~turnsOn /\ UNCHANGED <<fetch, failed>>
      \/ turnsOn /\ (fetch # NoFetch \/ union # NoUnion) /\ UNCHANGED <<fetch, failed>>

\* Every change of the gate: status, user, and what hangs on them.
SetGate(s, u, doubt) ==
  /\ status' = s
  /\ user'   = u
  /\ misled' = doubt
  /\ UNCHANGED union
  /\ Enabled
  /\ Effect

-----------------------------------------------------------------------------
(* AuthProvider.                                                           *)

Free(c)  == calls[c] = "idle"
Ask(cs)  == calls' = [c \in Calls |-> IF c \in cs THEN "asking" ELSE calls[c]]
KeepGate == UNCHANGED <<status, user, misled, query, choice>>

\* Mutant: the listener minds the end of a session only at launch.
ClosedAtLaunch ==
  IF status = "loading" THEN SetGate("signedOut", NoUser, FALSE) ELSE KeepGate

\* onAuthStateChange without a session.
Closed == SetGate("signedOut", NoUser, FALSE)

Init ==
  /\ session \in Users \cup {NoUser} /\ pref \in Sites \cup {NoSite}
  /\ saving = [s \in Sites |-> 0] /\ slipped = FALSE
  /\ launching = {"hydrate", "initial"} /\ status = "loading" /\ user = NoUser
  /\ calls = [c \in Calls |-> "idle"] /\ misled = FALSE
  /\ union = NoUnion /\ failed = FALSE /\ fetch = NoFetch
  /\ site = NoSite /\ ready = FALSE /\ restoring = "nothing"

\* The mount effect's getSession and the SDK's INITIAL_SESSION, in either order.
Look(l, c) ==
  /\ l \in launching
  /\ launching' = launching \ {l}
  /\ \/ session # NoUser /\ Free(c) /\ Ask({c}) /\ KeepGate
     \/ session = NoUser /\ UNCHANGED calls /\ Closed
  /\ UNCHANGED device

Launch == Look("hydrate", "awaited") \/ \E c \in EventCalls : Look("initial", c)

\* signInWithPassword succeeds: its event and signIn itself both resolve the user.
SignIn(u, c) ==
  /\ launching = {}
  /\ status \in {"signedOut", "unauthorized"}
  /\ Free(c) /\ Free("awaited")
  /\ session' = u
  /\ Ask({c, "awaited"})
  /\ KeepGate
  /\ UNCHANGED <<store, launching>>

\* The SDK refreshes the token and says so.
TokenRefreshed(c) ==
  /\ launching = {}
  /\ session # NoUser
  /\ Free(c)
  /\ Ask({c})
  /\ KeepGate
  /\ UNCHANGED <<device, launching>>

\* The refresh is refused: the account is banned or gone.
SessionLost ==
  /\ launching = {}
  /\ session # NoUser
  /\ session' = NoUser
  /\ Closed
  /\ UNCHANGED <<store, launching, calls>>

SignOut ==
  /\ status = "signedIn"
  /\ session' = NoUser
  /\ Closed
  /\ UNCHANGED <<store, launching, calls>>

\* The SDK cannot reach its server: it keeps the session, signOut goes on.
SignOutOffline ==
  /\ status = "signedIn"
  /\ SetGate("signedOut", NoUser, TRUE)
  /\ UNCHANGED <<device, launching, calls>>

\* getAccessToken reads the session of this moment, and the call is sent.
Send(c) ==
  /\ calls[c] = "asking"
  /\ calls' = [calls EXCEPT ![c] = session]
  /\ KeepGate
  /\ UNCHANGED <<device, launching>>

Answered(c) ==
  /\ calls[c] \in Users \cup {NoUser}
  /\ calls' = [calls EXCEPT ![c] = "idle"]
  /\ UNCHANGED <<device, launching>>

Welcomed(c) ==
  /\ calls[c] \in Admitted
  /\ Answered(c)
  /\ SetGate("signedIn", calls[c], calls[c] # session)

\* Mutant: the refused call leaves the user of before in place.
RefusedKeepsUser(c) ==
  /\ Answered(c)
  /\ SetGate("unauthorized", user, calls[c] \notin Strangers \/ calls[c] # session)

\* Another role; or 401: no token, no app user, locked out.
Refused(c) ==
  /\ Answered(c)
  /\ SetGate("unauthorized", NoUser, calls[c] \notin Strangers \/ calls[c] # session)

\* Mutant: a failure that is not an answer changes nothing.
UnreachedIgnored(c) == Answered(c) /\ KeepGate

\* The network or the server fails.
Unreached(c) ==
  /\ Answered(c)
  /\ SetGate("signedOut", NoUser, TRUE)

-----------------------------------------------------------------------------
(* GET /foreman-sites.                                                     *)

\* The app returns to the foreground and the data are older than 30 s.
Refocus ==
  /\ status = "signedIn"
  /\ fetch = NoFetch
  /\ StartFetch
  /\ UNCHANGED union
  /\ UNCHANGED <<device, gate>>
  /\ Effect

SendFetch ==
  /\ fetch # NoFetch /\ fetch.as = "asking"
  /\ fetch' = [fetch EXCEPT !.as = session]
  /\ UNCHANGED <<device, gate, union, failed, choice>>

\* pickableSitesFor: the sites that are the foreman's at this moment.
UnionArrives(ss, p) ==
  /\ fetch.as \in Foremen
  /\ p \in ss \cup {NoSite}
  /\ union'  = [sites |-> ss, primary |-> p]
  /\ failed' = FALSE
  /\ fetch'  = NoFetch
  /\ UNCHANGED <<device, gate>>
  /\ Effect

\* 401, 403 (not a foreman), network; the retry reads the token again.
FetchFails ==
  /\ fetch # NoFetch /\ fetch.as # "asking"
  /\ fetch'  = IF fetch.left > 0 THEN [as |-> "asking", left |-> fetch.left - 1] ELSE NoFetch
  /\ failed' = (fetch.left = 0 /\ union = NoUnion)
  /\ UNCHANGED union
  /\ UNCHANGED <<device, gate>>
  /\ Effect

-----------------------------------------------------------------------------
(* The choice of the site.                                                 *)

Saving == \E s \in Sites : saving[s] > 0

\* saveActiveSitePref, which nobody awaits.
SaveStarts(s) ==
  /\ saving[s] < MaxSaves
  /\ saving' = [saving EXCEPT ![s] = @ + 1]

\* A write ends, in any order with the others; its failure is an unhandled rejection.
SaveEnds(s) ==
  /\ saving[s] > 0
  /\ saving' = [saving EXCEPT ![s] = @ - 1]
  /\ \/ pref' = s /\ UNCHANGED slipped
     \/ UNCHANGED pref /\ slipped' = TRUE
  /\ UNCHANGED <<session, gate, query, choice>>

\* loadActiveSitePref answers the restoration that no later effect has discarded.
ReadPref ==
  /\ restoring = "reading"
  /\ restoring' = pref
  /\ slipped'   = Saving
  /\ UNCHANGED <<session, pref, saving, gate, query, site, ready>>

\* It rejects: the effect has no catch, so nothing more is done until it runs again.
ReadPrefFails ==
  /\ restoring = "reading"
  /\ restoring' = "lost"
  /\ UNCHANGED <<device, gate, query, site, ready>>

\* Mutant: the stored site is not looked up in the union.
RestoreUnchecked ==
  /\ restoring \in Sites \cup {NoSite}
  /\ LET next == IF restoring # NoSite THEN restoring ELSE Fallback(union)
     IN  /\ site' = next
         /\ IF next # restoring THEN SaveStarts(next) ELSE UNCHANGED saving
  /\ ready'     = TRUE
  /\ restoring' = "nothing"
  /\ UNCHANGED <<session, pref, slipped, gate, query>>

\* The effect goes on with what it read; a fallback is written back.
Restore ==
  /\ restoring \in Sites \cup {NoSite}
  /\ LET next == IF restoring \in union.sites THEN restoring ELSE Fallback(union)
     IN  /\ site' = next
         /\ IF next # restoring THEN SaveStarts(next) ELSE UNCHANGED saving
  /\ ready'     = TRUE
  /\ restoring' = "nothing"
  /\ UNCHANGED <<session, pref, slipped, gate, query>>

\* Mutant: the picker is there before the restoration is over.
PickSiteEarly(s) ==
  /\ status = "signedIn" /\ union # NoUnion
  /\ Cardinality(union.sites) > 1 /\ s \in union.sites
  /\ site' = s
  /\ SaveStarts(s)
  /\ slipped' = Saving
  /\ UNCHANGED <<session, pref, gate, query, ready, restoring>>

\* SitePicker: shown by the screens once ready, a menu when there are several sites.
PickSite(s) ==
  /\ ready
  /\ Cardinality(SitesOf(union)) > 1 /\ s \in union.sites
  /\ site' = s
  /\ SaveStarts(s)
  /\ slipped' = Saving
  /\ UNCHANGED <<session, pref, gate, query, ready, restoring>>

\* The app is closed and opened again; writes that have not ended are lost.
Relaunch ==
  /\ launching' = {"hydrate", "initial"} /\ status' = "loading" /\ user' = NoUser
  /\ calls' = [c \in Calls |-> "idle"] /\ misled' = FALSE
  /\ union' = NoUnion /\ failed' = FALSE /\ fetch' = NoFetch
  /\ site' = NoSite /\ ready' = FALSE /\ restoring' = "nothing"
  /\ saving' = [s \in Sites |-> 0] /\ slipped' = FALSE
  /\ UNCHANGED <<session, pref>>

-----------------------------------------------------------------------------
Events ==
  \/ \E c \in EventCalls : TokenRefreshed(c) \/ \E u \in Users : SignIn(u, c)
  \/ SessionLost \/ SignOut \/ SignOutOffline
  \/ Refocus \/ Relaunch
  \/ \E s \in Sites : PickSite(s)

Answer(c) == Welcomed(c) \/ Refused(c) \/ Unreached(c)

FetchEnds ==
  \/ \E ss \in SUBSET Sites, p \in Sites \cup {NoSite} : UnionArrives(ss, p)
  \/ FetchFails

ReadEnds == ReadPref \/ ReadPrefFails

Next ==
  \/ Events
  \/ Launch
  \/ \E c \in Calls : Send(c) \/ Answer(c)
  \/ SendFetch \/ FetchEnds
  \/ ReadEnds \/ Restore
  \/ \E s \in Sites : SaveEnds(s)

\* Started calls run on, and the platform ends each of them, if only by its timeout.
\* A union that changes starts the restoration again; data are fresh for 30 s, so it
\* does not do so each time between the read and its continuation.
Fairness ==
  /\ WF_vars(Launch)
  /\ \A c \in Calls : WF_vars(Send(c)) /\ WF_vars(Answer(c))
  /\ WF_vars(SendFetch) /\ WF_vars(FetchEnds)
  /\ WF_vars(ReadEnds) /\ SF_vars(Restore)
  /\ \A s \in Sites : WF_vars(SaveEnds(s))

Spec     == Init /\ [][Next]_vars
FairSpec == Spec /\ Fairness

-----------------------------------------------------------------------------
Quiet == launching = {} /\ \A c \in Calls : Free(c)

\* The gate (App.tsx) follows the session: the drawer opens for nobody but the user
\* of the session, and once every call is answered it is open exactly for the admitted
\* ones.  What can lead it astray is only an answer to a call that another session
\* sent, or a call that failed, and only until the next answer.
GateFollowsSession ==
  misled \/ /\ status = "signedIn" => user = session
            /\ Quiet => (status = "signedIn") = (session \in Admitted)
            /\ Quiet /\ session = NoUser => status = "signedOut"

\* A screen that is ready works on a site of the union the app holds, and on none only
\* if that union is empty (ActiveSiteProvider, selection lifecycle): also after the
\* union shrank under the choice, or another user signed in on the device.
SiteOfUnion ==
  ready => IF SitesOf(union) = {} THEN site = NoSite ELSE site \in union.sites

\* What the screens work on is what the next launch restores, as soon as its write has
\* ended: no restoration puts back an older site than the foreman's choice, no write of
\* an older choice is left to end after it.  Nobody awaits a write or orders it before
\* the next read or write, so this takes that none failed and none overlapped.
ChoiceIsStored ==
  ready /\ site # NoSite /\ ~slipped =>
    IF Saving THEN \A s \in Sites : saving[s] > 0 => s = site ELSE pref = site

\* The gate has looked at the session and does not know the user yet, or is open and the
\* screens are not ready, although the preference was read.
Loading ==
  \/ status = "loading" /\ launching = {}
  \/ status = "signedIn" /\ ~ready /\ restoring # "lost"

\* Neither the gate nor the screens load for ever: answers, failures, sign-outs and
\* restorations that are discarded again and again all end somewhere.  The exception is a
\* read of the preference that failed: the screens then load until the union changes,
\* although `loading` is "true while the union is being fetched" by its comment.
LoadingEnds == []<>~Loading
=============================================================================
