---------------------------- MODULE PayslipShare ----------------------------
(***************************************************************************)
(* The payslip endpoints: /reports/payslip.pdf answers the PDF,            *)
(* payslip/email sends it to the worker's stored address, and              *)
(* payslip/whatsapp-link stores it and answers a signed URL.  All three    *)
(* compute the slip with two queries (the salary, then the table of hours),*)
(* render it (RenderJob, or in the process) and deliver it, while the      *)
(* worker and the attendance records change.                               *)
(*                                                                         *)
(* A slip is reduced to two numbers: the hours the salary was computed     *)
(* from, and the sum of the hours in its table.  The hours of the          *)
(* worker's attendance records are a set, each hour at a site or at none,  *)
(* so that a sum of hours is the size of a set.                            *)
(***************************************************************************)
EXTENDS RenderJob, FiniteSets

CONSTANTS
  WorkSites,   \* sites the worker has attendance records at
  Nowhere,     \* siteId of a record that names no site (NULL)
  MaxHours,    \* hours of the worker at one place (bounds the records)
  Addresses,   \* stored email addresses / phone numbers
  NoAddress,   \* the worker has none
  AllSites,    \* no siteId in the request
  NoShare

Kinds  == {"report", "email", "link"}
Places == WorkSites \cup {Nowhere}
Hour   == Places \X (1..MaxHours)

\* What the handler knows: the request, the two numbers, and (history) whether
\* records changed between the queries.
Share == [kind    : Kinds,
          site    : WorkSites \cup {AllSites},
          paid    : Nat,
          table   : Nat,
          between : BOOLEAN]

ASSUME SharesAssumption == /\ MaxHours \in Nat
                           /\ NoAddress \notin Addresses
                           /\ IsFiniteSet(WorkSites)
                           /\ Nowhere \notin WorkSites
                           /\ AllSites \notin WorkSites
                           /\ NoShare \notin Share

VARIABLES
  employed,   \* the Worker row exists
  address,    \* its email / phone
  worked,     \* the hours of its attendance records
  step,       \* where each share is
  share       \* its locals

workerVars == <<employed, address, worked>>
shareVars  == <<step, share>>
slipVars   == <<renderVars, workerVars, shareVars>>

SlipTypeOK ==
  /\ RenderTypeOK
  /\ employed \in BOOLEAN
  /\ address  \in Addresses \cup {NoAddress}
  /\ worked   \in SUBSET Hour
  /\ step     \in [Handlers -> {"idle", "salary", "hours", "render", "send", "upload", "sign"}]
  /\ share    \in [Handlers -> Share \cup {NoShare}]
  /\ \A c \in Handlers : step[c] = "idle" <=> share[c] = NoShare
  \* A rendering belongs to a share that waits for it.
  /\ \A c \in Handlers : stage[c] # "idle" <=> step[c] = "render"

SlipInit ==
  /\ RenderInit
  /\ employed = TRUE
  /\ address \in Addresses \cup {NoAddress}
  /\ worked \in SUBSET Hour
  /\ step   = [c \in Handlers |-> "idle"]
  /\ share  = [c \in Handlers |-> NoShare]

HoursAt(p) == {h \in worked : h[1] = p}

To(c, s) == step' = [step EXCEPT ![c] = s]

-----------------------------------------------------------------------------
\* The route: the worker exists and, to be sent anything, has an address.
BeginShare(c, kind, site) ==
  /\ step[c] = "idle"
  /\ employed
  /\ kind = "report" \/ address # NoAddress
  /\ To(c, "salary")
  /\ share' = [share EXCEPT ![c] =
                 [kind |-> kind, site |-> site, paid |-> 0, table |-> 0, between |-> FALSE]]
  /\ UNCHANGED <<renderVars, workerVars>>

\* The handler throws, or answers without delivering.
Fail(c) ==
  /\ To(c, "idle")
  /\ share' = [share EXCEPT ![c] = NoShare]
  /\ UNCHANGED workerVars

\* salary.calculate: the hours of the period at every site, whatever siteId is.
ReadSalary(c) ==
  /\ step[c] = "salary"
  /\ employed
  /\ share' = [share EXCEPT ![c].paid = Cardinality(worked)]
  /\ To(c, "hours")
  /\ UNCHANGED <<renderVars, workerVars>>

\* Mutant: without a siteId only records without a site are summed.
TableHoursOfNoSite(site) ==
  Cardinality(HoursAt(IF site = AllSites THEN Nowhere ELSE site))

\* attendance.workingHours: the records of the site asked for, or all of them.
TableHours(site) == Cardinality(IF site = AllSites THEN worked ELSE HoursAt(site))

\* The last query; then renderPdf starts.
ReadHours(c) ==
  /\ step[c] = "hours"
  /\ share' = [share EXCEPT ![c].table = TableHours(share[c].site)]
  /\ To(c, "render")
  /\ StartRender(c)
  /\ UNCHANGED workerVars

\* The worker is gone, the wage is not configured, or a query fails.
ReadFails(c) ==
  /\ step[c] \in {"salary", "hours"}
  /\ Fail(c)
  /\ UNCHANGED renderVars

RenderFailed(c) ==
  /\ stage[c] = "error"
  /\ TakeRender(c)
  /\ Fail(c)

Rendered(c) ==
  /\ stage[c] = "pdf"
  /\ TakeRender(c)
  /\ To(c, IF share[c].kind = "link" THEN "upload" ELSE "send")
  /\ UNCHANGED <<workerVars, share>>

\* The answer with the PDF, the email, or the answer with the link.
HandOver(c) ==
  /\ step[c] \in {"send", "sign"}
  /\ To(c, "idle")
  /\ share' = [share EXCEPT ![c] = NoShare]
  /\ UNCHANGED <<renderVars, workerVars>>

\* uploadObject under a fresh key; createSignedRead comes next.
Upload(c) ==
  /\ step[c] = "upload"
  /\ To(c, "sign")
  /\ UNCHANGED <<renderVars, workerVars, share>>

\* The mail server or the store refuses.
DeliveryFails(c) ==
  /\ step[c] \in {"send", "upload", "sign"}
  /\ Fail(c)
  /\ UNCHANGED renderVars

Handler(c) ==
  \/ ReadSalary(c) \/ ReadHours(c) \/ ReadFails(c)
  \/ RenderFailed(c) \/ Rendered(c)
  \/ Upload(c) \/ HandOver(c) \/ DeliveryFails(c)

-----------------------------------------------------------------------------
\* A record is created, corrected (its hours, its site) or removed while shares are
\* under way: the hours it had at one place go, the hours it has at another come.
EditHours ==
  /\ employed
  /\ \E p \in Places, q \in Places :
       \E had \in SUBSET HoursAt(p), has \in SUBSET ({q} \X (1..MaxHours)) :
         worked' = (worked \ had) \cup has /\ worked' # worked
  /\ share' = [c \in Handlers |-> IF step[c] = "hours"
                                 THEN [share[c] EXCEPT !.between = TRUE] ELSE share[c]]
  /\ UNCHANGED <<renderVars, employed, address, step>>

\* The worker's address is edited, or the worker is removed with the records.
EditWorker ==
  /\ employed
  /\ address' \in Addresses \cup {NoAddress}
  /\ UNCHANGED <<renderVars, employed, worked, shareVars>>

RemoveWorker ==
  /\ employed
  /\ employed' = FALSE
  /\ worked'   = {}
  /\ share' = [c \in Handlers |-> IF step[c] = "hours"
                                 THEN [share[c] EXCEPT !.between = TRUE] ELSE share[c]]
  /\ UNCHANGED <<renderVars, address, step>>

Rendering(c) ==
  /\ RenderStep(c) \/ Environment(c)
  /\ UNCHANGED <<workerVars, shareVars>>

SlipNext ==
  \/ \E c \in Handlers :
       \/ \E kind \in Kinds, site \in WorkSites \cup {AllSites} : BeginShare(c, kind, site)
       \/ Handler(c)
       \/ Rendering(c)
  \/ EditHours \/ EditWorker \/ RemoveWorker

\* A handler is an async function nothing suspends: its queries, its fetches and
\* its timers come back.  What the provider does with the job is not promised.
SlipFairness ==
  \A c \in Handlers :
    /\ WF_slipVars(Handler(c))
    /\ WF_slipVars(RenderStep(c) /\ UNCHANGED <<workerVars, shareVars>>)

SlipSpec     == SlipInit /\ [][SlipNext]_slipVars
FairSlipSpec == SlipSpec /\ SlipFairness
-----------------------------------------------------------------------------
\* The hours a payslip pays are the hours it lists, as long as no record changed
\* between the two queries; a slip of one site lists that site's hours and pays
\* those of all sites, since calculate() restricts the wage rule to the site and
\* not the records (salary/service.ts:85-91).
SlipsAddUp ==
  \A c \in Handlers :
    step[c] \in {"render", "send", "upload", "sign"} /\ ~share[c].between =>
      IF share[c].site = AllSites
      THEN share[c].table = share[c].paid
      ELSE share[c].table <= share[c].paid

\* Every share ends, delivered or with an error, also when the provider never
\* finishes the job and records and worker keep changing.
SharesEnd == \A c \in Handlers : step[c] # "idle" ~> step[c] = "idle"
=============================================================================
