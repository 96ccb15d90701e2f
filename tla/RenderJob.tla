----------------------------- MODULE RenderJob -----------------------------
(***************************************************************************)
(* CloudConvertService.htmlToPdf: create a job at the provider, poll it    *)
(* until it is finished or POLL_TIMEOUT_MS have passed, download the PDF.  *)
(* The unit of time is POLL_INTERVAL_MS, the sleep between two polls.      *)
(*                                                                         *)
(* A fetch is answered by the provider at one moment and its answer looked *)
(* at later; it may also fail, which is what the HTTP client's own limits  *)
(* make of an answer that does not come.  The provider may take any time   *)
(* over a job, and never finish it.                                        *)
(***************************************************************************)
EXTENDS Naturals

CONSTANTS
  Handlers,     \* calls that render, each one slip at a time
  PollTimeout   \* POLL_TIMEOUT_MS in polling intervals

ASSUME PollTimeoutAssumption == PollTimeout \in Nat

VARIABLES
  stage,    \* where each rendering is
  job,      \* status of its job at the provider
  answer,   \* job status in the answer it is waiting for
  clock,    \* time since waitForJob set its deadline; stops once past it
  polls     \* history: polls sent; stops one past what PollsBounded allows

renderVars == <<stage, job, answer, clock, polls>>

Fetching == {"create", "poll", "answered", "download"}
Statuses == {"none", "processing", "finished", "error"}

RenderTypeOK ==
  /\ stage  \in [Handlers -> {"idle", "local", "sleep", "pdf", "error"} \cup Fetching]
  /\ job    \in [Handlers -> Statuses]
  /\ answer \in [Handlers -> Statuses]
  /\ clock  \in [Handlers -> 0..(PollTimeout + 1)]
  /\ polls  \in [Handlers -> 0..(PollTimeout + 3)]

RenderInit ==
  /\ stage  = [c \in Handlers |-> "idle"]
  /\ job    = [c \in Handlers |-> "none"]
  /\ answer = [c \in Handlers |-> "none"]
  /\ clock  = [c \in Handlers |-> 0]
  /\ polls  = [c \in Handlers |-> 0]

Expired(c) == clock[c] > PollTimeout
Later(c)   == IF Expired(c) THEN clock[c] ELSE clock[c] + 1

Goto(c, s) == stage' = [stage EXCEPT ![c] = s]

-----------------------------------------------------------------------------
\* renderPdf: htmlToPdf with a CloudConvert key, renderToBuffer without.
StartRender(c) ==
  /\ stage[c] = "idle"
  /\ \E s \in {"create", "local"} : Goto(c, s)
  /\ UNCHANGED <<job, answer, clock, polls>>

\* renderToBuffer resolves or rejects.
RenderInProcess(c) ==
  /\ stage[c] = "local"
  /\ \E s \in {"pdf", "error"} : Goto(c, s)
  /\ UNCHANGED <<job, answer, clock, polls>>

\* createJob answers; waitForJob sets its deadline and sends the first poll.
CreateJob(c) ==
  /\ stage[c] = "create"
  /\ Goto(c, "poll")
  /\ job'   = [job EXCEPT ![c] = "processing"]
  /\ clock' = [clock EXCEPT ![c] = 0]
  /\ polls' = [polls EXCEPT ![c] = 1]
  /\ UNCHANGED answer

\* The provider gets on with a job it has.
Progress(c) ==
  /\ job[c] = "processing"
  /\ \E s \in {"finished", "error"} : job' = [job EXCEPT ![c] = s]
  /\ UNCHANGED <<stage, answer, clock, polls>>

\* The provider serves a poll.
Serve(c) ==
  /\ stage[c] = "poll"
  /\ answer' = [answer EXCEPT ![c] = job[c]]
  /\ Goto(c, "answered")
  /\ UNCHANGED <<job, clock, polls>>

\* Time passes on the network.
Wait(c) ==
  /\ stage[c] \in {"poll", "answered"}
  /\ ~Expired(c)
  /\ clock' = [clock EXCEPT ![c] = Later(c)]
  /\ UNCHANGED <<stage, job, answer, polls>>

\* Mutant: the loop does not look at its deadline.
ContinueForever(c) == answer[c] = "processing"

\* Mutant: the deadline is tested once more than it should.
ContinueLate(c) == answer[c] = "processing" /\ (~Expired(c) \/ polls[c] <= PollTimeout + 2)

\* The deadline counts only after an answer that settles nothing.
Continue(c) == answer[c] = "processing" /\ ~Expired(c)

\* One turn of waitForJob, with exportUrl after it: a finished job is taken,
\* late or not, unless it has no file.
Receive(c) ==
  /\ stage[c] = "answered"
  /\ \/ answer[c] = "finished" /\ (Goto(c, "download") \/ Goto(c, "error"))
     \/ Continue(c) /\ Goto(c, "sleep")
     \/ answer[c] # "finished" /\ ~Continue(c) /\ Goto(c, "error")
  /\ UNCHANGED <<job, answer, clock, polls>>

\* sleep(POLL_INTERVAL_MS), then the next poll.
Wake(c) ==
  /\ stage[c] = "sleep"
  /\ Goto(c, "poll")
  /\ clock' = [clock EXCEPT ![c] = Later(c)]
  /\ polls' = [polls EXCEPT ![c] = IF @ > PollTimeout + 2 THEN @ ELSE @ + 1]
  /\ UNCHANGED <<job, answer>>

Download(c) ==
  /\ stage[c] = "download"
  /\ Goto(c, "pdf")
  /\ UNCHANGED <<job, answer, clock, polls>>

\* Mutant: a failed fetch leaves the caller without an outcome.
FetchFailsSilently(c) ==
  /\ stage[c] \in Fetching
  /\ Goto(c, "idle")
  /\ UNCHANGED <<job, answer, clock, polls>>

\* A fetch is refused or fails: failFromResponse, or htmlToPdf's catch.  A job
\* whose creation got no answer may exist all the same.
FetchFails(c) ==
  /\ stage[c] \in Fetching
  /\ Goto(c, "error")
  /\ job' = [job EXCEPT ![c] = IF stage[c] = "create" THEN "none" ELSE @]
  /\ UNCHANGED <<answer, clock, polls>>

\* The caller goes on with the PDF or the error.
TakeRender(c) ==
  /\ stage[c] \in {"pdf", "error"}
  /\ Goto(c, "idle")
  /\ job'    = [job EXCEPT ![c] = "none"]
  /\ answer' = [answer EXCEPT ![c] = "none"]
  /\ clock'  = [clock EXCEPT ![c] = 0]
  /\ polls'  = [polls EXCEPT ![c] = 0]

\* The steps the event loop and the provider's answers drive.
RenderStep(c) ==
  \/ RenderInProcess(c)
  \/ CreateJob(c) \/ Serve(c) \/ Receive(c)
  \/ Wake(c) \/ Download(c) \/ FetchFails(c)

Environment(c) == Progress(c) \/ Wait(c)

\* A caller starts one rendering at a time and takes what it ended with.
RenderNext ==
  \E c \in Handlers : StartRender(c) \/ RenderStep(c) \/ Environment(c) \/ TakeRender(c)

\* The renderer on its own.  The actions of PayslipShare are built from these, so each of
\* its behaviours is one of this specification's.
RenderSpec == RenderInit /\ [][RenderNext]_renderVars

-----------------------------------------------------------------------------
\* "Poll cadence + ceiling for job completion (bounded - never spins forever)":
\* one poll per interval, the one whose answer finds the deadline passed, and no
\* other; slow answers only make it fewer.
PollsBounded ==
  \A c \in Handlers : polls[c] <= PollTimeout + 2

\* What the caller of a rendering at stage s can tell.
OutcomeOf(s) ==
  CASE s = "idle"             -> "none"
    [] s \in {"pdf", "error"} -> s
    [] OTHER                  -> "running"
Outcome == [c \in Handlers |-> OutcomeOf(stage[c])]

Promise == INSTANCE RenderPromise WITH outcome <- Outcome

\* A rendering ends, once, with a PDF or an error, even when the provider never
\* finishes the job, because each fetch ends and the deadline passes.
RendersAsPromised == Promise!Spec
=============================================================================
