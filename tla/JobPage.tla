------------------------------ MODULE JobPage ------------------------------
(***************************************************************************)
(* The job tracker together with a browser page that follows it: the       *)
(* banner and the pull form of internal/web/static/app.js, the handler of  *)
(* /admin/ollama/jobs and the requests that start a job.                   *)
(*                                                                         *)
(* The page polls while a job runs.  pollJobs keeps one timer in jobTimer; *)
(* two answers that arrive one after the other leave the first one's timer *)
(* without a name, and it fires all the same.  The handler reads List and  *)
(* Running in two critical sections, with the tracker at work in between.  *)
(***************************************************************************)
EXTENDS JobTracker

CONSTANTS
  Clicks,   \* jobs started from this page
  Fetches   \* requests for /admin/ollama/jobs that are in flight at a time

ASSUME ClicksAssumption  == Clicks \subseteq Jobs
ASSUME FetchesAssumption ==
  IsFiniteSet(Fetches) /\ Cardinality(Fetches) = Cardinality(Clicks) + 1

VARIABLES
  polls,     \* where each request is, and what it has read
  jobTimer,  \* the timer jobTimer names is pending
  strays,    \* pending timers of pollJobs that no variable names
  watched,   \* watchedRunning
  banner,    \* what the banner shows
  hideTimer, \* hideBannerTimer is pending
  pullOff,   \* the button of the pull form is disabled
  post       \* job |-> where the request that starts it is

timers    == <<jobTimer, strays>>
shown     == <<watched, banner, hideTimer, pullOff>>
page      == <<polls, timers, shown, post>>
pageVars  == <<vars, page>>

Snap  == [running : BOOLEAN, pull : BOOLEAN, any : BOOLEAN]
Poll  == [st : {"idle", "sent", "listed", "answered", "lost"}, jobs : Snap,
          running : BOOLEAN]
None  == [st |-> "idle", running |-> FALSE,
          jobs |-> [running |-> FALSE, pull |-> FALSE, any |-> FALSE]]
Sent  == [None EXCEPT !.st = "sent"]

Has(S, s)  == \E x \in S \cap Tracked : status[x] = s
AnyRunning == Has(Jobs, "running")
\* Tracker.List, as far as renderJobs looks at it.
Listed == [running |-> AnyRunning, pull |-> Has(Pulls, "running"),
           any |-> list # << >>]

InFlight(s) == polls[s].st # "idle"
Polling  == jobTimer \/ strays > 0 \/ \E s \in Fetches : InFlight(s)
-----------------------------------------------------------------------------
\* setTimeout(pollJobs): the timer jobTimer named before is still pending.
ArmTimer == /\ jobTimer' = TRUE
            /\ strays' = strays + (IF jobTimer THEN 1 ELSE 0)

(***************************************************************************)
(* Faulty variants, one plausible mistake each; not part of the            *)
(* specification.                                                          *)
(***************************************************************************)
FetchFailedSilent == UNCHANGED timers       \* the catch does not try again
RenderNoTimer(p) ==                      \* the end of a watched job is shown,
  /\ banner' = CASE p.jobs.running -> "running"  \* and no timer hides it
                 [] ~p.jobs.running /\ watched /\ p.jobs.any -> "ended"
                 [] OTHER          -> "hidden"
  /\ pullOff' = p.jobs.pull
  /\ watched' = p.running
  /\ IF p.running THEN ArmTimer ELSE UNCHANGED timers
  /\ UNCHANGED hideTimer
StartPollUncleared ==                    \* pollJobs without clearTimeout
  /\ LET s == CHOOSE f \in Fetches : ~InFlight(f) \/ \A g \in Fetches : InFlight(g)
     IN polls' = [polls EXCEPT ![s] = Sent]
  /\ UNCHANGED jobTimer

\* The catch of pollJobs.
FetchFailed == ArmTimer

\* renderJobs.  A load's own button is not modelled: it stays disabled until
\* the page is loaded again.
RenderJobs(p) ==
  /\ banner' = CASE p.jobs.running          -> "running"
                 [] ~p.jobs.running /\ watched /\ p.jobs.any -> "ended"
                 [] OTHER                   -> "hidden"
  /\ pullOff' = p.jobs.pull
  /\ \/ /\ p.running
        /\ watched' = TRUE /\ hideTimer' = FALSE
        /\ ArmTimer
     \/ /\ ~p.running /\ watched
        /\ watched' = FALSE /\ hideTimer' = TRUE
        /\ UNCHANGED timers
     \/ /\ ~p.running /\ ~watched
        /\ UNCHANGED <<watched, hideTimer, timers>>
-----------------------------------------------------------------------------
\* The page is loaded again: by its user, after a model was removed, or 5 s after
\* renderJobs saw the last job end.  A page comes with the banner of a running
\* pull, and calls pollJobs.
First    == CHOOSE s \in Fetches : TRUE
LoadPage ==
  /\ ~Booting
  /\ polls' = [s \in Fetches |-> IF s = First THEN Sent ELSE None]
  /\ jobTimer' = FALSE /\ strays' = 0
  /\ watched' = FALSE /\ hideTimer' = FALSE /\ pullOff' = FALSE
  /\ banner' = IF Has(Pulls, "running") THEN "running" ELSE "hidden"
  /\ post' = [j \in Clicks |-> "idle"]
  /\ UNCHANGED <<vars>>

PageInit ==
  /\ Init
  /\ polls = [s \in Fetches |-> IF s = First THEN Sent ELSE None]
  /\ jobTimer = FALSE /\ strays = 0
  /\ watched = FALSE /\ hideTimer = FALSE /\ pullOff = FALSE
  /\ banner = "hidden"
  /\ post = [j \in Clicks |-> "idle"]

\* pollJobs clears the timer jobTimer names, whoever calls it.
StartPoll ==
  /\ jobTimer' = FALSE
  /\ LET s == CHOOSE f \in Fetches : ~InFlight(f) IN polls' = [polls EXCEPT ![s] = Sent]

JobTimerFires == jobTimer /\ StartPoll /\ UNCHANGED <<vars, strays, shown, post>>
StrayFires ==
  /\ strays > 0 /\ strays' = strays - 1
  /\ StartPoll
  /\ UNCHANGED <<vars, shown, post>>

\* ollamaJobs, its two calls of the tracker.
PollList(s) ==
  /\ polls[s].st = "sent" /\ ~Booting
  /\ polls' = [polls EXCEPT ![s] = [@ EXCEPT !.st = "listed", !.jobs = Listed]]
  /\ UNCHANGED <<vars, timers, shown, post>>
PollRunning(s) ==
  /\ polls[s].st = "listed"
  /\ polls' = [polls EXCEPT ![s] = [@ EXCEPT !.st = "answered", !.running = AnyRunning]]
  /\ UNCHANGED <<vars, timers, shown, post>>
PollFails(s) ==
  /\ polls[s].st \in {"sent", "listed", "lost"}
  /\ polls' = [polls EXCEPT ![s] = None]
  /\ FetchFailed
  /\ UNCHANGED <<vars, shown, post>>
PollRender(s) ==
  /\ polls[s].st = "answered"
  /\ polls' = [polls EXCEPT ![s] = None]
  /\ RenderJobs(polls[s])
  /\ UNCHANGED <<vars, post>>

HideJobBanner ==
  /\ hideTimer
  /\ hideTimer' = FALSE /\ banner' = "hidden"
  /\ UNCHANGED <<vars, polls, timers, watched, pullOff, post>>
-----------------------------------------------------------------------------
\* The pull form, or a load's button.
Click(j) ==
  /\ post[j] = "idle" /\ pc[j] = "new"
  /\ j \in Pulls => ~pullOff
  /\ post' = [post EXCEPT ![j] = "sent"]
  /\ pullOff' = (pullOff \/ j \in Pulls)
  /\ UNCHANGED <<vars, polls, timers, watched, banner, hideTimer>>

\* startJob: Begin takes the job, or refuses it; the answer follows the save
\* that Begin ends with.
TakeClick(j) ==
  /\ post[j] = "sent"
  /\ Begin(j)
  /\ post' = [post EXCEPT ![j] = "taken"]
  /\ UNCHANGED <<polls, timers, shown>>
ClickDone(j) ==
  /\ post[j] = "taken" /\ pc[j] # "begin"
  /\ post' = [post EXCEPT ![j] = "idle"]
  /\ StartPoll
  /\ UNCHANGED <<vars, strays, shown>>
\* Refused, or the connection broke before the answer.
ClickFails(j) ==
  /\ post[j] \in {"sent", "taken", "lost"}
  /\ post' = [post EXCEPT ![j] = "idle"]
  /\ pullOff' = (pullOff /\ j \notin Pulls)
  /\ UNCHANGED <<vars, polls, timers, watched, banner, hideTimer>>

\* A restart breaks the connections that were being served.
RestartServer ==
  /\ Restart
  /\ polls' = [s \in Fetches |-> IF polls[s].st = "listed"
                                 THEN [polls[s] EXCEPT !.st = "lost"] ELSE polls[s]]
  /\ post' = [j \in Clicks |-> IF post[j] = "taken" THEN "lost" ELSE post[j]]
  /\ UNCHANGED <<timers, shown>>
\* The tracker's own steps; a job may be begun from another page, by a tool, or by
\* a request that this page sent before it was loaded again.
TrackerStep ==
  /\ \E j \in Jobs : Begin(j) \/ Worker(j)
  /\ UNCHANGED page

PollStep(s)  == PollList(s) \/ PollRunning(s) \/ PollRender(s) \/ PollFails(s)
ClickStep(j) == Click(j) \/ TakeClick(j) \/ ClickDone(j) \/ ClickFails(j)
PageNext ==
  \/ RestartServer \/ TrackerStep
  \/ JobTimerFires \/ StrayFires \/ HideJobBanner \/ LoadPage
  \/ \E s \in Fetches : PollStep(s)
  \/ \E j \in Clicks : ClickStep(j)

(***************************************************************************)
(* Timers fire.  Requests are answered or fail, and of those sent again    *)
(* and again some are answered.  A pull may never return, so of the        *)
(* workers only their saves, and what a new process does before it serves, *)
(* are assumed to go on.                                                   *)
(***************************************************************************)
PageFairness ==
  /\ WF_pageVars(JobTimerFires \/ StrayFires) /\ WF_pageVars(HideJobBanner)
  /\ WF_pageVars(\E s \in Fetches : PollStep(s))
  /\ SF_pageVars(\E s \in Fetches : PollList(s))
  /\ SF_pageVars(\E s \in Fetches : PollRunning(s))
  /\ WF_pageVars(\E j \in Jobs : (Resume(j) \/ Save(j)) /\ UNCHANGED page)
PageSpec == PageInit /\ [][PageNext]_pageVars /\ PageFairness
-----------------------------------------------------------------------------
\* Every variable keeps its type.
PageTypeOK ==
  /\ polls \in [Fetches -> Poll] /\ jobTimer \in BOOLEAN /\ strays \in Nat
  /\ watched \in BOOLEAN /\ banner \in {"hidden", "running", "ended"}
  /\ hideTimer \in BOOLEAN /\ pullOff \in BOOLEAN
  /\ post \in [Clicks -> {"idle", "sent", "taken", "lost"}]

\* While the page watches a running job it is polling: however many chains of
\* timers and requests clicks have started, clearing one chain's timer never
\* stops the last, and a failed request is repeated (pollJobs, renderJobs).
WatchedIsPolled == watched => Polling

\* A page polls in at most one chain of its own and one for each job it has
\* started: a chain that leaves a timer without a name, or clears another one's,
\* never becomes two, and a restart of the server adds none (pollJobs clears
\* jobTimer before it asks, renderJobs and the catch set it after the answer).
Chains == Cardinality({s \in Fetches : InFlight(s)}) + strays + (IF jobTimer THEN 1 ELSE 0)
PollsBounded == Chains <= Cardinality(Clicks) + 1

\* A banner that is shown is followed: something will hide it, or render it anew.
\* An answer is torn when a job was running as List read it and none was as
\* Running did: renderJobs shows the banner for it and asks no more.
Followed == banner = "hidden" \/ Polling \/ hideTimer
Torn(p)  == p.jobs.running /\ ~p.running
Left     == banner = "running" /\ ~watched /\ ~Polling /\ ~hideTimer

\* A shown banner loses the last request or timer that would hide it only by a
\* torn answer: not by chains that clear each other's timers, by a failed
\* request, by the banner's own timer being cleared or by a restart (pollJobs,
\* renderJobs, hideJobBanner, ollamaJobs).
BannerFollowed ==
  [][Followed /\ ~Followed' =>
       \E s \in Fetches : /\ polls[s].st = "answered" /\ Torn(polls[s])
                          /\ polls'[s] = None]_pageVars

\* Once no job runs any more the banner is hidden and stays so, or was left by
\* that one answer: answers out of order, lost requests and restarts of the
\* server delay it, and no late answer shows it for good while the page still
\* polls or waits to hide it (renderJobs, hideJobBanner).
BannerHides == <>[]~AnyRunning => <>[](banner = "hidden" \/ Left)
=============================================================================
