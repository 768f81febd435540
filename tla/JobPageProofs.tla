--------------------------- MODULE JobPageProofs ---------------------------
(***************************************************************************)
(* Proofs about JobPage, for any jobs, servers, clicks, restarts and       *)
(* requests in flight: a page that watches a job keeps polling, for which  *)
(* nothing is needed of the tracker; its banner is left by a torn answer   *)
(* only; the tracker, driven by pages, is the tracker of JobTracker; and   *)
(* the chains of polls are no more than the page and its clicks account    *)
(* for.                                                                    *)
(***************************************************************************)
EXTENDS JobPage, JobTrackerProofs

IPage == PageTypeOK /\ WatchedIsPolled

LEMMA SomeFetch == First \in Fetches
<1>1. Fetches # {}
  <2> SUFFICES ASSUME Fetches = {} PROVE FALSE
    OBVIOUS
  <2>1. Cardinality(Fetches) = 0
    BY FS_EmptySet
  <2>2. IsFiniteSet(Clicks)
    BY JobsAssumption, ClicksAssumption, FS_Subset
  <2>3. Cardinality(Clicks) \in Nat
    BY <2>2, FS_CardinalityType
  <2> QED
    BY <2>1, <2>3, FetchesAssumption
<1> QED
  BY <1>1 DEF First

LEMMA PollTypes == None \in Poll /\ Sent \in Poll /\ None.st = "idle" /\ Sent.st = "sent"
BY DEF None, Sent, Poll, Snap

\* pollJobs leaves a request in flight, whether or not it found a free slot.
LEMMA StartPollPolls ==
  ASSUME PageTypeOK, StartPoll
  PROVE  /\ polls' \in [Fetches -> Poll] /\ jobTimer' = FALSE
         /\ \E s \in Fetches : polls'[s].st # "idle"
<1> DEFINE s == CHOOSE f \in Fetches : ~InFlight(f)
<1>1. polls \in [Fetches -> Poll] /\ polls' = [polls EXCEPT ![s] = Sent] /\ jobTimer' = FALSE
  BY DEF PageTypeOK, StartPoll
<1> HIDE DEF s
<1>2. polls' \in [Fetches -> Poll]
  BY <1>1, PollTypes
<1>3. CASE s \in Fetches
  BY <1>1, <1>2, <1>3, PollTypes
<1>4. CASE s \notin Fetches
  <2>1. \A f \in Fetches : InFlight(f)
    <3> SUFFICES ASSUME NEW f \in Fetches, ~InFlight(f) PROVE FALSE
      OBVIOUS
    <3> QED
      BY <1>4 DEF s
  <2>2. polls' = polls
    BY <1>1, <1>4
  <2> QED
    BY <1>1, <2>1, <2>2, SomeFetch DEF InFlight
<1> QED
  BY <1>1, <1>2, <1>3, <1>4

\* A step that touches neither requests nor timers, nor what is watched.
LEMMA Untouched ==
  ASSUME IPage, UNCHANGED <<polls, jobTimer, strays, watched>>,
         banner' \in {"hidden", "running", "ended"}, hideTimer' \in BOOLEAN,
         pullOff' \in BOOLEAN, post' \in [Clicks -> {"idle", "sent", "taken", "lost"}]
  PROVE  IPage'
BY DEF IPage, PageTypeOK, WatchedIsPolled, Polling, InFlight

LEMMA ArmTimerArms ==
  ASSUME PageTypeOK, ArmTimer
  PROVE  jobTimer' = TRUE /\ strays' \in Nat
BY DEF PageTypeOK, ArmTimer

LEMMA StartPollKeeps ==
  ASSUME IPage, StartPoll, strays' \in Nat, watched' = watched, banner' = banner,
         hideTimer' = hideTimer, pullOff' = pullOff,
         post' \in [Clicks -> {"idle", "sent", "taken", "lost"}]
  PROVE  IPage'
<1>1. /\ polls' \in [Fetches -> Poll] /\ jobTimer' = FALSE
      /\ \E s \in Fetches : polls'[s].st # "idle"
  BY StartPollPolls DEF IPage
<1> QED
  BY <1>1 DEF IPage, PageTypeOK, WatchedIsPolled, Polling, InFlight

LEMMA PollStepKeeps == ASSUME IPage, NEW s \in Fetches, PollStep(s) PROVE IPage'
<1>1. /\ polls \in [Fetches -> Poll] /\ polls[s] \in Poll /\ jobTimer \in BOOLEAN
      /\ strays \in Nat /\ watched \in BOOLEAN /\ banner \in {"hidden", "running", "ended"}
      /\ hideTimer \in BOOLEAN /\ pullOff \in BOOLEAN
      /\ post \in [Clicks -> {"idle", "sent", "taken", "lost"}] /\ PageTypeOK
  BY DEF IPage, PageTypeOK
<1>2. ASSUME NEW p \in Poll, p.st # "idle", polls' = [polls EXCEPT ![s] = p],
             UNCHANGED <<timers, shown, post>>
      PROVE  IPage'
  <2>1. polls' \in [Fetches -> Poll] /\ polls'[s].st # "idle"
    BY <1>1, <1>2
  <2> QED
    BY <1>1, <1>2, <2>1 DEF IPage, PageTypeOK, WatchedIsPolled, Polling, InFlight, timers, shown
<1>3. CASE PollList(s)
  <2> DEFINE p == [polls[s] EXCEPT !.st = "listed", !.jobs = Listed]
  <2>1. Listed \in Snap
    BY DEF Listed, Snap, AnyRunning, Has
  <2>2. p \in Poll /\ p.st # "idle"
    BY <1>1, <2>1 DEF Poll
  <2>3. polls' = [polls EXCEPT ![s] = p] /\ UNCHANGED <<timers, shown, post>>
    BY <1>3 DEF PollList
  <2> HIDE DEF p
  <2> QED
    BY <1>2, <2>2, <2>3
<1>4. CASE PollRunning(s)
  <2> DEFINE p == [polls[s] EXCEPT !.st = "answered", !.running = AnyRunning]
  <2>1. AnyRunning \in BOOLEAN
    BY DEF AnyRunning, Has
  <2>2. p \in Poll /\ p.st # "idle"
    BY <1>1, <2>1 DEF Poll
  <2>3. polls' = [polls EXCEPT ![s] = p] /\ UNCHANGED <<timers, shown, post>>
    BY <1>4 DEF PollRunning
  <2> HIDE DEF p
  <2> QED
    BY <1>2, <2>2, <2>3
<1>5. CASE PollFails(s)
  <2>1. polls' \in [Fetches -> Poll] /\ jobTimer' = TRUE /\ strays' \in Nat
        /\ UNCHANGED <<shown, post>>
    BY <1>1, <1>5, PollTypes, ArmTimerArms DEF PollFails, FetchFailed
  <2> QED
    BY <1>1, <2>1 DEF IPage, PageTypeOK, WatchedIsPolled, Polling, shown
<1>6. CASE PollRender(s)
  <2> DEFINE p == polls[s]
  <2>1. polls' \in [Fetches -> Poll] /\ RenderJobs(p) /\ post' = post
    BY <1>1, <1>6, PollTypes DEF PollRender
  <2>2. banner' \in {"hidden", "running", "ended"} /\ pullOff' \in BOOLEAN
    BY <1>1, <2>1 DEF RenderJobs, Poll, Snap
  <2>3. CASE p.running /\ watched' = TRUE /\ hideTimer' = FALSE /\ ArmTimer
    <3>1. jobTimer' = TRUE /\ strays' \in Nat
      BY <1>1, <2>3, ArmTimerArms
    <3> QED
      BY <1>1, <2>1, <2>2, <2>3, <3>1 DEF IPage, PageTypeOK, WatchedIsPolled, Polling
  <2>4. CASE watched' = FALSE /\ hideTimer' \in BOOLEAN /\ UNCHANGED timers
    BY <1>1, <2>1, <2>2, <2>4 DEF IPage, PageTypeOK, WatchedIsPolled, timers
  <2>5. \/ p.running /\ watched' = TRUE /\ hideTimer' = FALSE /\ ArmTimer
        \/ watched' = FALSE /\ hideTimer' \in BOOLEAN /\ UNCHANGED timers
    BY <1>1, <2>1 DEF RenderJobs
  <2> QED
    BY <2>3, <2>4, <2>5
<1> QED
  BY <1>3, <1>4, <1>5, <1>6 DEF PollStep

LEMMA ClickStepKeeps == ASSUME IPage, NEW j \in Clicks, ClickStep(j) PROVE IPage'
<1> DEFINE Posts == {"idle", "sent", "taken", "lost"}
<1>1. /\ post \in [Clicks -> Posts] /\ banner \in {"hidden", "running", "ended"}
      /\ hideTimer \in BOOLEAN /\ pullOff \in BOOLEAN /\ strays \in Nat
  BY DEF IPage, PageTypeOK
<1>2. CASE Click(j) \/ ClickFails(j)
  <2>1. /\ post' \in [Clicks -> Posts] /\ pullOff' \in BOOLEAN
        /\ UNCHANGED <<polls, jobTimer, strays, watched, banner, hideTimer>>
    BY <1>1, <1>2 DEF Click, ClickFails, timers
  <2> QED
    BY <1>1, <2>1, Untouched
<1>3. CASE TakeClick(j)
  <2>1. post' \in [Clicks -> Posts] /\ UNCHANGED <<polls, timers, shown>>
    BY <1>1, <1>3 DEF TakeClick
  <2> QED
    BY <1>1, <2>1, Untouched DEF timers, shown
<1>4. CASE ClickDone(j)
  <2>1. post' \in [Clicks -> Posts] /\ StartPoll /\ UNCHANGED <<strays, shown>>
    BY <1>1, <1>4 DEF ClickDone
  <2> QED
    BY <1>1, <2>1, StartPollKeeps DEF shown
<1> QED
  BY <1>2, <1>3, <1>4 DEF ClickStep

LEMMA PageNextKeeps == ASSUME IPage, [PageNext]_pageVars PROVE IPage'
<1>1. /\ polls \in [Fetches -> Poll] /\ jobTimer \in BOOLEAN /\ strays \in Nat
      /\ watched \in BOOLEAN /\ banner \in {"hidden", "running", "ended"}
      /\ hideTimer \in BOOLEAN /\ pullOff \in BOOLEAN
      /\ post \in [Clicks -> {"idle", "sent", "taken", "lost"}]
  BY DEF IPage, PageTypeOK
<1>2. CASE UNCHANGED page
  BY <1>1, <1>2, Untouched DEF page, timers, shown
<1>3. CASE RestartServer
  <2>1. /\ polls' = [s \in Fetches |-> IF polls[s].st = "listed"
                                       THEN [polls[s] EXCEPT !.st = "lost"] ELSE polls[s]]
        /\ post' \in [Clicks -> {"idle", "sent", "taken", "lost"}]
        /\ UNCHANGED <<timers, shown>>
    BY <1>1, <1>3 DEF RestartServer
  <2>2. ASSUME NEW s \in Fetches
        PROVE  /\ [polls[s] EXCEPT !.st = "lost"] \in Poll
               /\ [polls[s] EXCEPT !.st = "lost"].st = "lost"
    BY <1>1 DEF Poll
  <2>3. /\ polls' \in [Fetches -> Poll]
        /\ \A s \in Fetches : polls[s].st # "idle" => polls'[s].st # "idle"
    BY <1>1, <2>1, <2>2
  <2> QED
    BY <1>1, <2>1, <2>3 DEF IPage, PageTypeOK, WatchedIsPolled, Polling, InFlight, timers, shown
<1>4. CASE JobTimerFires
  BY <1>1, <1>4, StartPollKeeps DEF JobTimerFires, shown
<1>5. CASE StrayFires
  <2>1. strays' \in Nat
    BY <1>1, <1>5 DEF StrayFires
  <2> QED
    BY <1>1, <1>5, <2>1, StartPollKeeps DEF StrayFires, shown
<1>6. CASE HideJobBanner
  BY <1>1, <1>6, Untouched DEF HideJobBanner, timers
<1>7. CASE LoadPage
  <2>1. /\ polls' \in [Fetches -> Poll]
        /\ post' \in [Clicks -> {"idle", "sent", "taken", "lost"}]
    BY <1>7, PollTypes DEF LoadPage
  <2> QED
    BY <1>7, <2>1 DEF LoadPage, IPage, PageTypeOK, WatchedIsPolled
<1>8. CASE TrackerStep
  BY <1>2, <1>8 DEF TrackerStep
<1>9. CASE UNCHANGED pageVars
  BY <1>2, <1>9 DEF pageVars
<1> QED
  BY <1>3, <1>4, <1>5, <1>6, <1>7, <1>8, <1>9, PollStepKeeps, ClickStepKeeps DEF PageNext
-----------------------------------------------------------------------------
LEMMA PageInvariant == PageSpec => []IPage
<1>1. PageInit => IPage
  <2> SUFFICES ASSUME PageInit PROVE IPage
    OBVIOUS
  <2>1. polls \in [Fetches -> Poll] /\ post \in [Clicks -> {"idle", "sent", "taken", "lost"}]
    BY PollTypes DEF PageInit
  <2> QED
    BY <2>1 DEF PageInit, IPage, PageTypeOK, WatchedIsPolled
<1>2. IPage /\ [PageNext]_pageVars => IPage'
  BY PageNextKeeps
<1> QED
  BY <1>1, <1>2, PTL DEF PageSpec

\* The page's variables keep their types, whatever the tracker does.
THEOREM PageTypeCorrect == PageSpec => []PageTypeOK
<1>1. IPage => PageTypeOK
  BY DEF IPage
<1> QED
  BY <1>1, PageInvariant, PTL

\* A page that watches a running job has a request in flight or a timer pending,
\* however pollJobs' chains clear each other's timers (pollJobs, renderJobs).
THEOREM WatchedAlwaysPolled == PageSpec => []WatchedIsPolled
<1>1. IPage => WatchedIsPolled
  BY DEF IPage
<1> QED
  BY <1>1, PageInvariant, PTL
-----------------------------------------------------------------------------
\* renderJobs leaves something that follows the banner, or hides it, unless the
\* answer is torn.
LEMMA RenderFollows ==
  ASSUME IPage, NEW s \in Fetches, PollRender(s), Followed, ~Torn(polls[s])
  PROVE  Followed'
<1> DEFINE p == polls[s]
<1>1. /\ p.running \in BOOLEAN /\ p.jobs.running \in BOOLEAN /\ p.jobs.any \in BOOLEAN
      /\ watched \in BOOLEAN /\ jobTimer \in BOOLEAN
  BY DEF IPage, PageTypeOK, Poll, Snap
<1>2. RenderJobs(p)
  BY DEF PollRender
<1>3. CASE p.running
  <2>1. jobTimer' = TRUE
    BY <1>1, <1>2, <1>3 DEF RenderJobs, ArmTimer
  <2> QED BY <2>1 DEF Followed, Polling
<1>4. CASE ~p.running /\ watched
  <2>1. hideTimer' = TRUE
    BY <1>1, <1>2, <1>4 DEF RenderJobs
  <2> QED BY <2>1 DEF Followed
<1>5. CASE ~p.running /\ ~watched
  <2>1. ~p.jobs.running
    BY <1>5 DEF Torn
  <2>2. banner' = "hidden"
    BY <1>2, <1>5, <2>1 DEF RenderJobs
  <2> QED BY <2>2 DEF Followed
<1> QED BY <1>1, <1>3, <1>4, <1>5

LEMMA PollFollows ==
  ASSUME IPage, NEW s \in Fetches, PollStep(s), Followed, ~Followed'
  PROVE  polls[s].st = "answered" /\ Torn(polls[s]) /\ polls'[s] = None
<1>1. polls \in [Fetches -> Poll] /\ polls[s] \in Poll
  BY DEF IPage, PageTypeOK
<1>2. CASE PollList(s)
  <2>1. polls'[s].st = "listed"
    BY <1>1, <1>2 DEF PollList, Poll
  <2> QED BY <2>1 DEF Followed, Polling, InFlight
<1>3. CASE PollRunning(s)
  <2>1. polls'[s].st = "answered"
    BY <1>1, <1>3 DEF PollRunning, Poll
  <2> QED BY <2>1 DEF Followed, Polling, InFlight
<1>4. CASE PollFails(s)
  <2>1. jobTimer' = TRUE
    BY <1>4 DEF PollFails, FetchFailed, ArmTimer
  <2> QED BY <2>1 DEF Followed, Polling
<1>5. CASE PollRender(s)
  <2>1. Torn(polls[s])
    BY <1>5, RenderFollows
  <2> QED BY <1>1, <1>5, <2>1 DEF PollRender
<1> QED BY <1>2, <1>3, <1>4, <1>5 DEF PollStep

\* pollJobs has a request in flight when it returns.
LEMMA StartFollows == ASSUME IPage, StartPoll PROVE Followed'
BY StartPollPolls DEF IPage, Followed, Polling, InFlight

\* A shown banner is left with nothing that will hide it only by an answer whose
\* two reads of the tracker disagree (ollamaJobs, renderJobs): no order of polls,
\* clicks, failed requests, restarts and page loads does.
THEOREM BannersAreFollowed == PageSpec => BannerFollowed
<1> DEFINE ByTorn == \E s \in Fetches : /\ polls[s].st = "answered" /\ Torn(polls[s])
                                        /\ polls'[s] = None
<1>1. ASSUME IPage, [PageNext]_pageVars, Followed, ~Followed' PROVE ByTorn
  <2>t. polls \in [Fetches -> Poll]
    BY <1>1 DEF IPage, PageTypeOK
  <2>1. CASE TrackerStep \/ UNCHANGED pageVars
    BY <1>1, <2>1 DEF TrackerStep, pageVars, page, timers, shown, Followed, Polling, InFlight
  <2>2. CASE RestartServer
    <3>1. /\ UNCHANGED <<timers, shown>>
          /\ polls' = [s \in Fetches |-> IF polls[s].st = "listed"
                                         THEN [polls[s] EXCEPT !.st = "lost"] ELSE polls[s]]
      BY <2>2 DEF RestartServer
    <3>2. ASSUME NEW s \in Fetches, InFlight(s) PROVE polls'[s].st # "idle"
      <4>1. polls[s] \in Poll
        BY <2>t
      <4>2. [polls[s] EXCEPT !.st = "lost"].st = "lost"
        BY <4>1 DEF Poll
      <4> QED BY <3>1, <3>2, <4>2 DEF InFlight
    <3> QED BY <1>1, <3>1, <3>2 DEF timers, shown, Followed, Polling, InFlight
  <2>3. CASE JobTimerFires \/ StrayFires
    BY <1>1, <2>3, StartFollows DEF JobTimerFires, StrayFires
  <2>4. CASE HideJobBanner
    BY <1>1, <2>4 DEF HideJobBanner, Followed
  <2>5. CASE LoadPage
    <3>1. polls'[First].st = "sent"
      BY <2>5, SomeFetch, PollTypes DEF LoadPage
    <3> QED BY <1>1, <3>1, SomeFetch DEF Followed, Polling, InFlight
  <2>6. ASSUME NEW s \in Fetches, PollStep(s) PROVE ByTorn
    BY <1>1, <2>6, PollFollows
  <2>7. ASSUME NEW j \in Clicks, ClickStep(j) PROVE ByTorn
    <3>1. CASE Click(j) \/ ClickFails(j) \/ TakeClick(j)
      BY <1>1, <3>1 DEF Click, ClickFails, TakeClick, timers, shown, Followed, Polling, InFlight
    <3>2. CASE ClickDone(j)
      BY <1>1, <3>2, StartFollows DEF ClickDone
    <3> QED BY <2>7, <3>1, <3>2 DEF ClickStep
  <2> QED BY <1>1, <2>1, <2>2, <2>3, <2>4, <2>5, <2>6, <2>7 DEF PageNext
<1>2. IPage /\ [PageNext]_pageVars => [Followed /\ ~Followed' => ByTorn]_pageVars
  BY <1>1
<1> QED
  BY <1>2, PageInvariant, PTL DEF PageSpec, BannerFollowed
-----------------------------------------------------------------------------
\* The page's steps leave the tracker alone, or are Begin and Restart of it.
LEMMA PageTracks == PageNext => [Next]_vars
<1> SUFFICES ASSUME PageNext PROVE [Next]_vars
  OBVIOUS
<1>1. CASE RestartServer
  BY <1>1 DEF RestartServer, Next
<1>2. CASE TrackerStep
  BY <1>2 DEF TrackerStep, Next
<1>3. CASE JobTimerFires \/ StrayFires \/ HideJobBanner \/ LoadPage
  BY <1>3 DEF JobTimerFires, StrayFires, HideJobBanner, LoadPage
<1>4. ASSUME NEW s \in Fetches, PollStep(s) PROVE UNCHANGED vars
  BY <1>4 DEF PollStep, PollList, PollRunning, PollRender, PollFails
<1>5. ASSUME NEW j \in Clicks, ClickStep(j) PROVE [Next]_vars
  BY <1>5, ClicksAssumption DEF ClickStep, Click, TakeClick, ClickDone, ClickFails, Next
<1> QED BY <1>1, <1>2, <1>3, <1>4, <1>5 DEF PageNext

\* A tracker whose jobs are started and followed by a page behaves as JobTracker
\* says: its invariants are those of the composed system (startJob, ollamaJobs).
THEOREM PageRunsTracker == PageSpec => Spec
<1>1. PageInit => Init
  BY DEF PageInit
<1>2. [PageNext]_pageVars => [Next]_vars
  BY PageTracks DEF pageVars
<1> QED BY <1>1, <1>2, PTL DEF PageSpec, Spec

(***************************************************************************)
(* The count of the chains.  A click can add one once: until its job has   *)
(* been begun and its post answered it is counted as Startable, so the sum *)
(* of the chains and of the startable clicks never grows.                  *)
(***************************************************************************)
Asking    == {s \in Fetches : polls[s].st # "idle"}
Startable == {j \in Clicks : pc[j] = "new" \/ post[j] = "taken"}
Named     == IF jobTimer THEN 1 ELSE 0
TakenBegan == \A j \in Clicks : post[j] = "taken" => pc[j] # "new"
Counted   == Cardinality(Asking) + strays + Named + Cardinality(Startable)
               <= Cardinality(Clicks) + 1
CInv == IPage /\ IInv /\ TakenBegan /\ Counted

LEMMA CountTypes ==
  /\ IsFiniteSet(Fetches) /\ IsFiniteSet(Clicks) /\ Cardinality(Clicks) \in Nat
  /\ \A S \in SUBSET Fetches : IsFiniteSet(S) /\ Cardinality(S) \in Nat
  /\ \A S \in SUBSET Clicks :
       IsFiniteSet(S) /\ Cardinality(S) \in Nat /\ Cardinality(S) <= Cardinality(Clicks)
<1>1. IsFiniteSet(Fetches) /\ IsFiniteSet(Clicks)
  BY JobsAssumption, ClicksAssumption, FetchesAssumption, FS_Subset
<1> QED BY <1>1, FS_Subset, FS_CardinalityType

\* pollJobs finds a free slot while there are no more requests than clicks, and
\* then there is one request more.
LEMMA StartPollCounts ==
  ASSUME PageTypeOK, StartPoll, Cardinality(Asking) <= Cardinality(Clicks)
  PROVE  Cardinality(Asking') = Cardinality(Asking) + 1
<1> DEFINE s == CHOOSE f \in Fetches : ~InFlight(f)
<1>1. polls \in [Fetches -> Poll] /\ polls' = [polls EXCEPT ![s] = Sent]
  BY DEF PageTypeOK, StartPoll
<1>2. Asking \in SUBSET Fetches
  BY DEF Asking
<1>3. Asking # Fetches
  <2>1. Cardinality(Fetches) = Cardinality(Clicks) + 1 /\ Cardinality(Clicks) \in Nat
    BY CountTypes, FetchesAssumption
  <2> QED BY <2>1
<1>4. \E f \in Fetches : ~InFlight(f)
  BY <1>2, <1>3 DEF Asking, InFlight
<1>5. s \in Fetches /\ polls[s].st = "idle"
  BY <1>4 DEF InFlight
<1> HIDE DEF s
<1>6. Asking' = Asking \cup {s}
  BY <1>1, <1>5, PollTypes DEF Asking
<1>7. s \notin Asking /\ IsFiniteSet(Asking)
  BY <1>2, <1>5, CountTypes DEF Asking
<1> QED BY <1>6, <1>7, FS_AddElement

\* The end of a request.
LEMMA PollEndCounts ==
  ASSUME PageTypeOK, NEW s \in Asking, polls' = [polls EXCEPT ![s] = None]
  PROVE  Cardinality(Asking') = Cardinality(Asking) - 1
<1>1. polls \in [Fetches -> Poll] /\ s \in Fetches /\ Asking \in SUBSET Fetches
  BY DEF PageTypeOK, Asking
<1>2. Asking' = Asking \ {s}
  BY <1>1, PollTypes DEF Asking
<1>3. IsFiniteSet(Asking)
  BY <1>1, CountTypes
<1> QED BY <1>2, <1>3, FS_RemoveElement

LEMMA StartableShrinks ==
  ASSUME \A j \in Clicks : j \in Startable' => j \in Startable
  PROVE  /\ Cardinality(Startable') \in Nat /\ Cardinality(Startable) \in Nat
         /\ Cardinality(Startable') <= Cardinality(Startable)
<1>1. Startable' \in SUBSET Clicks /\ Startable \in SUBSET Clicks
      /\ Startable' \in SUBSET Startable
  BY DEF Startable
<1> QED BY <1>1, CountTypes, FS_Subset

\* A job that was begun stays begun.
LEMMA BegunStays ==
  ASSUME IInv, [Next]_vars, NEW j \in Jobs, pc[j] # "new"
  PROVE  pc'[j] # "new"
<1> USE DEF PCs
<1>t. pc \in [Jobs -> PCs]
  BY DEF IInv, TypeOK
<1>1. CASE Restart
  BY <1>1 DEF Restart
<1>2. ASSUME NEW x \in Jobs, NEW l, Goto(x, l), l # "new" PROVE pc'[j] # "new"
  BY <1>t, <1>2 DEF Goto
<1>3. ASSUME NEW x \in Jobs, Begin(x) PROVE pc'[j] # "new"
  BY <1>2, <1>3 DEF Begin
<1>4. ASSUME NEW x \in Jobs, Save(x) PROVE pc'[j] # "new"
  <2>1. After(pc[x], x) # "new"
    BY DEF After
  <2> QED BY <1>2, <1>4, <2>1 DEF Save
<1>5. ASSUME NEW x \in Jobs,
             SetMessage(x) \/ ApplyLine(x) \/ Close(x) \/ LoadReturns(x) \/ DoneOrFail(x)
               \/ Resume(x)
      PROVE  pc'[j] # "new"
  BY <1>2, <1>5 DEF SetMessage, ApplyLine, Close, LoadReturns, DoneOrFail, Conclude, Resume,
                    ResumeOne
<1>6. CASE UNCHANGED vars
  BY <1>6 DEF vars
<1> QED BY <1>1, <1>3, <1>4, <1>5, <1>6 DEF Next, Worker

\* Steps that neither answer a post nor take one.
LEMMA StartableStays ==
  ASSUME CInv, [Next]_vars,
         \A j \in Clicks : post'[j] = "taken" => post[j] = "taken"
  PROVE  /\ TakenBegan'
         /\ Cardinality(Startable') \in Nat /\ Cardinality(Startable) \in Nat
         /\ Cardinality(Startable') <= Cardinality(Startable)
<1>1. \A j \in Clicks : pc'[j] = "new" => pc[j] = "new"
  BY BegunStays, ClicksAssumption DEF CInv
<1>2. \A j \in Clicks : j \in Startable' => j \in Startable
  BY <1>1 DEF Startable
<1>3. TakenBegan'
  BY <1>1 DEF CInv, TakenBegan
<1> QED BY <1>2, <1>3, StartableShrinks
\* The arithmetic of a step: the chains grow by no more than the clicks shrink.
LEMMA CountStep ==
  ASSUME CInv, IPage', IInv', TakenBegan',
         Cardinality(Startable') \in Nat, Cardinality(Asking') \in Nat,
         Cardinality(Asking') + strays' + Named' + Cardinality(Startable')
           <= Cardinality(Asking) + strays + Named + Cardinality(Startable)
  PROVE  CInv'
<1>1. /\ Cardinality(Asking) \in Nat /\ Cardinality(Startable) \in Nat
      /\ Cardinality(Clicks) \in Nat
  BY CountTypes DEF Asking, Startable
<1>2. strays \in Nat /\ strays' \in Nat /\ Named \in Nat /\ Named' \in Nat
  BY DEF CInv, IPage, PageTypeOK, Named
<1>3. Counted'
  BY <1>1, <1>2 DEF CInv, Counted
<1> QED BY <1>3 DEF CInv

LEMMA AskingTypes ==
  /\ Cardinality(Asking) \in Nat /\ Cardinality(Asking') \in Nat
  /\ Cardinality(Startable) \in Nat /\ Cardinality(Startable') \in Nat
BY CountTypes DEF Asking, Startable

\* A step of the page that leaves requests, timers and jobs to themselves.
LEMMA QuietCounts ==
  ASSUME CInv, IPage', IInv', [Next]_vars, UNCHANGED timers,
         \A s \in Fetches : polls'[s].st # "idle" => polls[s].st # "idle",
         \A j \in Clicks : post'[j] = "taken" => post[j] = "taken"
  PROVE  CInv'
<1>1. TakenBegan' /\ Cardinality(Startable') <= Cardinality(Startable)
  BY StartableStays
<1>2. Cardinality(Asking') <= Cardinality(Asking)
  <2>1. Asking' \in SUBSET Asking /\ Asking \in SUBSET Fetches
    BY DEF Asking
  <2> QED BY <2>1, CountTypes, FS_Subset
<1>3. strays' = strays /\ Named' = Named /\ strays \in Nat /\ Named \in Nat
  BY DEF timers, Named, CInv, IPage, PageTypeOK
<1> QED BY <1>1, <1>2, <1>3, AskingTypes, CountStep

LEMMA PollStepCounts ==
  ASSUME CInv, IPage', IInv', [Next]_vars, NEW s \in Fetches, PollStep(s)
  PROVE  CInv'
<1>t. PageTypeOK /\ strays \in Nat /\ jobTimer \in BOOLEAN
      /\ polls \in [Fetches -> Poll] /\ polls[s] \in Poll
  BY DEF CInv, IPage, PageTypeOK
<1>1. CASE PollList(s) \/ PollRunning(s)
  <2>1. /\ UNCHANGED timers /\ post' = post /\ polls[s].st # "idle"
        /\ \A f \in Fetches : f # s => polls'[f] = polls[f]
    BY <1>t, <1>1 DEF PollList, PollRunning
  <2> QED BY <2>1, QuietCounts
<1>2. ASSUME s \in Asking, polls' = [polls EXCEPT ![s] = None], post' = post,
             ArmTimer \/ UNCHANGED timers
      PROVE  CInv'
  <2>1. Cardinality(Asking') = Cardinality(Asking) - 1
    BY <1>t, <1>2, PollEndCounts
  <2>2. TakenBegan' /\ Cardinality(Startable') <= Cardinality(Startable)
    BY <1>2, StartableStays
  <2>3. /\ strays' + Named' <= strays + Named + 1
        /\ strays \in Nat /\ strays' \in Nat /\ Named \in Nat /\ Named' \in Nat
    BY <1>t, <1>2 DEF ArmTimer, Named, timers
  <2>4. Cardinality(Asking') + strays' + Named' + Cardinality(Startable')
          <= Cardinality(Asking) + strays + Named + Cardinality(Startable)
    <3>1. PICK a \in Nat : a = Cardinality(Asking)
      BY AskingTypes
    <3>2. PICK b \in Nat : b = Cardinality(Startable)
      BY AskingTypes
    <3>3. PICK d \in Nat : d = Cardinality(Startable')
      BY AskingTypes
    <3>4. PICK m \in Nat : m = Named
      BY <2>3
    <3>5. PICK n \in Nat : n = Named'
      BY <2>3
    <3>6. PICK x \in Nat : x = strays
      BY <2>3
    <3>7. PICK y \in Nat : y = strays'
      BY <2>3
    <3>8. Cardinality(Asking') = a - 1
      BY <2>1, <3>1
    <3>9. d <= b
      BY <2>2, <3>2, <3>3
    <3>10. y + n <= x + m + 1
      BY <2>3, <3>4, <3>5, <3>6, <3>7
    <3>11. a - 1 + y + n + d <= a + x + m + b
      BY <3>9, <3>10
    <3> QED BY <3>1, <3>2, <3>3, <3>4, <3>5, <3>6, <3>7, <3>8, <3>11
  <2> QED BY <2>2, <2>4, AskingTypes, CountStep
<1>3. CASE PollFails(s) \/ PollRender(s)
  <2>1. s \in Asking
    BY <1>3 DEF PollFails, PollRender, Asking
  <2>2. polls' = [polls EXCEPT ![s] = None] /\ post' = post
    BY <1>3 DEF PollFails, PollRender
  <2>3. ArmTimer \/ UNCHANGED timers
    BY <1>3 DEF PollFails, PollRender, FetchFailed, RenderJobs
  <2> QED BY <1>2, <2>1, <2>2, <2>3
<1> QED BY <1>1, <1>3 DEF PollStep

LEMMA TimerCounts ==
  ASSUME CInv, IPage', IInv', [Next]_vars, StartPoll, post' = post,
         \/ jobTimer /\ strays' = strays
         \/ strays > 0 /\ strays' = strays - 1
  PROVE  CInv'
<1>t. PageTypeOK /\ strays \in Nat /\ jobTimer \in BOOLEAN /\ Cardinality(Clicks) \in Nat
  BY CountTypes DEF CInv, IPage, PageTypeOK
<1>1. strays + Named >= 1 /\ Named \in {0, 1} /\ (jobTimer => Named = 1)
  BY <1>t DEF Named
<1>2. Cardinality(Asking) <= Cardinality(Clicks)
  BY <1>t, <1>1, AskingTypes DEF CInv, Counted
<1>3. Cardinality(Asking') = Cardinality(Asking) + 1
  BY <1>t, <1>2, StartPollCounts
<1>4. Named' = 0
  BY DEF StartPoll, Named
<1>5. TakenBegan' /\ Cardinality(Startable') <= Cardinality(Startable)
  BY StartableStays
<1>6. strays' \in Nat /\ strays' + 1 <= strays + Named
  BY <1>t, <1>1
<1> QED BY <1>t, <1>1, <1>3, <1>4, <1>5, <1>6, AskingTypes, CountStep

LEMMA ClickStepCounts ==
  ASSUME CInv, IPage', IInv', [Next]_vars, NEW j \in Clicks, ClickStep(j)
  PROVE  CInv'
<1>t. /\ PageTypeOK /\ strays \in Nat /\ jobTimer \in BOOLEAN /\ Cardinality(Clicks) \in Nat
      /\ post \in [Clicks -> {"idle", "sent", "taken", "lost"}] /\ pc \in [Jobs -> PCs]
      /\ j \in Jobs
  BY CountTypes, ClicksAssumption DEF CInv, IPage, PageTypeOK, IInv, TypeOK
<1>1. CASE Click(j) \/ ClickFails(j)
  <2>1. /\ polls' = polls /\ UNCHANGED timers
        /\ \A i \in Clicks : post'[i] = "taken" => post[i] = "taken"
    BY <1>t, <1>1 DEF Click, ClickFails
  <2> QED BY <2>1, QuietCounts
<1>2. CASE TakeClick(j)
  <2>1. /\ polls' = polls /\ UNCHANGED timers /\ post' = [post EXCEPT ![j] = "taken"]
        /\ pc' = [pc EXCEPT ![j] = "begin"] /\ pc[j] = "new"
    BY <1>2 DEF TakeClick, Begin, Goto
  <2>2. \A i \in Clicks : i \in Startable' => i \in Startable
    BY <1>t, <2>1, ClicksAssumption DEF Startable
  <2>3. Cardinality(Startable') <= Cardinality(Startable)
    BY <2>2, StartableShrinks
  <2>4. TakenBegan'
    BY <1>t, <2>1, ClicksAssumption DEF CInv, TakenBegan
  <2>5. Asking' = Asking /\ strays' = strays /\ Named' = Named /\ Named \in Nat
    BY <2>1 DEF Asking, Named, timers
  <2> QED BY <1>t, <2>3, <2>4, <2>5, AskingTypes, CountStep
<1>3. CASE ClickDone(j)
  <2>1. /\ StartPoll /\ strays' = strays /\ UNCHANGED vars
        /\ post[j] = "taken" /\ post' = [post EXCEPT ![j] = "idle"]
    BY <1>3 DEF ClickDone
  <2>2. pc' = pc /\ pc[j] # "new"
    BY <2>1 DEF vars, CInv, TakenBegan
  <2>3. Startable' = Startable \ {j} /\ j \in Startable /\ Startable \in SUBSET Clicks
    BY <1>t, <2>1, <2>2 DEF Startable
  <2>4. Cardinality(Startable') = Cardinality(Startable) - 1
    BY <2>3, CountTypes, FS_RemoveElement
  <2>5. Cardinality(Startable) >= 1
    BY <2>4, AskingTypes
  <2>6. Named \in {0, 1} /\ Named' = 0
    BY <2>1 DEF Named, StartPoll
  <2>7. Cardinality(Asking) <= Cardinality(Clicks)
    BY <1>t, <2>5, <2>6, AskingTypes DEF CInv, Counted
  <2>8. Cardinality(Asking') = Cardinality(Asking) + 1
    BY <1>t, <2>1, <2>7, StartPollCounts
  <2>9. TakenBegan'
    BY <1>t, <2>1, <2>2 DEF CInv, TakenBegan
  <2> QED BY <1>t, <2>1, <2>4, <2>6, <2>8, <2>9, AskingTypes, CountStep
<1> QED BY <1>1, <1>2, <1>3 DEF ClickStep

LEMMA PageStepCounts ==
  ASSUME CInv, IPage', IInv', [PageNext]_pageVars
  PROVE  CInv'
<1>n. [Next]_vars
  BY PageTracks DEF pageVars
<1>t. PageTypeOK /\ polls \in [Fetches -> Poll] /\ post \in [Clicks -> {"idle", "sent", "taken", "lost"}]
  BY DEF CInv, IPage, PageTypeOK
<1>1. CASE TrackerStep \/ HideJobBanner \/ UNCHANGED pageVars
  BY <1>n, <1>1, QuietCounts DEF TrackerStep, HideJobBanner, pageVars, page, timers
<1>2. CASE RestartServer
  <2>1. /\ UNCHANGED timers
        /\ \A s \in Fetches : polls'[s].st # "idle" => polls[s].st # "idle"
        /\ \A j \in Clicks : post'[j] = "taken" => post[j] = "taken"
    BY <1>t, <1>2 DEF RestartServer
  <2> QED BY <1>n, <2>1, QuietCounts
<1>3. CASE JobTimerFires \/ StrayFires
  BY <1>n, <1>3, TimerCounts DEF JobTimerFires, StrayFires
<1>4. CASE LoadPage
  <2>1. /\ jobTimer' = FALSE /\ strays' = 0 /\ \A j \in Clicks : post'[j] = "idle"
    BY <1>4 DEF LoadPage
  <2>2. Asking' = {First}
    BY <1>4, SomeFetch, PollTypes DEF LoadPage, Asking
  <2>3. Cardinality(Asking') = 1
    BY <2>2, FS_Singleton
  <2>4. Cardinality(Startable') <= Cardinality(Clicks) /\ Cardinality(Startable') \in Nat
        /\ Cardinality(Clicks) \in Nat
    BY CountTypes DEF Startable
  <2>5. Counted' /\ TakenBegan'
    BY <2>1, <2>3, <2>4 DEF Counted, Named, TakenBegan
  <2> QED BY <2>5 DEF CInv
<1>5. ASSUME NEW s \in Fetches, PollStep(s) PROVE CInv'
  BY <1>n, <1>5, PollStepCounts
<1>6. ASSUME NEW j \in Clicks, ClickStep(j) PROVE CInv'
  BY <1>n, <1>6, ClickStepCounts
<1> QED BY <1>1, <1>2, <1>3, <1>4, <1>5, <1>6 DEF PageNext

\* A page polls in at most one chain of its own and one for each job it started,
\* however its chains clear and orphan each other's timers (pollJobs, renderJobs).
THEOREM ChainsAreBounded == PageSpec => []PollsBounded
<1>1. PageInit => Counted /\ TakenBegan
  <2> SUFFICES ASSUME PageInit PROVE Counted /\ TakenBegan
    OBVIOUS
  <2>1. Asking = {First}
    BY SomeFetch, PollTypes DEF PageInit, Asking
  <2>2. Cardinality(Asking) = 1
    BY <2>1, FS_Singleton
  <2>3. Cardinality(Startable) <= Cardinality(Clicks) /\ Cardinality(Startable) \in Nat
        /\ Cardinality(Clicks) \in Nat
    BY CountTypes DEF Startable
  <2> QED BY <2>2, <2>3 DEF PageInit, Counted, Named, TakenBegan
<1>2. PageInit /\ IPage /\ IInv => CInv
  BY <1>1 DEF CInv
<1>3. CInv /\ IPage' /\ IInv' /\ [PageNext]_pageVars => CInv'
  BY PageStepCounts
<1>4. CInv => PollsBounded
  <2> SUFFICES ASSUME CInv PROVE PollsBounded
    OBVIOUS
  <2>1. Chains = Cardinality(Asking) + strays + Named
    BY DEF Chains, Asking, InFlight, Named
  <2>2. strays \in Nat /\ Named \in Nat /\ Cardinality(Clicks) \in Nat
    BY CountTypes DEF CInv, IPage, PageTypeOK, Named
  <2> QED BY <2>1, <2>2, AskingTypes DEF CInv, Counted, PollsBounded
<1> QED
  BY <1>2, <1>3, <1>4, PageInvariant, PageRunsTracker, JobInvariant, PTL DEF PageSpec
=============================================================================
