# MikroLLM in TLA+

MikroLLM is a small gateway (Go, one process, one SQLite file) that speaks the
OpenAI and Ollama APIs to its clients and routes requests to model servers. It
runs on routers and phones, so it restarts often, and most of its logic runs in
many goroutines over a few mutexes and one database connection. Its admin pages
carry a second stateful program, `internal/web/static/app.js`: a chat playground
with tabs, streams and polled jobs, and a banner that follows model downloads.
This directory holds TLA+ modules of the stateful parts of both, the TLC runs that
check them on small instances, and TLAPS proofs of the main invariants for
instances of any size.

`PROJECT.json` gives, for every definition that models code, the file and the
lines it stands for, and for every property a faulty variant of the code that
the property notices.

## 1. Inventory

| Part | State | Operations | What is hard about it |
|---|---|---|---|
| `internal/queue` + `store/queue.go` | tables `queues`, `queue_steps`, `queue_jobs`; `Engine.inflight`, `Engine.waiters`, the shared `waiter.job`, done channels | `Handle`, `dispatch`, `run`, `finish`, `dropWaiter`, `purgeIfNeeded`, `Loop`, `New`; `SaveQueue`, `DeleteQueue` | many dispatchers, decisions on stale copies, unlocked writes, deadlines racing dispatch, ignored database errors, restarts |
| `internal/a2aproxy` session | per agent: queue, waiting connection, reply channels by JSON-RPC id | `PushAgent`, `TakeAgent`, `ReplyAgent`, `CancelAgent` | ids chosen by clients, late items put back, deadlines racing answers, a bounded queue |
| `internal/jobs` + `app.resumePulls` | list of jobs in memory, table `ollama_jobs` | `Begin`, `Writer`, `Done`, `Fail`, `New`, resume | saves after the unlock, trimming, crash and resume |
| `internal/proxy` | the round robin counter; locals of each request | `forward`, `Forward`, fallback hops, `pick`, the media, embedding and decision handlers | counter balance over every exit, fallbacks edited while a request follows them, one body for several hops |
| `internal/health` | status and connection count per backend | probes, `Inc`, `Dec`, `Catalog` | refreshes racing each other |
| `internal/auth` | request windows, login failures, sessions, flash messages | `AllowRPM`, `LoginBlocked`, `RecordLogin`, `PutFlash`, `TakeFlash` | check and record in two critical sections, table resets at a limit |
| `internal/hubclient` | hub settings, catalogue, slots per kind | `Loop`, `pullLoop`, `announce`, `acquire`, `release` | settings read and written back, a limit that changes under waiters |
| `internal/a2aproxy` groups, `store_a2a*.go` | groups, members, message log | register, join, post, deliver | delivery after commit |
| `internal/guard`, `params`, `promptcache` | none | transformations of request bodies | order of filters, arithmetic of prices |
| `internal/mcp`, `mcpproxy`, `admin` | none of their own | tools and forms over the services above | load, modify, save of whole records |
| `app.js`, chat playground | tabs with threads, busy flags and controllers; the shown tab; `localStorage` | submit, regenerate, stop, switch, close, reload; streams, polls | continuations that come back to a tab that was switched, closed or asked again; nested retries around a deadline; a full storage |
| `app.js`, chat composer | type, model, references, schema and its cache | choices, restore, `loadModelParams`, `addRefFiles`, submit's checks | answers that overtake each other, two lists that set each other, files read in the background |
| `app.js`, banner and pull form | timers, `watchedRunning`, the banner, the form's button | `pollJobs`, `renderJobs`, the two timers, the form | chains of polls that clear each other's timers, two reads of the tracker in one answer, server restarts |
| `app.js`, other pages; `pwa.js`, `sw.js` | toasts, theme, filters, tables of forms; a cache of static files | event handlers of one step | nothing is kept across steps |
| `ollama`, `codex`, `grok`, `host`, `tlsconf`, `metrics`, `app`, `cmd`, `mobile`, `ios` | files, processes, counters | I/O and wiring | – |

How they interact: `proxy.forward` asks `queue.Engine.Lookup` whether the model
name is a queue and hands the request over; the engine calls back
`TryRoute` (is there a backend) and `Forward` (send it). The admin pages and the
MCP server change the tables under the running engine and start jobs. The A2A
proxy and the group messages share an agent's mailbox with the agent's own
connection. The pages poll `/admin/ollama/jobs`, start jobs by posts, fetch
parameter schemas from `/admin/model-params` and post generations to
`/admin/chat`, `/admin/images` and `/admin/videos`, which end in the proxy.

What makes each part correct: slots are neither leaked nor exceeded, a request
is forwarded once and answered, waiters are served in order and never left
beside a free slot, the tables are honest after crashes (queue); answers go to
a caller that asked under that id, items reach the agent once (mailbox); a
server is reserved while a job runs and free again afterwards (jobs); counters
balance on every path (proxy, health); limits hold under concurrency (auth,
hubclient). In the browser: an answer lands in the turn and the tab it was asked
for, a generation ends, a thread survives a reload, a page follows a job until it
is over, and what is posted fits the model that is shown.

## 2. Modules

| Module | Content |
|---|---|
| `QueueEngine` | the queue engine, its tables, the administrator, restarts |
| `MCQueueEngine` | instances of it for TLC |
| `QueueSafetyProofs` | types, slots, caps and forwarding of `QueueEngine` |
| `QueueRowProofs` | its rows, its order, its answers and the sums of the purge |
| `AgentMailbox` | one agent's mailbox with its callers, connections and answers |
| `MCAgentMailbox` | its instance |
| `MailboxProofs` | types and every safety property of `AgentMailbox` |
| `JobTracker` | background jobs, their table and their resumption |
| `MCJobTracker` | its instance |
| `JobTrackerProofs` | types and every safety property of `JobTracker` |
| `Proxy` | the request path: handlers, fallback loop, choice of a backend, counters, and the tables it reads |
| `MCProxy` | its instance |
| `ProxyProofs` | types and every safety property of `Proxy` |
| `JobPage` | `JobTracker` composed with a page that starts and follows its jobs |
| `MCJobPage` | its instance |
| `JobPageProofs` | types, polling, the banner and the number of chains; `JobPage` runs `JobTracker` |
| `ChatThreads` | what the playground promises: conversations made of turns |
| `ChatPlayground` | tabs, threads, generations and storage; implements `ChatThreads` |
| `MCChatPlayground` | its instance |
| `ChatProofs` | types and every safety property of `ChatPlayground`, and the refinement |
| `ChatComposer` | type, model, references and schemas of the composer |
| `MCChatComposer` | its instance |
| `ComposerProofs` | types and every property of `ChatComposer` |

Each specification starts with faulty variants of a few operators. They are no
part of it: replacing an operator by its variant must break a property.

### 2.1 QueueEngine

An action is one critical section of `Engine.mu`, one SQL statement, or one
unlocked write to a shared `waiter.job`; what a goroutine does in between is
local. `pc` says where each goroutine is: a handler per request, a runner per
request, and `Loop`.

| Code | Actions |
|---|---|
| `handle`, up to the purge | `Enter` |
| `purgeIfNeeded`, `dropWaiter` | `WaitingStats`, `OldestWaiting`, `PurgeTake`, `PurgeMark`, `PurgeSave` |
| `handle`, limits and overflow | `Counts`, `Overflow`, `Direct`, `Unwind` |
| `handle`, insert and register | `ReadSeq`, `Insert`, `Register` |
| `dispatch` | `GetQueue`, `Scan`, `Commit`, `Launch` |
| `handle`, its select | `WakeUp`, `Timeout`, `TimeoutDrop`, `TimeoutMark`, `TimeoutSave`, `TimeoutReply` |
| `run`, `finish` | `Run`, `Finish`, `FinishSave` |
| `Loop` | `WaitingStats(Loop)` …, `ListQueues`, dispatch |
| `SaveQueue`, `DeleteQueue` | `SaveQueue`, `SaveStep`, `DeleteQueue` |
| `TryRoute`'s view of the backends | `Health` |
| `New` after a crash | `Restart` |

What was merged or left out, and why it does not matter:

- `WaitingStats` and the statements of `PurgeFinishedQueueJobs` are one step
  (nothing of the first is used after the second, and the rows it deletes are
  finished ones, which no other statement reads to decide); `GetQueue`'s two SELECTs and the first scan
  of `dispatch` are one step; the overflow row's SELECT and INSERT are one step
  (its seq is never read).
- `UpdateQueueJob` and the closing of the done channel that follows it are one
  step: nothing else reads the row in between to decide about the handler.
- Statuses `done` and `error` are one (`ended`): no code tells them apart. The
  answer `reply` is what `Forward` wrote, or `run`'s own 502. `Direct` always
  writes one: the overflow branch has no 502 of its own, but `Router.Forward`
  answers the client itself on every path (`Settled` of `Proxy`).
- A failed `Lookup` sends the overflow straight to `Forward`, like an alias that is
  no queue. The insert before it and the lookup do not fail together: both outcomes
  are covered by the failures of one.
- Time is not modelled: a deadline may pass at any moment for the requests of
  `Impatient`, finished rows of `OldRows` may be past their two hours at any
  moment, and `Loop` may tick at any moment when `Ticking`.
- The aliases of the queues do not change, and one `SaveQueue` is in progress
  at a time. Concurrent saves, the extra aliases and new queues are left to a
  module of their own (section 6). Deleting a queue removes its steps and leaves
  its jobs, as the foreign keys do.
- `left` (the purge's running totals) is not part of `TypeOK`: its values are
  sums, whose lemmas come after the types. It has a theorem of its own,
  `PurgeStopsInTime`.

### 2.2 AgentMailbox

An action is one critical section of `agentBox.mu` with its channel operations.
Boxes of different agents share nothing, so one is modelled. `CancelAgent`'s
filter is written as an increasing enumeration of the positions it keeps, which
the provers handle better than a recursive definition. A second connection (409)
changes nothing. An item counts as taken when `TakeAgent` returns it, also if
the write to the agent then fails. The sessions live in memory only, so a
restart empties the box; it is not modelled.

### 2.3 JobTracker

An action is one critical section of `Tracker.mu` or one `UpsertJob`. Progress
is abstracted to whether a line carries an error; a throttled save is a choice.
`Begin`'s trim keeps position `n` if it is among the newest `Keep` or running,
which is what the loop's count comes to. `ListJobs` sorts by a text timestamp
whose fraction has no fixed length, so the order within a rank is left open. A
refused `Begin` changes nothing and is no action.

### 2.4 Proxy

A request is a goroutine. An action is one read of the store, one critical
section of `Checker.mu`, or the end of one upstream call with the writes that
follow it in the code.

| Code | Actions |
|---|---|
| `requireKey`, `forward`, the media, embedding and decision handlers | `Refuse`, `Enter`, `NotRelayed` |
| the handlers' own `pick`, and the queue's `TryRoute` | `TryRoute` |
| `Forward`, head of the loop and `pick`, `choose` | `Leave`, `Pick` |
| `Forward`, policies and filters | `Blocked`, `Guard` |
| `Forward`, `Inc`, building the request, the call | `Count`, `Unsent`, `Send` |
| `Forward`, `forwardCodex`, `forwardGrok`, `forwardHub`, `writeUpstream` | `Refused`, `Answer`, `StreamHead`, `StreamEnd`, `Persist` |
| `fallbackOf` and the two ends of a hop | `Onward`, `GiveUp` |
| `CheckOnce`, `RefreshBackend` | `Check` |
| `SetBackendEnabled`, `DeleteBackend`, `SaveModel`, `DeleteModel` | `SetBackendEnabled`, `DeleteBackend`, `SaveModel`, `SaveUnlink`, `SaveLink`, `Unreference`, `DeleteModel` |

What was merged or left out:

- `pick` reads the alias's row, the backends, their statuses and counts one after
  another; the model takes them at one moment. A stale view gives a backend
  another pick would have given a moment earlier, and no property is about which
  backend is taken.
- A body is the set of marks the gateway puts on it (filters applied, policies
  for the answer found, the parameter profile of an alias, cache marks); a status
  is the reason it is written for. What an endpoint that records its answer
  passes on afterwards (`memWriter`) counts as written when it is recorded.
- A status of a backend is `down`, `bare` (healthy, empty catalogue) or `full`;
  what a probe finds, and when it is stored, is open.
- `Forward`'s locals are reset when it returns. A second call of a subscription
  after a renewed token belongs to the first.
- `rr` is kept modulo `Cycle`, a multiple of every list's length; the code's is a
  64-bit counter, taken modulo the length.
- The reads of `pick` and `fallbackOf` do not fail: a store error ends the hop or
  the chain like a missing row does. The pick after an image poll (images.go:181)
  and the one of `/admin/model-params` (params.go:35) take turns of `rr` that
  are not counted; no property is about turns. `SaveModel` keeps the alias: renaming
  one (store.go:612) is left out.
- Not modelled: requests for a queue (they are `QueueEngine`'s; its steps come
  in here as the entry `step`), inlining of remote images, the maps from media
  ids to models, listings. Model rows are edited by one administrator at a time.

### 2.5 JobPage

`JobPage` extends `JobTracker` and adds one page. The tracker's steps are its own
(`TrackerStep`, `RestartServer`); the page's are event handlers and continuations,
each of which runs to its end.

| Code | Actions |
|---|---|
| `pollJobs`, its timer and its catch | `JobTimerFires`, `StrayFires`, `PollFails` |
| `ollamaJobs`: `List`, then `Running` | `PollList`, `PollRunning` |
| `renderJobs`, `hideJobBanner` | `PollRender`, `HideJobBanner` |
| the pull form and the load buttons | `Click`, `ClickDone`, `ClickFails` |
| `startJob` | `TakeClick` |
| a page load, also the one 5 s after a job ended | `LoadPage` |

An answer of the server is reduced to what `renderJobs` looks at. `strays` counts
the timers that are pending and that no variable names. `Fetches` has one slot for
each chain of polls: the page's first, and one per click. `PollsBounded` says that no
more are needed, so the slots cut nothing off. Posts of
a job the tracker refuses end like lost ones. A page load forgets the posts under
way; the server may still take one, which is then a `Begin` of the tracker that no
page asked for (`TrackerStep`).

### 2.6 ChatThreads and ChatPlayground

`ChatThreads` knows conversations only: a sequence of turns, of which the last may
be open, worked on by one generation; settling a turn, asking again, closing,
and going back to what was saved. `ChatPlayground` is the code. The refinement
mapping pairs the messages of a thread into turns (message `2n` is the answer of
turn `n`), takes `own` for the generation at work, and pairs the stored messages in
the same way (`ImplementsThreads`).

| Code | Actions |
|---|---|
| `newChat`, `switchChat`, the cross on a tab | `NewChat`, `SwitchChat`, `CloseTab` |
| `submit`, the button under a picture, the Stop button | `Submit`, `Regenerate`, `Stop` |
| `restore` | `Init`, `Reload` |
| `persist` | `Persist`, part of every action that calls it |
| the first answer of `runMedia` and of a chat | `PostFails`, `PostAnswers`, `PostQueued`, `StreamOpens` |
| `pump` | `StreamChunk`, `StreamEnds`, `StreamFails` |
| `pollVideo`, `pollImage` | `PollWaits`, `PollRetries`, `PollDone`, `PollFails`, `Tick`, `DeadlinePasses` |
| `setPendingText`, `finishAssistant` | `SetPendingText`, `Finish` |
| an `AbortError` | `RunAborted` |

- A message keeps its role, the generation its turn was opened for, the kind of its
  text, its picture or video and its pending flag. `of` is a history variable.
- Two functions poll, with different addresses, texts and deadlines; their control
  is the same and is modelled once.
- `depth` counts the catches around a tick. The code schedules the next tick inside
  the promise chain of the last, so an error raised at the deadline passes through
  all of them.
- A stored thread can be read back. Old threads in `sessionStorage`, and a storage
  that another page writes or that holds no JSON, are not modelled.
- Ids are drawn at random from a large set; the model takes them as all different.

### 2.7 ChatComposer

The composer is shared by all tabs, the type and the model are stored with each.
Actions are the handlers of the two lists, of the tabs and of the reference files,
the three ends of a schema request, `submit` and `Regenerate`. A schema is named
by its model, since no property looks into it except for the required reference.
`params.current` is the request that carries the number `paramsReq`, `params.late`
those with older numbers: the code drops what they bring. `blank` is a schema
without required fields: the one the page makes up when the request fails, the JSON of an
error (the code does not look at the status), or the server's default when the
backend did not answer. Submit and
regenerate are about what is posted and what the lists show; what happens to the
generation afterwards is `ChatPlayground`'s. The busy flag that disables the
controls is left to it too, so the composer allows more orders than the page.

## 3. Runs

All passing runs finish within three minutes with two workers.

| Run | Instance | Properties |
|---|---|---|
| `queue_slots` | 3 requests, 2 queues that share a model under caps 1 and 2, a second model, 2 requests with deadlines, finished rows purged at once | `InflightExact`, `CapRespected`, `ForwardedOnce`, `FifoStart` |
| `queue_recovery` | 2 requests with deadlines, a table limit of 1 job, one failing statement per life, rows that age, and either one crash or one edit (a deletion of the queue or a move to another model) | `ActiveRowOwned` |
| `queue_overflow` | 3 requests with deadlines and one whose body is too large, two queues that overflow into each other, and either one edit that redirects the overflow to a model or to a queue's name, or one failing statement | `Answered`, `OverflowRowClosed` |
| `queue_live` | 2 requests in 2 queues on one model whose backend comes and goes, `Loop` | `NoStranding`, `HandlersReturn` |
| `queue_reply_connection` | 2 requests with deadlines | `ReplyUsesConnection` (violated) |
| `mailbox` | 2 calls and a message with one id, a message with another, a call without, 2 connections, a queue of 1 | `WaitReplyLive`, `AnswerMatches`, `HandedOnce`, `BacklogBounded`, `AnswerAccepted`, `PostsKept`, `PostDelivered` |
| `mailbox_same_id` | the same, a queue of 3 | `FirstAnswerAccepted` (violated) |
| `jobs` | 3 pulls and a load on 2 servers, a list of 2, one crash, one failing statement per life | `RunningIsWorked`, `RunningIsTracked`, `OneJobPerServer`, `RunningRowIsWorked`, `TableAgrees` |
| `job_page` | a pull the page starts and a load, on one server, a list of 1, one crash, requests lost at any moment, page loads | `WatchedIsPolled`, `PollsBounded`, `BannerFollowed`, `BannerHides` |
| `proxy` | 2 requests in five mixes of handlers, 3 hops, 3 aliases falling back a, b, c with edits that close the cycle, an OpenRouter server, a Grok subscription whose status changes and that is disabled, deleted and inserted again, the hub | `ConnsExact`, `KeyRespected`, `NoAliasTwice`, `Settled`, `PayloadLocal`, `LoopAnswers` |
| `chat` | 2 tab ids, 2 generations of text or of a picture, polls nested once, a storage that fails or drops pictures, reloads | `OneRunPerTab`, `OwnTurnIsLast`, `AnswersSaved`, `AbortHitsOwnTab`, `ImplementsThreads`, `GenerationEnds` |
| `composer` | 2 tabs, a model of text, pictures and videos, a model of videos only, a stored model that is gone, one group of references | `PostFits`, `ModelFitsMode`, `SchemaCurrent` |

What they show:

- **Slots.** `Engine.inflight` counts exactly the requests between the commit of
  a dispatcher and `finish`, although `dropWaiter` and deadlines change the
  job's status outside the lock. Hence the guard `> 0` in `finish` never hides
  a double release.
- **Caps.** Several goroutines dispatch one queue from snapshots, with copies of
  a configuration that is being rewritten; the re-check in the second critical
  section is enough. The bound is the largest cap any saved configuration gives.
- **Rows.** Without a failed statement, a row that says waiting or running has
  somebody who will finish it. The late `running` of `Launch` may overwrite
  `dropped`, but then the runner is still to write `ended`. A failed UPDATE of an
  overflow row leaves it open, and no restart closes it: `New` looks at waiting and
  running rows; `OverflowRowClosed` therefore speaks of executions without such a failure,
  in this life of the process or an earlier one.
- **Order.** Two jobs may get one seq, so the order of arrival is not total; what
  holds is that nobody overtakes a waiter that was registered before it read its
  seq (`ahead` records those).
- **Mailbox.** Two callers with one id share an entry of `waitReply`. Entries
  still never outlive a caller, and an answer never reaches a caller with
  another id; a caller can lose its answer only to a second item with its id. A
  group message leaves the box for the agent or as the head of a full queue that a
  push drops, never by a caller's deadline, which filters by that shared id. A queued
  call whose caller has given up is one that was put back (section 5).
- **Jobs.** A job that says running is worked on after any crash, so a server is
  never busy for ever because of a stale row. One server may be reserved twice
  after a crash between a job's end in memory and its save: both rows say
  running and both pulls resume.
- **Fallbacks.** `Forward` reads the table again at every hop. Whatever is
  edited meanwhile, it calls no alias twice, ends after `MaxHops` calls, and
  from the second hop on calls only what the key allows. The first alias is
  checked by the handler, and not at all for videos, polls and queue steps.
- **Counters.** Every exit of `Forward` and of its helpers lowers the count it
  raised, for the id it raised it for, also when the backend was deleted or
  got a new id during the call; the guard `> 0` in `Dec` never matters.
- **Bodies and answers.** A hop that fails leaves nothing in the body of the
  next one and nothing on the client's connection.
- **A page and its jobs.** A click starts a second chain of polls beside the
  first; each clears the timer of whichever came last, and two answers in a row
  leave a timer without a name. A page that watches a job still never stops
  polling it, also while the server restarts. Nor
  do the chains multiply: a click adds one at most, and what an answer leaves behind
  replaces what asked for it. A shown banner loses what would hide it in one way
  only, by an answer torn between `List` and `Running` (`BannerFollowed`); so once no
  job runs any more the banner is hidden and stays hidden, or such an answer has left
  it there (`BannerHides`, section 5).
- **Generations.** A run writes to the last message of its tab's thread and knows
  the tab by id. Whatever is switched, closed, stopped and asked meanwhile, that
  message is its own: `finishAssistant` frees the tab only when the run ends, and
  Stop does not. Stop's fallback on the last controller never aborts another tab's
  run, because a locked tab has a controller of its own. The deadline ends a poll
  after at most one more wait per nested catch.
- **Storage.** After each write that succeeds a reload brings back every thread
  up to the texts that are still being streamed.
- **Composer.** In every order of choices, restores, repaints and late answers, what
  `submit` posts fits its model: no model of one kind of media is posted as a chat, a
  picture or video is asked of a model that makes it, and a reference the answered
  schema requires goes along.

Bounds. Three requests are the least with two queues contending for a model
while one of them has a waiter behind a running job; two suffice for a deadline,
a purge and a dispatcher to meet on one waiter, since every race of the engine
is over one waiter and its successor. One crash is followed by a complete second
life. `MaxFaults` counts per life. `KeepFinished = 0` scales the code's 40 rows
per queue, `MaxJobs = 1` its limit of jobs, `Keep = 2` the tracker's 12,
`MaxHops = 3` the four hops of `Forward`, `MAX_REFS = 1` the six references:
the limits are reached with few items. With three aliases it is `tried` that ends
the walk, and the limit on hops is shown by the theorem `LoopBounded` only.
`QueueMax = 1` lets a push find the queue full with a call, a message or an item put
back at its head, and two connections then lengthen it to three; with a limit of two,
four items with an id could not exceed the bound of `BacklogBounded` at all.
`mailbox_same_id` takes a limit of 3, so that the counterexample is about ids and not
about a full queue. The proofs of section 4 have none of these
bounds. `EditOrCrash` cuts the runs that combine an edit with a crash; each alone
reaches every action, and `CapRespected` is proved for both together. `FewLoads`
keeps one outdated schema request in flight and two cached schemas, or one that came
of an error: enough for an answer to arrive after a newer one. `EditOrFault` cuts
the combination of an edit and a failed statement in `queue_overflow`. Two tabs and two generations let a tab's
generation end while the other tab is shown, busy, closed or reloaded; two of each
suffice, since a run looks at its own tab and the shown one only. A type invariant
is no property of a run where it is proved.

Deadlock. Runs with `Ticking = FALSE` look at the engine between two ticks, where
it stops once every request is served, and a tracker whose jobs have ended stops
too: those runs do not check for deadlock. The others do.

Fairness. `Scheduling` gives weak fairness to each handler that has arrived, each
runner, `Loop` and a `SaveQueue` in progress: the Go scheduler runs what can
run, no lock is held across I/O, `Forward` returns (its upstream calls carry the
request's context), and the ticker ticks. `Deadlines` adds that a deadline
passes: the handler's context has a timeout. Arrivals, edits, crashes and
backends are not fair. For the mailbox, the agent opens a closed connection again
and a connection ends after 25 s; nobody has to call, post or answer. For the
proxy, `Fairness` is weak fairness of each request's own steps: goroutines run,
an upstream call returns (the client waits ten minutes for headers) and a body
that has begun ends. The last is an assumption on the server, since the gateway
sets no limit on a body. Edits, probes, arrivals and token renewals are not fair. No
liveness is claimed for the tracker: nothing ends a pull whose server stops
sending. A page's timers fire and its requests are answered or fail; strong
fairness of `PollList` and `PollRunning` says that a server that is asked again and
again answers some time, since each failure is followed by another request. For
the playground a request is answered or fails, a stream ends (chunks alone do not
go on for ever), timers fire and time passes, so a deadline is reached. The user
has to do nothing. The composer makes no claim of liveness.

## 4. Proofs

`tlapm` checks every step. Assumptions are those on the constants, in the module
that declares them (finite sets, types, null values outside the sets, a queue's
first configuration among those that may be saved).

**QueueEngine.** `TypeCorrect` needs two facts besides the types: a handler past
its checks works on an alias that is a queue's, at a depth that has a row
(`HandleSound`), and a goroutine that is about to mark or save a dropped waiter
has one (`VictimSound`). The safety invariant is
`IInv = TypeInv /\ Core /\ InflightExact /\ CapRespected`. `Core` says what the
goroutines know between their steps: copies of a configuration are made of steps
some saved configuration has (`ConfSteps`), a choice names a waiter and a step of
the dispatcher's queue (`PickSound`), a request that is not registered is not in
the map (`EarlyHidden`), a committed request is launched by one goroutine and has
no runner yet (`LaunchSound`), a runner's job has its model and is not waiting
(`RunnerSound`), and a request was forwarded at most once, and not at all while
it can still be forwarded (`ForwardCount`). Slots are a cardinality, so `InflightExact` is preserved by
showing that `Commit` adds one holder, `Finish` removes one, and every other
action leaves the holders alone; the lemmas on `Quiet` steps do the last for all
actions that touch neither `pick`, the runners nor a running job. From `IInv`:
`SlotsExact`, `CapsHold`, `AtMostOnce`.

`RInv` relates rows, jobs and goroutines. `Life` says what a waiter is between the
critical sections: its handler is past `Register` and has not left, it is not done,
its runner has not finished, and whoever drops a waiter has taken it out of the map
first. `ActiveSound` says that an active row is the one of its request's job and
that somebody still owns it: the handler, the map, a launching dispatcher, a runner,
or a goroutine that is dropping it. `WaitRow` is the converse, a waiting job has its
row with its queue and seq, which is what makes the seq of a later arrival larger.
`AheadSound` carries the order through a choice: whoever waited when `r` read its
seq has a smaller one or waits no more, and when a dispatcher has chosen `r` none of
them waits. `OverflowSound` follows an open overflow row down the nested calls of
`handle`, and `AnswerSound` says what may have been written, by the place of the
handler and by whether somebody may still start the request. Theorems:
`NoStaleRows`, `OverflowRowsClose`, `FirstComeFirstStarted`, `AnswersAreBounded`.
An earlier form of `OverflowRowClosed` looked at the failures of this life only; its
proof failed at `Restart`, and rightly so: a failed UPDATE before a crash leaves a
row that nothing closes afterwards. No run had a failure and a crash together with
an overflow.

`Answered` needs more: when the admitted requests cannot fill the table no purge
drops a waiter, and only a dropped one returns in silence. `AInv` says that what was
admitted is small enough (`SizeChecked`), that a request has one active row at most
(`OneRow`), and that nobody is purging (`NoPurge`). With `OneRow` the rows
`WaitingStats` adds up map one to one into the admitted requests, so the count is
bounded by `FS_Injection` and the bytes by `SumsCompare`: a sum over an injective
image is not larger. The sums are folds of the library; what they compute is proved
without induction over an operator, by a least counterexample (`LeastNumber`, from
`WFMin`). Theorem: `EveryHandlerAnswers`. With the same lemmas `PurgeStopsInTime`
types the purge's totals and shows that it drops only while they are over a limit.

**AgentMailbox.** `IInv` adds to the properties that an entry of `waitReply` belongs
to a caller that waits (`EntriesLive`) and a queued reply channel to one that has not
given up (`QueuedLive`), which together are `WaitReplyLive`, that every waiting call and every
queued, buffered or taken item has an id (`HasId`), that a reply channel on its way from `ReplyAgent` to its send belongs
to a call with the item's id (`SendingMatches`), that what is buffered matches
too (`ReplyMatches`), and that a call that is new, or still has its entry in
`waitReply`, has nothing in its reply channel and no send on its way
(`Unlinked`). The bound on the queue counts the open connections with it: an
item can be put back only by closing one. Theorems: `MailboxTypeCorrect`,
`NoStaleReplyChannel`, `AnswersMatchIds`, `BacklogIsBounded`.

`JInv` is about where an item is. `Places`: it is in the queue, in one connection's
channel or taken, at one position of one of them, and only after it was pushed; a
connection that waits has an empty channel. This is kept by putting an item back and
by `CancelAgent`'s filter, which keep items distinct (`DistinctFilter`).
`Registered`: a call that was handed out and waits has its entry in `waitReply`, or a
rival with its id has been there. Theorems: `ItemsAreHandedOnce`,
`FirstAnswersAreAccepted`, and for the action property `PostsKept`, `PostsAreKept`:
the filter of `CancelAgent` keeps every entry without a reply channel, and the only
step that shortens the queue at its head without handing it out is a push.

**JobTracker.** `IInv` adds that a copy about to be saved equals the memory
(`CopyFresh`), so that a row equals the memory whenever no save is pending
(`RowFollows`), and that a job past its end does not say running (`EndedJobs`).
The step that needs an argument is the restart: a listing without some running
row holds `Keep` other running rows, so there were more than `Keep`
(`ListingIsFull`, by an injection). Theorems: `JobsTypeCorrect`,
`RunningJobsAreWorked`, `RunningJobsAreTracked`, `ServerReservedOnce`,
`RunningRowsAreWorked`, `TableTellsTheEnd`.

**Proxy.** `TInv` adds to the types that a request between its pick and the end
of its call has a backend (`Targeted`). `LInv` is about the loop: every call made
so far is for an alias in `tried`, so a fresh alias is a new one (`Past`), the
alias at hand has passed the key's check or is the one the request came with
(`MayCall`), and the calls are no more than the aliases tried (`Hops`). `SInv`
ties responses and log rows to the place in the handler. For `ConnsExact` the
set `On(b)` of requests that hold a connection gains one request by `Count`,
loses one at the end of a call, and is kept by everything else; `Dec`'s guard
needs that `On(b)` is then not empty. Theorems: `TypeCorrect`,
`KeyAlwaysRespected`, `LoopBounded`, `PayloadsLocal`, `AlwaysSettled`,
`ConnsAlwaysExact`, for any number of requests, aliases, backends and hops.

**ChatPlayground.** `OneRunPerTab` and `OwnTurnIsLast` need each other: an answer is
written to the last message of a thread, and that message stays its own only because
no second run starts beside it. `Inv` adds that the open tabs have different ids,
all drawn before, and one of them is shown (`TabsOK`); that prompts and answers are
paired, in memory (`ThreadsOK`) and in storage, where a reload takes them from
(`StoreOK`); and that a tab that is not open has no run, while a run may outlive its
tab, whose id is never drawn again (`RunsOK`). `Polled` keeps texts out of the polls. Steps are grouped by what they may disturb: steps that go on with a run
(`QuietKeeps`), the end of a run (`FinishKeeps`), the beginning of one
(`LaunchKeeps`), changes of the tabs (`TabsKeep`), and a reload. `AnswersSaved` then
follows step by step: whoever changes a thread persists it, and what is written
without persist goes to a message that is pending (`PendingOnly`). Theorems:
`ChatTypeCorrect`, `TabsHaveOneRun`, `RunsWriteTheirTurn`, `AnswersAreSaved`,
`AbortsHitOwnTab`.

`PlaygroundImplementsThreads` is the refinement. `Shape` adds what pairing needs:
every thread, in memory and stored, has an even length, and a generation that has
not begun occurs in none, so that a turn that is asked is new and appending two
messages appends one turn. `TurnsAt` gives a turn from its two messages,
`AlikeTurns` says that texts and pictures do not matter, so neither streaming nor
the storage that drops pictures is seen (`PersistAlike`). Then each action is a step
of `ChatThreads` or stutters: `Submit` asks, `Regenerate` asks again, the end of a
run settles its turn, `CloseTab` drops a conversation, `Reload` goes back to what is
stored; every other step touches texts, tabs or polls only (`TouchRefines`).

**ChatComposer.** Every handler that changes the type or the model leaves what
`filterModels` made of it; `Good` says what that is, and restoring, syncing and
submitting are compositions that stay `Good`. `Asked` strengthens `SchemaCurrent`:
while the last request is in flight, it is about the model shown. That the list has
a first model of a type is the least-number principle (`FirstExists`, from `WFMin`).
`PostsAlwaysFit` puts the two together: what is posted comes from a `Good` choice, and
when its schema has been answered, from the schema of that choice. Theorems:
`ComposerTypeCorrect`, `ModelAlwaysFits`, `SchemaAlwaysCurrent`, `PostsAlwaysFit`.

**JobPage.** `WatchedIsPolled` is inductive with the page's types and needs nothing
of the tracker: each step that consumes a timer leaves a request in flight
(`StartPollPolls`), and each that ends a request arms a timer or stops watching.
`BannersAreFollowed` goes through the same steps for a banner that is shown: a
request that ends without arming a timer hides the banner, starts the timer that
will, or was torn. Theorems: `PageTypeCorrect`, `WatchedAlwaysPolled`,
`BannersAreFollowed`.
`PageRunsTracker` says that the page's specification implies the tracker's, so the
theorems of `JobTrackerProofs` hold in the composition. `ChainsAreBounded` counts:
requests, timers with and without a name, and the clicks that can still start a
chain (`Startable`) are together no more than the clicks and one, and no step makes
the sum grow. That a click starts one chain only uses the tracker: a job whose post
was taken has begun, and a job begins once.

Only model-checked: liveness (`NoStranding`, `HandlersReturn`, `PostDelivered`,
`LoopAnswers`, `BannerHides`, `GenerationEnds`; fairness and ENABLED are beyond the
prover). Every invariant, every action property and the refinement that a passing
run checks are stated by a theorem.

## 5. Where code and documents differ

With a run that shows it:

- `queue_reply_connection`: docs/api.md says the reply always uses the waiting
  connection. `handle` reads the status, unlocks and then drops the waiter; a
  dispatcher may commit it in between, and the runner then forwards for a
  handler that has answered 504 and returned.
- `mailbox_same_id`: docs/a2a.md says an answer gets 204 while its call is
  waiting. Reply channels are kept by the client's JSON-RPC id (session.go:55). A
  second call with the same id replaces the first one's entry; when its deadline
  passes, `CancelAgent` deletes the one entry of that id, and the agent's first answer
  to the first call gets 404 while that caller waits. In other orders the first answer
  goes to the second caller, or a full queue drops one of the calls and the other's
  entry with it (session.go:63-68).

Seen while translating, without a run:

- docs/admin.md: waiters dropped by the purge get 503. `dropWaiter` closes the
  done channel and the handler returns without writing a status.
- docs/api.md: a full queue without an overflow alias answers 503. With
  `overflow_after > 0` neither branch of `handle` applies and the request waits.
- The comment on `CancelAgent` says it drops a queued call. A call that an
  expiring connection put back has lost its reply channel and stays (session.go:101),
  so the agent may be handed a call whose caller has its 504.
- docs/architecture.md: a running pull resumes after a restart. `ListJobs`
  returns 12 rows; a thirteenth running pull does not.
- A pull whose stream carries an error line ends as `done`, because `Pull`
  returns nil and `Done` overwrites the status.
- docs/admin.md: `round_robin` is round robin. The image and video handlers and
  the queue's dispatcher pick once to look at the kind of the backend and
  `Forward` picks again, so such a request takes two turns, and its body may have
  been shaped for the kind of another backend.
- docs/api.md: a model that is not on the key's list gets 403. `POST /v1/videos` and the polls
  of images and videos call `Forward`, which checks the key from the second hop
  on only.
- The filters are looked up for the first alias that has a backend and kept for
  its fallbacks; policies attached to the fallback's alias are not applied.
- A renewed token of a subscription is saved with the other columns as they were
  when the backend was picked (`Persist`).
- The branch `lastStatus == 0` after the loop of `Forward` cannot be reached, and
  with no backend in the table `pick` does not look at the hub's catalogue.
- `/ready` counts statuses of deleted backends, which nothing removes, and a slow
  probe may overwrite the status a later one stored.
- docs/admin.md:105: submit is blocked while a required reference is missing.
  `submit` (app.js:1809) looks at the schema loaded so far; before it has arrived a
  request leaves without the reference, and so does a repetition ("once more").
  `PostFits` states what holds after the answer.
- CHANGELOG.md:84: at most six references. `addRefFiles` (app.js:1101) measures the
  room before it reads; two groups read at the same time may exceed it.
- CHANGELOG.md:62: the queue panel lists what is in flight. `renderChatQueue`
  (app.js:1201) lists pending messages, and a message that was pending when the page
  was reloaded stays pending for ever.
- CHANGELOG.md:133: the banner hides five seconds after a pull. `ollamaJobs` calls
  `List` and then `Running`; a job that ends in between is listed as running beside
  `running=false`, and `renderJobs` (app.js:638-648, 708) then shows the banner, and
  asks again or sets the timer only if it was watching. The banner stays, with no
  timer and no poll, when this is a page's first answer, and also on a page that has
  watched the job, when one chain of polls has seen the end and the torn answer of a
  second chain comes after it. `BannerFollowed` and `BannerHides` except this answer,
  and nothing else.
- `/admin/model-params`: an error's JSON (admin/chat.go:65-69) and the default of a
  server that did not answer (proxy/params.go:53-60) are cached like a schema
  (app.js:939-942), so the required reference of that model is not asked for until
  the page is loaded again.
- The deadline of 45 minutes for a video, 20 for a picture, is extended by one wait
  for each unfinished poll before it, since each left a catch that retries.
- A schema from the cache does not outdate a request in flight, whose answer then
  replaces it with that of another model; `SchemaCurrent` excludes this case.
- "Once more" under a picture generates with the model that is chosen now and drops
  the last answer of the thread, whichever picture its button stands under.

## 6. Not modelled, and the plan

Done: the queue engine, the agent mailbox, the job tracker, the request path, the
playground with its abstract specification, its composer and the job banner, each
with proofs of its safety properties. Next:

1. `Auth` and `HubClient`: request windows, login failures, slots under a changing
   limit.
2. `QueueConfig`: concurrent saves of one queue; with it the lost update of the form.
3. `A2AGroups`, composed with `AgentMailbox`.

Not modelled, and why:

- In `app.js`: toasts, theme, menus, filters, sorting and the forms of the other
  pages are one-step handlers over the page's own elements, with no state that
  outlives them; layout, wording and markdown; the building of a request's
  parameters from a schema (`paramInput`, `collectExtraParams`), a conversion
  without state. The lost update of the queue form (two administrators load, change
  and save a queue whole) needs `QueueConfig`.
- `sw.js` and `pwa.js` cache static files and offer an installation.
- Authentication, the hub client, groups: see the plan.
- Provider clients, TLS files, templates, metrics and the platform shells (I/O and
  wiring), and the regular expressions of `guard`.
