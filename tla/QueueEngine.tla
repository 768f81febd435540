----------------------------- MODULE QueueEngine -----------------------------
(***************************************************************************)
(* The request queue of the gateway: internal/queue/engine.go with the     *)
(* queue_jobs half of internal/store/queue.go.                             *)
(*                                                                         *)
(* A client names a queue instead of a model.  Its HTTP handler goroutine  *)
(* writes a job row to SQLite, registers a waiter in memory and blocks.    *)
(* Whoever runs dispatch (a handler, a finishing runner, the 5 s loop)     *)
(* gives the oldest waiter the first step of the queue that has a free     *)
(* slot, and starts a runner goroutine that forwards the request and       *)
(* writes the reply to the handler's connection.  Waiters leave by being   *)
(* run, by their deadline, or by the purge that keeps the table small.     *)
(*                                                                         *)
(* One action is one critical section of Engine.mu, one statement on the   *)
(* (single connection) database, or one unlocked write to a shared job:    *)
(* everything between two such points is local to the goroutine.           *)
(***************************************************************************)
EXTENDS Integers, Sequences, FiniteSets, FiniteSetsExt

CONSTANTS
  Requests,      \* client requests addressed to a queue; each has one handler
  Queues,        \* rows of the table queues
  Models,        \* model aliases the steps name
  AliasQueue,    \* alias |-> queue: queues.alias and queue_aliases
  NameQueue,     \* the other spellings Lookup accepts: name, name-alias, ...
  Entry,         \* the queue alias a request is handled under
  Size,          \* the length of a request's body
  InitConf,      \* the queues' configuration at the start
  Saves,         \* the configurations an administrator may save for a queue
  MaxJobs,       \* limits.MaxJobs
  MaxBytes,      \* limits.MaxBytes
  KeepFinished,  \* finished rows PurgeFinishedQueueJobs keeps per queue
  OldRows,       \* requests whose finished rows may outlive their 2 h age limit
  Impatient,     \* requests whose deadline may pass, or whose client may leave
  Ticking,       \* FALSE restricts a run to behaviours between two ticks of Loop
  Flaky,         \* models whose backends may come and go
  MaxEdits,      \* bound on administrator actions
  MaxCrashes,    \* bound on restarts
  MaxFaults,     \* bound on failing database statements per process life
  NoRequest, NoModel, NoName

\* handle gives up at depth > 2; the purge reads the 8 oldest waiting rows.
MaxDepth == 2
Batch    == 8

Names   == DOMAIN AliasQueue \cup DOMAIN NameQueue \cup Models \cup {NoName}
Step    == [model : Models, cap : Nat \ {0}]
Config  == [exists : BOOLEAN, enabled : BOOLEAN, steps : Seq(Step),
            after : Nat, over : Names]

ASSUME QueuesAssumption   == Queues # {}
ASSUME RequestsAssumption == IsFiniteSet(Requests) /\ NoRequest \notin Requests
ASSUME ModelsAssumption   == NoModel \notin Models
ASSUME AliasAssumption ==
  /\ \A a \in DOMAIN AliasQueue : AliasQueue[a] \in Queues
  /\ \A a \in DOMAIN NameQueue : NameQueue[a] \in Queues
  /\ NoName \notin DOMAIN AliasQueue \cup DOMAIN NameQueue
  /\ Entry \in [Requests -> DOMAIN AliasQueue]
ASSUME ConfAssumption ==
  /\ InitConf \in [Queues -> Config]
  /\ \A q \in Queues : Saves[q] \subseteq Config /\ InitConf[q] \in Saves[q]
ASSUME BoundsAssumption ==
  /\ Size \in [Requests -> Nat]
  /\ {MaxJobs, MaxBytes} \subseteq Nat \ {0}
  /\ OldRows \subseteq Requests /\ Flaky \subseteq Models
  /\ Impatient \subseteq Requests /\ Ticking \in BOOLEAN
  /\ {KeepFinished, MaxEdits, MaxCrashes, MaxFaults} \subseteq Nat

(***************************************************************************)
(* Goroutines: one HTTP handler and at most one runner per request, and    *)
(* the engine's Loop.                                                      *)
(***************************************************************************)
Handler(r) == <<"handler", r>>
Runner(r)  == <<"runner", r>>
Loop       == <<"loop", NoRequest>>
Threads    == ({"handler", "runner"} \X Requests) \cup {Loop}

Depths == 0 .. MaxDepth
JobIds == Requests \X Depths     \* the job newJob makes at each overflow depth

\* Answers; "reply" is what Forward wrote, or run's own 502 when it wrote nothing.
Codes  == {"404", "413", "500", "503 full", "503 loop", "504", "reply"}
Seqs   == 1 .. Cardinality(JobIds) + 1

Active   == {"waiting", "running"}
\* "ended" stands for the statuses done and error, which nothing reads apart.
Terminal == {"ended", "dropped", "overflow"}
Row      == [queue : Queues, seq : Nat, fin : BOOLEAN,
             status : Active \cup Terminal \cup {"none"}]
Job      == [queue : Queues, seq : Nat, depth : Depths,
             model : Models \cup {NoModel},
             status : Active \cup Terminal \cup {"none"}]

VARIABLES
  conf,      \* tables queues and queue_steps
  saving,    \* the SaveQueue in progress: what it has still to do
  rows,      \* table queue_jobs
  inflight,  \* Engine.inflight
  waiters,   \* the keys of Engine.waiters
  job,       \* waiter.job, the in-memory copy handler and runner share
  done,      \* waiters whose done channel is closed
  up,        \* models TryRoute finds a backend for
  alias,     \* the alias handle was called with
  depth,     \* handle's depth
  resp,      \* what has been written to the client's ResponseWriter
  forwards,  \* times the request went to Router.Forward
  ahead,     \* history: waiters of the queue registered before its seq was read
  pc,        \* where each goroutine is
  cur,       \* dispatch's queueID
  cf,        \* the goroutine's copy of the queue's row
  pick,      \* dispatch's choice: waiter, model and cap
  doomed,    \* purge: the oldest waiting jobs still to drop
  left,      \* purge: its running totals
  victim,    \* dropWaiter's waiter
  rest,      \* Loop: queues of this tick still to dispatch
  edits, crashes, faults

config == <<conf, saving, edits>>
memory == <<inflight, waiters, job, done>>
client == <<alias, depth, resp, forwards, ahead>>
purge  == <<doomed, left, victim>>
local  == <<cur, cf, pick, rest>>
env    == <<up, crashes>>
vars   == <<config, rows, memory, client, purge, local, env, pc, faults>>

-----------------------------------------------------------------------------
(***************************************************************************)
(* Helpers.                                                                *)
(***************************************************************************)
NoConf == [exists |-> FALSE, enabled |-> FALSE, steps |-> << >>,
           after |-> 0, over |-> NoName]
NoPick == [r |-> NoRequest, model |-> NoModel, cap |-> 0]
NoLeft == [jobs |-> 0, bytes |-> 0]

Goto(t, l) == pc' = [pc EXCEPT ![t] = l]

\* A database statement works, or fails while the bound allows it.
Works == UNCHANGED faults
Fails == faults < MaxFaults /\ faults' = faults + 1

RowsOf(q) == {id \in JobIds : rows[id].status # "none" /\ rows[id].queue = q}

(***************************************************************************)
(* Faulty variants of the helpers below, one plausible mistake each.  They *)
(* are not part of the specification: each shows that a property notices.  *)
(***************************************************************************)
StandsWithoutStatus(p) == inflight[p.model] < p.cap
StandsWithoutCap(p)    == job[p.r].status = "waiting"
ReleaseForgotten(m)    == inflight
WriteNoLoop(r, code)   == resp' = IF code = "503 loop" THEN resp
                                  ELSE [resp EXCEPT ![r] = Append(@, code)]
ReturnAtOnce(r)        == Goto(Handler(r), "returned")
CompleteForgotten(r)   == UNCHANGED done
HeadUnsorted(r, q)     == r \in waiters /\ job[r].queue = q /\ job[r].status = "waiting"
ResetOnlyWaiting ==
  rows' = [id \in JobIds |->
             IF rows[id].status = "waiting"
             THEN [rows[id] EXCEPT !.status = "dropped", !.fin = TRUE]
             ELSE rows[id]]
TickWithoutDispatch(qs) == Goto(Loop, "stats") /\ UNCHANGED <<cur, rest>>

\* Store.UpdateQueueJob: UPDATE ... WHERE id=?; every caller ignores its error.
UpdateQueueJob(id, status, fin) ==
  \/ /\ Works
     /\ rows' = IF rows[id].status = "none" THEN rows
                ELSE [rows EXCEPT ![id].status = status, ![id].fin = fin]
  \/ Fails /\ UNCHANGED rows

\* Store.InsertQueueJob: n is MAX(seq)+1 of the queue, and the new row.
IsNextSeq(q, n) ==
  LET seqs == {rows[id].seq : id \in RowsOf(q)}
  IN (\A k \in seqs : k < n) /\ (n = 1 \/ n - 1 \in seqs)
NewRow(q, seq, status) ==
  [queue |-> q, seq |-> seq, fin |-> FALSE, status |-> status]

\* Store.GetQueueByAlias finds an enabled queue; Engine.Lookup tries names too.
Found(a)  == /\ a \in DOMAIN AliasQueue
             /\ conf[AliasQueue[a]].exists /\ conf[AliasQueue[a]].enabled
Lookup(a) == \/ Found(a)
             \/ /\ a \in DOMAIN NameQueue
                /\ conf[NameQueue[a]].exists /\ conf[NameQueue[a]].enabled

\* waitingLocked, and its head after the sort by seq.
WaitingOf(q) == {r \in waiters : job[r].queue = q /\ job[r].status = "waiting"}
IsHead(r, q) == /\ r \in WaitingOf(q)
                /\ \A x \in WaitingOf(q) : job[r].seq <= job[x].seq
RunningOf(q) == {r \in waiters : job[r].queue = q /\ job[r].status = "running"}

\* pickStep: the first step with a free slot and a route.
Free(st)  == inflight[st.model] < st.cap /\ st.model \in up
Picks(c, i) == /\ i \in DOMAIN c.steps
               /\ Free(c.steps[i])
               /\ \A k \in 1 .. i - 1 : ~Free(c.steps[k])

\* writeJSON, or the reply Forward copies from upstream.
Write(r, code) == resp' = [resp EXCEPT ![r] = Append(@, code)]
\* handle returns to its caller: net/http, or the outer handle of an overflow.
Return(r) == Goto(Handler(r), IF depth[r] = 0 THEN "returned" ELSE "unwind")

TooDeep(r) == depth[r] > MaxDepth

\* waiter.complete, and the end of dropWaiter.
Complete(r) == done' = done \cup {r}
DropSave(r) == /\ UpdateQueueJob(<<r, job[r].depth>>, job[r].status, TRUE)
               /\ Complete(r)
-----------------------------------------------------------------------------
Init ==
  /\ conf = InitConf /\ edits = 0
  /\ saving = [on |-> FALSE, wiped |-> TRUE, todo |-> << >>,
               queue |-> CHOOSE q \in Queues : TRUE]
  /\ rows = [id \in JobIds |->
              NewRow(AliasQueue[Entry[id[1]]], 0, "none")]
  /\ inflight = [m \in Models |-> 0]
  /\ waiters = {} /\ done = {}
  /\ job = [r \in Requests |->
             [queue |-> AliasQueue[Entry[r]], seq |-> 0, depth |-> 0,
              model |-> NoModel, status |-> "none"]]
  /\ up = Models
  /\ alias = Entry
  /\ depth = [r \in Requests |-> 0]
  /\ resp = [r \in Requests |-> << >>]
  /\ forwards = [r \in Requests |-> 0]
  /\ ahead = [r \in Requests |-> {}]
  /\ pc = [t \in Threads |-> CASE t[1] = "handler" -> "arrive"
                               [] t[1] = "runner" -> "off"
                               [] OTHER -> "stats"]
  /\ cur = [t \in Threads |-> IF t = Loop THEN CHOOSE q \in Queues : TRUE
                              ELSE AliasQueue[Entry[t[2]]]]
  /\ cf = [t \in Threads |-> NoConf]
  /\ pick = [t \in Threads |-> NoPick]
  /\ doomed = [t \in Threads |-> {}]
  /\ left = [t \in Threads |-> NoLeft]
  /\ victim = [t \in Threads |-> NoRequest]
  /\ rest = {} /\ crashes = 0 /\ faults = 0
-----------------------------------------------------------------------------
(***************************************************************************)
(* handle, up to the purge: the body's size, the queue's row, the depth.   *)
(***************************************************************************)
Enter(r) ==
  LET t == Handler(r)
      q == AliasQueue[alias[r]]
      Refuse(code) == /\ Write(r, code) /\ Return(r)
                      /\ UNCHANGED cf
  IN /\ pc[t] \in {"arrive", "enter"}
     /\ \/ Size[r] > MaxBytes /\ Refuse("413") /\ Works
        \/ Size[r] <= MaxBytes /\ ~Found(alias[r]) /\ Refuse("404") /\ Works
        \/ Size[r] <= MaxBytes /\ Fails /\ Refuse("404")
        \/ /\ Size[r] <= MaxBytes /\ Found(alias[r]) /\ Works
           /\ \/ TooDeep(r) /\ Refuse("503 loop")
              \/ /\ ~TooDeep(r)
                 /\ cf' = [cf EXCEPT ![t] = conf[q]]
                 /\ Goto(t, "stats")
                 /\ UNCHANGED resp
     /\ UNCHANGED <<config, rows, memory, alias, depth, forwards, ahead,
                    purge, cur, pick, rest, env>>

(***************************************************************************)
(* purgeIfNeeded, run by handlers and by Loop.  Its totals come from the   *)
(* table, its victims are looked up in memory later.                       *)
(***************************************************************************)
PurgeReturn(t) == Goto(t, IF t = Loop THEN "list" ELSE "counts")
Over(l)        == l.jobs >= MaxJobs \/ l.bytes >= MaxBytes
ActiveRows     == {id \in JobIds : rows[id].status \in Active}
WaitingRows    == {id \in JobIds : rows[id].status = "waiting"}

\* Store.PurgeFinishedQueueJobs deletes the finished rows past their age (time
\* is not modelled, so any of OldRows) and, of those left, all but the newest of
\* each queue: ORDER BY seq DESC, in any order among equal numbers.
PurgeFinishedQueueJobs ==
  LET finished == {id \in JobIds : rows[id].status \in Terminal}
      Newest(K, F) ==
        \A q \in Queues :
          LET F_q == {id \in F : rows[id].queue = q}
          IN /\ Cardinality(F_q \cap K) = Min({KeepFinished, Cardinality(F_q)})
             /\ \A x \in F_q \cap K, y \in F_q \ K : rows[x].seq >= rows[y].seq
  IN \E old \in SUBSET {id \in finished : rows[id].fin /\ id[1] \in OldRows} :
       \E kept \in SUBSET (finished \ old) :
         /\ Newest(kept, finished \ old)
         /\ rows' = [id \in JobIds |->
                       IF id \in finished \ kept THEN [rows[id] EXCEPT !.status = "none"]
                       ELSE rows[id]]

WaitingStats(t) ==
  LET total == [jobs |-> Cardinality(ActiveRows),
                bytes |-> SumFunction([id \in ActiveRows |-> Size[id[1]]])]
  IN /\ pc[t] = "stats" /\ (t = Loop => Ticking)
     /\ \/ /\ Works /\ Over(total)
           /\ left' = [left EXCEPT ![t] = total]
           /\ Goto(t, "oldest")
           /\ UNCHANGED rows
        \/ Works /\ ~Over(total) /\ PurgeFinishedQueueJobs /\ PurgeReturn(t) /\ UNCHANGED left
        \/ Fails /\ PurgeReturn(t) /\ UNCHANGED <<rows, left>>
     /\ UNCHANGED <<config, memory, client, doomed, victim, local, env>>

\* Store.OldestWaiting: ORDER BY seq LIMIT 8, over all queues.
OldestWaiting(t) ==
  /\ pc[t] = "oldest"
  /\ \/ /\ Works
        /\ \E D \in SUBSET WaitingRows :
             /\ Cardinality(D) = Min({Batch, Cardinality(WaitingRows)})
             /\ \A x \in D, y \in WaitingRows \ D : rows[x].seq <= rows[y].seq
             /\ doomed' = [doomed EXCEPT ![t] = {id[1] : id \in D}]
             /\ IF D = {}
                THEN PurgeReturn(t) /\ left' = [left EXCEPT ![t] = NoLeft]
                ELSE Goto(t, "take") /\ UNCHANGED left
     \/ /\ Fails /\ PurgeReturn(t)
        /\ left' = [left EXCEPT ![t] = NoLeft]
        /\ UNCHANGED doomed
  /\ UNCHANGED <<config, rows, memory, client, victim, local, env>>

\* The loop's tail: the totals go down whether or not there was a waiter,
\* and the purge stops as soon as they are below both limits.
PurgeNext(t, r) ==
  LET l    == [jobs |-> left[t].jobs - 1, bytes |-> left[t].bytes - Size[r]]
      more == Over(l) /\ doomed[t] # {r}
  IN /\ doomed' = [doomed EXCEPT ![t] = IF more THEN @ \ {r} ELSE {}]
     /\ left' = [left EXCEPT ![t] = IF more THEN l ELSE NoLeft]
     /\ IF more THEN Goto(t, "take") ELSE PurgeReturn(t)

(***************************************************************************)
(* dropWaiter: the waiter leaves the map under the lock; its status, its   *)
(* row and its done channel follow outside it.                             *)
(***************************************************************************)
PurgeTake(t) ==
  /\ pc[t] = "take"
  /\ \E r \in doomed[t] :
       /\ \A x \in doomed[t] : job[r].seq <= job[x].seq
       /\ \/ /\ r \in waiters
             /\ waiters' = waiters \ {r}
             /\ victim' = [victim EXCEPT ![t] = r]
             /\ Goto(t, "mark")
             /\ UNCHANGED <<doomed, left>>
          \/ /\ r \notin waiters
             /\ PurgeNext(t, r)
             /\ UNCHANGED <<waiters, victim>>
  /\ UNCHANGED <<config, rows, inflight, job, done, client, local, env, faults>>

\* wt.job.Status = dropped, written without the lock.
Mark(t, from, to) ==
  /\ pc[t] = from
  /\ job' = [job EXCEPT ![victim[t]].status = "dropped"]
  /\ Goto(t, to)
  /\ UNCHANGED <<config, rows, inflight, waiters, done, client, purge, local,
                 env, faults>>
PurgeMark(t)   == Mark(t, "mark", "save")
TimeoutMark(r) == Mark(Handler(r), "tmark", "tsave")

PurgeSave(t) ==
  LET r == victim[t]
  IN /\ pc[t] = "save"
     /\ DropSave(r)
     /\ victim' = [victim EXCEPT ![t] = NoRequest]
     /\ PurgeNext(t, r)
     /\ UNCHANGED <<config, inflight, waiters, job, client, local, env>>

(***************************************************************************)
(* handle: counts and the three ways on: overflow, full, wait.             *)
(***************************************************************************)
Counts(r) ==
  LET t == Handler(r)
      c == cf[t]
      q == AliasQueue[alias[r]]
      waiting  == Cardinality(WaitingOf(q))
      overflow == /\ c.after > 0 /\ waiting >= c.after
                  /\ c.over # NoName /\ c.over # alias[r]
      full     == c.after = 0 /\ waiting + Cardinality(RunningOf(q)) >= MaxJobs
  IN /\ pc[t] = "counts"
     /\ \/ overflow /\ Goto(t, "overflow") /\ UNCHANGED resp
        \/ ~overflow /\ full /\ Write(r, "503 full") /\ Return(r)
        \/ ~overflow /\ ~full /\ Goto(t, "seq") /\ UNCHANGED resp
     /\ UNCHANGED <<config, rows, memory, alias, depth, forwards, ahead, purge,
                    local, env, faults>>

\* The overflow row is history; the request goes on under the overflow alias,
\* as a nested handle if Lookup finds it, else, and when Lookup cannot read the
\* table, straight to Forward.
Overflow(r) ==
  LET t == Handler(r)
      q == AliasQueue[alias[r]]
      Inserted == \E n \in Seqs :
                    /\ IsNextSeq(q, n)
                    /\ rows' = [rows EXCEPT ![<<r, depth[r]>>] = NewRow(q, n, "overflow")]
      Nested   == /\ alias' = [alias EXCEPT ![r] = cf[t].over]
                  /\ depth' = [depth EXCEPT ![r] = @ + 1]
                  /\ Goto(t, "enter")
      Straight == Goto(t, "direct") /\ UNCHANGED <<alias, depth>>
  IN /\ pc[t] = "overflow"
     /\ \/ /\ \/ Works /\ Inserted
              \/ Fails /\ UNCHANGED rows
           /\ \/ Lookup(cf[t].over) /\ Nested
              \/ ~Lookup(cf[t].over) /\ Straight
        \/ Fails /\ Inserted /\ Straight
     /\ UNCHANGED <<config, memory, resp, forwards, ahead, purge, local, env>>

\* Forward on the overflow alias, then the row.
Direct(r) ==
  LET t == Handler(r)
  IN /\ pc[t] = "direct"
     /\ forwards' = [forwards EXCEPT ![r] = @ + 1]
     /\ Write(r, "reply")
     /\ UpdateQueueJob(<<r, depth[r]>>, "ended", TRUE)
     /\ Return(r)
     /\ UNCHANGED <<config, memory, alias, depth, ahead, purge, local, env>>

\* The nested handle has returned: the outer one finishes its overflow row.
Unwind(r) ==
  LET t == Handler(r)
  IN /\ pc[t] = "unwind"
     /\ UpdateQueueJob(<<r, depth[r] - 1>>, "overflow", TRUE)
     /\ depth' = [depth EXCEPT ![r] = @ - 1]
     /\ Goto(t, IF depth[r] = 1 THEN "returned" ELSE "unwind")
     /\ UNCHANGED <<config, memory, alias, resp, forwards, ahead, purge, local,
                    env>>

(***************************************************************************)
(* handle: the job's row (seq is read by one statement and inserted by the *)
(* next), then the waiter.                                                 *)
(***************************************************************************)
ReadSeq(r) ==
  LET t == Handler(r)
      q == AliasQueue[alias[r]]
  IN /\ pc[t] = "seq"
     /\ \/ /\ Works
           /\ \E n \in Seqs :
                /\ IsNextSeq(q, n)
                /\ job' = [job EXCEPT ![r] =
                             [queue |-> q, seq |-> n, depth |-> depth[r],
                              model |-> NoModel, status |-> "waiting"]]
           /\ ahead' = [ahead EXCEPT ![r] = WaitingOf(q)]
           /\ Goto(t, "insert")
           /\ UNCHANGED resp
        \/ /\ Fails /\ Write(r, "500") /\ Return(r)
           /\ UNCHANGED <<job, ahead>>
     /\ UNCHANGED <<config, rows, inflight, waiters, done, alias, depth,
                    forwards, purge, local, env>>

Insert(r) ==
  LET t == Handler(r)
  IN /\ pc[t] = "insert"
     /\ \/ /\ Works
           /\ rows' = [rows EXCEPT ![<<r, depth[r]>>] =
                         NewRow(job[r].queue, job[r].seq, "waiting")]
           /\ Goto(t, "register")
           /\ UNCHANGED resp
        \/ Fails /\ Write(r, "500") /\ Return(r) /\ UNCHANGED rows
     /\ UNCHANGED <<config, memory, alias, depth, forwards, ahead, purge, local,
                    env>>

Register(r) ==
  LET t == Handler(r)
  IN /\ pc[t] = "register"
     /\ waiters' = waiters \cup {r}
     /\ cur' = [cur EXCEPT ![t] = job[r].queue]
     /\ Goto(t, "get")
     /\ UNCHANGED <<config, rows, inflight, job, done, client, purge, cf, pick,
                    rest, env, faults>>

\* Loop goes on to the next queue of its tick, or waits for the next tick.
NextQueue(qs) ==
  \/ qs = {} /\ Goto(Loop, "stats") /\ rest' = {} /\ UNCHANGED cur
  \/ \E q \in qs : /\ cur' = [cur EXCEPT ![Loop] = q]
                   /\ rest' = qs \ {q}
                   /\ Goto(Loop, "get")

(***************************************************************************)
(* dispatch, run by handlers, finishing runners and Loop.                  *)
(***************************************************************************)
DispatchReturn(t) ==
  IF t = Loop THEN NextQueue(rest)
  ELSE /\ Goto(t, IF t[1] = "handler" THEN "select" ELSE "end")
       /\ UNCHANGED <<cur, rest>>

\* The head of the queue and a snapshot of the slots, under the lock; pickStep
\* then works on the snapshot.
Choose(t, c) ==
  \/ /\ WaitingOf(cur[t]) = {} \/ \A i \in DOMAIN c.steps : ~Free(c.steps[i])
     /\ DispatchReturn(t)
     /\ UNCHANGED pick
  \/ \E r \in waiters, i \in DOMAIN c.steps :
       /\ IsHead(r, cur[t]) /\ Picks(c, i)
       /\ pick' = [pick EXCEPT ![t] = [r |-> r, model |-> c.steps[i].model,
                                       cap |-> c.steps[i].cap]]
       /\ Goto(t, "commit")
       /\ UNCHANGED <<cur, rest>>

\* GetQueue and the first pass; later passes keep the copy of the queue's row.
GetQueue(t) ==
  /\ pc[t] = "get"
  /\ \/ /\ Works /\ conf[cur[t]].exists
        /\ cf' = [cf EXCEPT ![t] = conf[cur[t]]]
        /\ Choose(t, conf[cur[t]])
     \/ /\ Works /\ ~conf[cur[t]].exists
        /\ DispatchReturn(t) /\ UNCHANGED <<cf, pick>>
     \/ Fails /\ DispatchReturn(t) /\ UNCHANGED <<cf, pick>>
  /\ UNCHANGED <<config, rows, memory, client, purge, env>>

Scan(t) ==
  /\ pc[t] = "scan"
  /\ Choose(t, cf[t])
  /\ UNCHANGED <<config, rows, memory, client, purge, cf, env, faults>>

\* The second critical section: the choice is taken only if it still stands.
Stands(p) == job[p.r].status = "waiting" /\ inflight[p.model] < p.cap
Commit(t) ==
  LET p == pick[t]
  IN /\ pc[t] = "commit"
     /\ \/ /\ Stands(p)
           /\ inflight' = [inflight EXCEPT ![p.model] = @ + 1]
           /\ job' = [job EXCEPT ![p.r].status = "running",
                                 ![p.r].model = p.model]
           /\ Goto(t, "launch")
           /\ UNCHANGED pick
        \/ /\ ~Stands(p)
           /\ pick' = [pick EXCEPT ![t] = NoPick]
           /\ Goto(t, "scan")
           /\ UNCHANGED <<inflight, job>>
     /\ UNCHANGED <<config, rows, waiters, done, client, purge, cur, cf, rest,
                    env, faults>>

\* UpdateQueueJob with the copy made under the lock, then go e.run(wt).
Launch(t) ==
  LET r == pick[t].r
  IN /\ pc[t] = "launch"
     /\ UpdateQueueJob(<<r, job[r].depth>>, "running", FALSE)
     /\ pc' = [pc EXCEPT ![t] = "scan", ![Runner(r)] = "forward"]
     /\ pick' = [pick EXCEPT ![t] = NoPick]
     /\ UNCHANGED <<config, memory, client, purge, cur, cf, rest, env>>

(***************************************************************************)
(* handle: the select on done and the deadline (or the client's leaving).  *)
(***************************************************************************)
WakeUp(r) ==
  /\ pc[Handler(r)] \in {"select", "await"}
  /\ r \in done
  /\ Return(r)
  /\ UNCHANGED <<config, rows, memory, client, purge, local, env, faults>>

Timeout(r) ==
  LET t == Handler(r)
  IN /\ pc[t] = "select" /\ r \in Impatient
     /\ Goto(t, IF job[r].status = "waiting" THEN "tdrop" ELSE "await")
     /\ UNCHANGED <<config, rows, memory, client, purge, local, env, faults>>

TimeoutDrop(r) ==
  LET t == Handler(r)
  IN /\ pc[t] = "tdrop"
     /\ \/ /\ r \in waiters
           /\ waiters' = waiters \ {r}
           /\ victim' = [victim EXCEPT ![t] = r]
           /\ Goto(t, "tmark")
        \/ /\ r \notin waiters
           /\ Goto(t, "t504")
           /\ UNCHANGED <<waiters, victim>>
     /\ UNCHANGED <<config, rows, inflight, job, done, client, doomed, left,
                    local, env, faults>>

TimeoutSave(r) ==
  LET t == Handler(r)
  IN /\ pc[t] = "tsave"
     /\ DropSave(r)
     /\ victim' = [victim EXCEPT ![t] = NoRequest]
     /\ Goto(t, "t504")
     /\ UNCHANGED <<config, inflight, waiters, job, client, doomed, left, local,
                    env>>

TimeoutReply(r) ==
  /\ pc[Handler(r)] = "t504"
  /\ Write(r, "504")
  /\ Return(r)
  /\ UNCHANGED <<config, rows, memory, alias, depth, forwards, ahead, purge,
                 local, env, faults>>

(***************************************************************************)
(* run and finish.  The status is written without the lock.                *)
(***************************************************************************)
Run(r) ==
  LET t == Runner(r)
  IN /\ pc[t] = "forward"
     /\ forwards' = [forwards EXCEPT ![r] = @ + 1]
     /\ Write(r, "reply")
     /\ job' = [job EXCEPT ![r].status = "ended"]
     /\ Goto(t, "finish")
     /\ UNCHANGED <<config, rows, inflight, waiters, done, alias, depth, ahead,
                    purge, local, env, faults>>

Release(m) == IF m # NoModel /\ inflight[m] > 0
              THEN [inflight EXCEPT ![m] = @ - 1] ELSE inflight
Finish(r) ==
  LET t == Runner(r)
  IN /\ pc[t] = "finish"
     /\ inflight' = Release(job[r].model)
     /\ waiters' = waiters \ {r}
     /\ Goto(t, "store")
     /\ UNCHANGED <<config, rows, job, done, client, purge, local, env, faults>>

FinishSave(r) ==
  LET t == Runner(r)
  IN /\ pc[t] = "store"
     /\ UpdateQueueJob(<<r, job[r].depth>>, job[r].status, TRUE)
     /\ Complete(r)
     /\ cur' = [cur EXCEPT ![t] = job[r].queue]
     /\ Goto(t, "get")
     /\ UNCHANGED <<config, inflight, waiters, job, client, purge, cf, pick,
                    rest, env>>

(***************************************************************************)
(* Loop: every tick purges, lists the queues and dispatches each.  Between *)
(* two ticks it is about to read the totals of the next purge.             *)
(***************************************************************************)
ListQueues ==
  /\ pc[Loop] = "list"
  /\ \/ Works /\ NextQueue({q \in Queues : conf[q].exists})
     \/ Fails /\ Goto(Loop, "stats") /\ UNCHANGED <<cur, rest>>
  /\ UNCHANGED <<config, rows, memory, client, purge, cf, pick, env>>

(***************************************************************************)
(* The administrator: SaveQueue updates the row, deletes the old steps and *)
(* inserts the new ones, a statement each and no transaction; an error     *)
(* ends it where it is.  DeleteQueue cascades to the steps, not the jobs.  *)
(***************************************************************************)
SaveQueue(q) ==
  /\ ~saving.on /\ edits < MaxEdits /\ conf[q].exists
  /\ \E c \in Saves[q] :
       /\ conf' = [conf EXCEPT ![q] = [c EXCEPT !.steps = conf[q].steps]]
       /\ saving' = [on |-> TRUE, wiped |-> FALSE, queue |-> q, todo |-> c.steps]
  /\ edits' = edits + 1
  /\ UNCHANGED <<rows, memory, client, purge, local, env, pc, faults>>

SaveStep ==
  LET q == saving.queue
  IN /\ saving.on
     /\ \/ /\ Works /\ ~saving.wiped
           /\ conf' = [conf EXCEPT ![q].steps = << >>]
           /\ saving' = [saving EXCEPT !.wiped = TRUE]
        \/ /\ Works /\ saving.wiped /\ saving.todo # << >>
           /\ conf' = [conf EXCEPT ![q].steps = Append(@, Head(saving.todo))]
           /\ saving' = [saving EXCEPT !.todo = Tail(@)]
        \/ /\ Works /\ saving.wiped /\ saving.todo = << >>
           /\ saving' = [saving EXCEPT !.on = FALSE]
           /\ UNCHANGED conf
        \/ /\ Fails
           /\ saving' = [saving EXCEPT !.on = FALSE]
           /\ UNCHANGED conf
     /\ UNCHANGED <<edits, rows, memory, client, purge, local, env, pc>>

DeleteQueue(q) ==
  /\ ~saving.on /\ edits < MaxEdits /\ conf[q].exists
  /\ conf' = [conf EXCEPT ![q] = NoConf]
  /\ edits' = edits + 1
  /\ UNCHANGED <<saving, rows, memory, client, purge, local, env, pc, faults>>

\* A backend comes or goes: what TryRoute finds changes.
Health(m) ==
  /\ m \in Flaky
  /\ up' = IF m \in up THEN up \ {m} ELSE up \cup {m}
  /\ UNCHANGED <<config, rows, memory, client, purge, local, crashes, pc,
                 faults>>

(***************************************************************************)
(* The process dies and starts again: New finds empty maps and             *)
(* ResetStaleQueueJobs drops the rows nobody waits for any more.           *)
(***************************************************************************)
ResetStaleQueueJobs ==
  rows' = [id \in JobIds |->
             IF rows[id].status \in Active
             THEN [rows[id] EXCEPT !.status = "dropped", !.fin = TRUE]
             ELSE rows[id]]
Restart ==
  /\ crashes < MaxCrashes
  /\ crashes' = crashes + 1
  /\ \/ ResetStaleQueueJobs /\ faults' = 0
     \/ MaxFaults > 0 /\ faults' = 1 /\ UNCHANGED rows
  /\ inflight' = [m \in Models |-> 0]
  /\ waiters' = {} /\ done' = {}
  /\ job' = [r \in Requests |-> [job[r] EXCEPT !.status = "none",
                                              !.model = NoModel]]
  /\ pc' = [t \in Threads |->
              CASE t[1] = "handler" -> IF pc[t] \in {"arrive", "returned"}
                                       THEN pc[t] ELSE "lost"
                [] t[1] = "runner"  -> "off"
                [] OTHER            -> "stats"]
  /\ pick' = [t \in Threads |-> NoPick]
  /\ doomed' = [t \in Threads |-> {}]
  /\ left' = [t \in Threads |-> NoLeft]
  /\ victim' = [t \in Threads |-> NoRequest]
  /\ rest' = {} /\ saving' = [saving EXCEPT !.on = FALSE, !.todo = << >>]
  /\ UNCHANGED <<conf, edits, client, cur, cf, up>>
-----------------------------------------------------------------------------
PurgeStep(t) ==
  WaitingStats(t) \/ OldestWaiting(t) \/ PurgeTake(t)
    \/ PurgeMark(t) \/ PurgeSave(t)
DispatchStep(t) == GetQueue(t) \/ Scan(t) \/ Commit(t) \/ Launch(t)

HandlerStep(r) ==
  \/ Enter(r) \/ PurgeStep(Handler(r)) \/ Counts(r)
  \/ Overflow(r) \/ Direct(r) \/ Unwind(r)
  \/ ReadSeq(r) \/ Insert(r) \/ Register(r) \/ DispatchStep(Handler(r))
  \/ WakeUp(r) \/ TimeoutDrop(r) \/ TimeoutMark(r) \/ TimeoutSave(r)
  \/ TimeoutReply(r)
RunnerStep(r) == Run(r) \/ Finish(r) \/ FinishSave(r) \/ DispatchStep(Runner(r))
LoopStep == PurgeStep(Loop) \/ ListQueues \/ DispatchStep(Loop)
AdminStep == SaveStep \/ \E q \in Queues : SaveQueue(q) \/ DeleteQueue(q)

Next ==
  \/ \E r \in Requests : HandlerStep(r) \/ Timeout(r) \/ RunnerStep(r)
  \/ LoopStep
  \/ AdminStep
  \/ \E m \in Models : Health(m)
  \/ Restart

Spec == Init /\ [][Next]_vars

(***************************************************************************)
(* Fairness.  The Go scheduler runs every goroutine that can run, Forward  *)
(* returns, and the ticker ticks.  Nobody has to send a request.           *)
(***************************************************************************)
HandlerWork(r) == pc[Handler(r)] # "arrive" /\ HandlerStep(r)
Scheduling == /\ \A r \in Requests : WF_vars(HandlerWork(r)) /\ WF_vars(RunnerStep(r))
              /\ WF_vars(LoopStep)
              /\ WF_vars(SaveStep)
Deadlines  == \A r \in Requests : WF_vars(Timeout(r))

\* FairSpec leaves the deadlines out: they may be as late as one likes.
FairSpec  == Spec /\ Scheduling
TimedSpec == Spec /\ Scheduling /\ Deadlines
-----------------------------------------------------------------------------
HandlerPCs == {"arrive", "enter", "stats", "oldest", "take", "mark",
  "save", "counts", "overflow", "direct", "unwind", "seq", "insert",
  "register", "get", "scan", "commit", "launch", "select", "await", "tdrop",
  "tmark", "tsave", "t504", "returned", "lost"}
RunnerPCs == {"off", "forward", "finish", "store", "get", "scan", "commit",
  "launch", "end"}
LoopPCs == {"stats", "oldest", "take", "mark", "save", "list",
  "get", "scan", "commit", "launch"}

ConfigType ==
  /\ conf \in [Queues -> Config]
  /\ saving \in [on : BOOLEAN, wiped : BOOLEAN, queue : Queues, todo : Seq(Step)]
  /\ edits \in Nat
RowsType == rows \in [JobIds -> Row]
MemoryType ==
  /\ inflight \in [Models -> Nat]
  /\ waiters \subseteq Requests /\ done \subseteq Requests
  /\ job \in [Requests -> Job]
ClientType ==
  /\ alias \in [Requests -> Names]
  /\ depth \in [Requests -> 0 .. MaxDepth + 1]
  /\ resp \in [Requests -> Seq(Codes)]
  /\ forwards \in [Requests -> Nat]
  /\ ahead \in [Requests -> SUBSET Requests]
PcType ==
  /\ pc \in [Threads -> HandlerPCs \cup RunnerPCs \cup LoopPCs]
  /\ \A r \in Requests : /\ pc[Handler(r)] \in HandlerPCs
                         /\ pc[Runner(r)] \in RunnerPCs
  /\ pc[Loop] \in LoopPCs
PurgeType ==
  /\ doomed \in [Threads -> SUBSET Requests]
  /\ victim \in [Threads -> Requests \cup {NoRequest}]
LocalType ==
  /\ cur \in [Threads -> Queues]
  /\ cf \in [Threads -> Config]
  /\ pick \in [Threads -> [r : Requests \cup {NoRequest}, cap : Nat,
                           model : Models \cup {NoModel}]]
  /\ rest \subseteq Queues
EnvType == up \subseteq Models /\ crashes \in Nat /\ faults \in Nat

\* Every variable keeps its type (the purge's totals, which are sums, apart).
TypeOK == /\ ConfigType /\ RowsType /\ MemoryType /\ ClientType
          /\ PcType /\ PurgeType /\ LocalType /\ EnvType

(***************************************************************************)
(* Who holds a slot of model m: a request dispatch has committed to m and  *)
(* whose runner has not finished.                                          *)
(***************************************************************************)
Launching(r, m) == \E t \in Threads : pc[t] = "launch" /\ pick[t].r = r /\ pick[t].model = m
Holds(r, m) == \/ Launching(r, m)
               \/ pc[Runner(r)] \in {"forward", "finish"} /\ job[r].model = m
SlotHolders(m) == {r \in Requests : Holds(r, m)}

\* Engine.inflight is exactly the number of requests that hold a slot: no
\* interleaving of dispatch, finish, dropWaiter and a deadline leaks a slot or
\* gives one back twice, so finish's "> 0" guard never hides an error.
InflightExact == \A m \in Models : inflight[m] = Cardinality(SlotHolders(m))

\* However many goroutines dispatch a queue at once, and whatever the other
\* queues run on the same model, the requests of queue q on model m never
\* outnumber the largest max_concurrent any configuration of q gives m.
CapRespected ==
  \A q \in Queues, m \in Models :
    LET n == Cardinality({r \in SlotHolders(m) : job[r].queue = q})
    IN n > 0 => \E c \in Saves[q] : \E i \in DOMAIN c.steps :
                   c.steps[i].model = m /\ n <= c.steps[i].cap

\* A request reaches Router.Forward at most once, whatever raced: a deadline,
\* a purge, several dispatchers, or an overflow.
ForwardedOnce == \A r \in Requests : forwards[r] <= 1

\* Unless the table can fill up (then purge drops waiters), a handler that has
\* returned has answered, and two answers mean that a deadline's 504 raced.
CannotFill ==
  LET Admitted == {r \in Requests : Size[r] <= MaxBytes}
  IN /\ Cardinality(Admitted) < MaxJobs
     /\ SumFunctionOnSet(Size, Admitted) < MaxBytes
Answered ==
  CannotFill => \A r \in Requests :
    /\ pc[Handler(r)] = "returned" => resp[r] # << >>
    /\ Len(resp[r]) > 1 => "504" \in Range(resp[r]) /\ Len(resp[r]) = 2

\* Someone is still going to write a final status to r's row.
Owned(r) ==
  \/ pc[Handler(r)] \in {"register", "get", "scan", "commit", "launch",
                         "select", "await", "tdrop", "tmark", "tsave"}
  \/ pc[Runner(r)] \in {"forward", "finish", "store"}
  \/ \E t \in Threads : \/ pc[t] = "launch" /\ pick[t].r = r
                        \/ pc[t] \in {"mark", "save"} /\ victim[t] = r

\* As long as no UPDATE failed in this life of the process, a row that says
\* waiting or running belongs to a request somebody still works on: the late
\* "running" of dispatch never overwrites a final status for good, and a
\* restart leaves no row behind.  Stale rows would count against MaxJobs.
ActiveRowOwned ==
  faults = 0 => \A id \in ActiveRows : Owned(id[1])

\* An overflow row is finished once its handler has returned normally, unless an
\* UPDATE has failed: what a failed one leaves open, no restart closes.
NoFaultEver == faults = 0 /\ (crashes = 0 \/ MaxFaults = 0)
OverflowRowClosed ==
  NoFaultEver => \A r \in Requests, d \in Depths :
    pc[Handler(r)] = "returned" /\ rows[<<r, d>>].status = "overflow"
      => rows[<<r, d>>].fin

\* First come, first started: dispatch never gives a slot to a request while
\* a waiter of the same queue that was already registered when the request
\* read its seq is still waiting in the map.
FifoStart ==
  [][\A r \in Requests :
       job[r].status = "waiting" /\ job'[r].status = "running"
         => ahead[r] \cap WaitingOf(job[r].queue) = {}]_vars

\* Every handler whose deadline can pass returns, also when a purge, a dispatch
\* or a runner got hold of its waiter first: it never waits on done for ever.
HandlersReturn ==
  \A r \in Impatient :
    pc[Handler(r)] \notin {"arrive", "returned", "lost"}
      ~> pc[Handler(r)] \in {"returned", "lost"}

\* A waiter is not left for ever beside a free slot of its queue: finish only
\* dispatches its own queue, so a slot freed by another queue is found by Loop.
Stranded(r) == /\ \E q \in Queues : r \in WaitingOf(q) /\ conf[q].exists
                    /\ \E i \in DOMAIN conf[q].steps : Free(conf[q].steps[i])
NoStranding == \A r \in Requests : []<>(~Stranded(r))

\* docs/api.md: the reply always uses the connection that waits, so a runner
\* never forwards for a handler that has already returned.
ReplyUsesConnection ==
  \A r \in Requests : pc[Runner(r)] = "forward" => pc[Handler(r)] # "returned"
=============================================================================
