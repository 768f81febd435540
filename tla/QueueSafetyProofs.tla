-------------------------- MODULE QueueSafetyProofs --------------------------
(***************************************************************************)
(* The types of QueueEngine and the slots of the queue: exact counts, caps *)
(* and at-most-once forwarding, proved for any finite set of requests and  *)
(* any queues, models, configurations, limits and bounds.                  *)
(***************************************************************************)
EXTENDS QueueEngine, TLAPS, FiniteSetTheorems

(***************************************************************************)
(* Types, for any finite set of requests and any queues, models,           *)
(* configurations, limits and bounds.                                      *)
(* They are not inductive alone: the rows a handler writes are keyed by    *)
(* its depth, and dropWaiter's victim must be a request.                   *)
(***************************************************************************)
VictimSound == \A t \in Threads : pc[t] \in {"mark", "save", "tmark", "tsave"} =>
                 victim[t] \in Requests

\* A handler past its checks works on a queue, at a depth that has a row.
Admitted == {"stats", "oldest", "take", "mark", "save", "counts", "overflow",
             "direct", "seq", "insert", "register"}
HandleSound ==
  \A r \in Requests :
    /\ pc[Handler(r)] \in Admitted =>
         alias[r] \in DOMAIN AliasQueue /\ depth[r] \in Depths
    /\ pc[Handler(r)] = "unwind" => depth[r] \in 1 .. MaxDepth + 1

TypeInv == TypeOK /\ HandleSound /\ VictimSound

-----------------------------------------------------------------------------
(***************************************************************************)
(* The goroutines are pairwise different.                                  *)
(***************************************************************************)
LEMMA ThreadFacts ==
  /\ Loop \in Threads /\ Loop[1] = "loop"
  /\ \A r \in Requests :
       /\ Handler(r) \in Threads /\ Handler(r)[1] = "handler" /\ Handler(r)[2] = r
       /\ Runner(r) \in Threads /\ Runner(r)[1] = "runner" /\ Runner(r)[2] = r
       /\ Handler(r) # Loop /\ Runner(r) # Loop
  /\ \A r, s \in Requests :
       /\ Handler(r) # Runner(s)
       /\ Handler(r) = Handler(s) => r = s
       /\ Runner(r) = Runner(s) => r = s
  /\ \A t \in Threads : \/ t = Loop
                        \/ \E r \in Requests : t = Handler(r)
                        \/ \E r \in Requests : t = Runner(r)
BY RequestsAssumption DEF Loop, Threads, Handler, Runner

USE DEF MaxDepth, Depths

\* The helpers' results have the types their callers store.
LEMMA NoValues ==
  /\ NoConf \in Config
  /\ NoPick \in [r : Requests \cup {NoRequest}, cap : Nat,
                 model : Models \cup {NoModel}]
BY DEF NoConf, NoPick, Config, Names

LEMMA InitType == Init => TypeInv
<1> SUFFICES ASSUME Init PROVE TypeInv
  OBVIOUS
<1> USE ThreadFacts, NoValues, AliasAssumption, ConfAssumption, QueuesAssumption
<1>1. conf \in [Queues -> Config] /\ saving \in [on : BOOLEAN, wiped : BOOLEAN, queue : Queues, todo : Seq(Step)]
  BY DEF Init
<1>2. rows \in [JobIds -> Row]
  BY DEF Init, JobIds, Row, NewRow, Active, Terminal
<1>3. job \in [Requests -> Job]
  BY DEF Init, Job
<1>4. /\ inflight \in [Models -> Nat]
      /\ waiters \subseteq Requests /\ done \subseteq Requests
      /\ up \subseteq Models
      /\ alias \in [Requests -> Names]
      /\ depth \in [Requests -> 0 .. MaxDepth + 1]
      /\ resp \in [Requests -> Seq(Codes)]
      /\ forwards \in [Requests -> Nat]
      /\ ahead \in [Requests -> SUBSET Requests]
      /\ rest \subseteq Queues
      /\ edits \in Nat /\ crashes \in Nat /\ faults \in Nat
  BY DEF Init, Names
<1>5. /\ pc \in [Threads -> HandlerPCs \cup RunnerPCs \cup LoopPCs]
      /\ \A r \in Requests : pc[Handler(r)] = "arrive" /\ pc[Runner(r)] = "off"
      /\ pc[Loop] = "stats"
      /\ \A t \in Threads : pc[t] \in {"arrive", "off", "stats"}
  BY DEF Init, HandlerPCs, RunnerPCs, LoopPCs
<1>6. cur \in [Threads -> Queues]
  <2>1. (CHOOSE q \in Queues : TRUE) \in Queues
    OBVIOUS
  <2>2. \A t \in Threads : t # Loop => AliasQueue[Entry[t[2]]] \in Queues
    OBVIOUS
  <2> QED BY <2>1, <2>2 DEF Init
<1>8. /\ cf \in [Threads -> Config]
      /\ pick \in [Threads -> [r : Requests \cup {NoRequest}, cap : Nat,
                               model : Models \cup {NoModel}]]
      /\ doomed \in [Threads -> SUBSET Requests]
      /\ victim \in [Threads -> Requests \cup {NoRequest}]
  BY DEF Init
<1>7. TypeOK
  BY <1>1, <1>2, <1>3, <1>4, <1>5, <1>6, <1>8 DEF TypeOK, ConfigType, RowsType, MemoryType,
       ClientType, PcType, PurgeType, LocalType, EnvType, HandlerPCs, RunnerPCs,
       LoopPCs
<1> QED
  BY <1>5, <1>7 DEF TypeInv, HandleSound, VictimSound, Admitted

-----------------------------------------------------------------------------
(***************************************************************************)
(* Type correctness: one goroutine moves at a time, to a label of its own. *)
(***************************************************************************)
LEMMA GotoHandler ==
  ASSUME PcType, NEW r \in Requests, NEW l \in HandlerPCs, Goto(Handler(r), l)
  PROVE  PcType'
BY ThreadFacts DEF PcType, Goto

LEMMA GotoRunner ==
  ASSUME PcType, NEW r \in Requests, NEW l \in RunnerPCs, Goto(Runner(r), l)
  PROVE  PcType'
BY ThreadFacts DEF PcType, Goto

LEMMA GotoLoop ==
  ASSUME PcType, NEW l \in LoopPCs, Goto(Loop, l)
  PROVE  PcType'
BY ThreadFacts DEF PcType, Goto

LEMMA WriteType ==
  ASSUME ClientType, NEW r \in Requests, NEW code \in Codes, Write(r, code),
         UNCHANGED <<alias, depth, forwards, ahead>>
  PROVE  ClientType'
<1>1. Append(resp[r], code) \in Seq(Codes)
  BY DEF ClientType
<1> QED BY <1>1 DEF ClientType, Write

LEMMA UpdateType ==
  ASSUME RowsType, EnvType, NEW id \in JobIds, NEW fin \in BOOLEAN,
         NEW status \in Active \cup Terminal \cup {"none"},
         UpdateQueueJob(id, status, fin), UNCHANGED env
  PROVE  RowsType' /\ EnvType'
BY DEF RowsType, EnvType, UpdateQueueJob, Works, Fails, Row, env

Dropping == {"mark", "save", "tmark", "tsave"}

\* handle returns to its caller.
LEMMA ReturnSound ==
  ASSUME TypeInv, NEW r \in Requests, Return(r), UNCHANGED <<alias, depth, victim>>
  PROVE  PcType' /\ HandleSound' /\ VictimSound'
<1> DEFINE l == IF depth[r] = 0 THEN "returned" ELSE "unwind"
<1>1. l \in HandlerPCs /\ l \notin Admitted /\ l \notin Dropping
  BY DEF HandlerPCs, Admitted, Dropping
<1>2. l = "unwind" => depth[r] \in 1 .. MaxDepth + 1
  BY DEF TypeInv, TypeOK, ClientType
<1>3. Goto(Handler(r), l)
  BY DEF Return
<1> HIDE DEF l
<1>4. PcType'
  BY <1>1, <1>3, GotoHandler DEF TypeInv, TypeOK
<1>5. \A s \in Requests : pc'[Handler(s)] = IF s = r THEN l ELSE pc[Handler(s)]
  BY <1>3, ThreadFacts DEF Goto, TypeInv, TypeOK, PcType
<1>6. HandleSound'
  BY <1>1, <1>2, <1>5 DEF TypeInv, HandleSound
<1>7. VictimSound'
  BY <1>1, <1>3, ThreadFacts DEF TypeInv, TypeOK, PcType, VictimSound, Goto, Dropping
<1> QED BY <1>4, <1>6, <1>7

\* A handler moves on inside handle.
LEMMA MoveSound ==
  ASSUME TypeInv, NEW r \in Requests, NEW l \in HandlerPCs, Goto(Handler(r), l),
         l \in Admitted => alias'[r] \in DOMAIN AliasQueue /\ depth'[r] \in Depths,
         l = "unwind" => depth'[r] \in 1 .. MaxDepth + 1,
         l \in Dropping => victim'[Handler(r)] \in Requests,
         \A s \in Requests \ {r} : alias'[s] = alias[s] /\ depth'[s] = depth[s],
         \A t \in Threads \ {Handler(r)} : victim'[t] = victim[t]
  PROVE  PcType' /\ HandleSound' /\ VictimSound'
<1>1. PcType'
  BY GotoHandler DEF TypeInv, TypeOK
<1>2. \A s \in Requests : pc'[Handler(s)] = IF s = r THEN l ELSE pc[Handler(s)]
  BY ThreadFacts DEF Goto, TypeInv, TypeOK, PcType
<1>3. HandleSound'
  BY <1>2 DEF TypeInv, HandleSound
<1>4. \A t \in Threads : pc'[t] = IF t = Handler(r) THEN l ELSE pc[t]
  BY ThreadFacts DEF Goto, TypeInv, TypeOK, PcType
<1>5. VictimSound'
  BY <1>4 DEF TypeInv, VictimSound, Dropping
<1> QED BY <1>1, <1>3, <1>5

LEMMA TypeEnter ==
  ASSUME TypeInv, NEW r \in Requests, Enter(r) PROVE TypeInv'
<1> USE ThreadFacts
<1>1. ConfigType' /\ RowsType' /\ MemoryType' /\ PurgeType' /\ EnvType'
  <2>1. UNCHANGED <<config, rows, memory, purge, env>> /\ (Works \/ Fails)
    BY DEF Enter
  <2> QED BY <2>1 DEF TypeInv, TypeOK, ConfigType, RowsType, MemoryType, PurgeType,
     EnvType, config, memory, purge, env, Works, Fails
<1>2. \/ /\ Write(r, "413") \/ Write(r, "404") \/ Write(r, "503 loop")
         /\ Return(r) /\ UNCHANGED cf
      \/ /\ Goto(Handler(r), "stats") /\ Found(alias[r]) /\ ~TooDeep(r)
         /\ cf' = [cf EXCEPT ![Handler(r)] = conf[AliasQueue[alias[r]]]]
         /\ UNCHANGED resp
  BY DEF Enter
<1>3. UNCHANGED <<alias, depth, forwards, ahead, cur, pick, rest, victim>>
  BY DEF Enter, purge
<1>4. CASE /\ Write(r, "413") \/ Write(r, "404") \/ Write(r, "503 loop")
           /\ Return(r) /\ UNCHANGED cf
  <2>1. ClientType'
    <3>1. "413" \in Codes /\ "404" \in Codes /\ "503 loop" \in Codes
      BY DEF Codes
    <3> QED BY <1>3, <1>4, <3>1, WriteType DEF TypeInv, TypeOK
  <2>2. PcType' /\ HandleSound' /\ VictimSound'
    BY <1>3, <1>4, ReturnSound
  <2>3. LocalType'
    BY <1>3, <1>4 DEF TypeInv, TypeOK, LocalType
  <2> QED BY <1>1, <2>1, <2>2, <2>3 DEF TypeInv, TypeOK
<1>5. CASE /\ Goto(Handler(r), "stats") /\ Found(alias[r]) /\ ~TooDeep(r)
           /\ cf' = [cf EXCEPT ![Handler(r)] = conf[AliasQueue[alias[r]]]]
           /\ UNCHANGED resp
  <2>1. ClientType'
    BY <1>3, <1>5 DEF TypeInv, TypeOK, ClientType
  <2>2. depth[r] \in Depths /\ alias[r] \in DOMAIN AliasQueue
    BY <1>5 DEF TypeInv, TypeOK, ClientType, TooDeep, Found
  <2>3. "stats" \in HandlerPCs /\ "stats" \notin Dropping
    BY DEF HandlerPCs, Dropping
  <2>4. PcType' /\ HandleSound' /\ VictimSound'
    BY <1>3, <1>5, <2>2, <2>3, MoveSound
  <2>5. LocalType'
    BY <1>3, <1>5, AliasAssumption DEF TypeInv, TypeOK, LocalType, ConfigType, Found
  <2> QED BY <1>1, <2>1, <2>4, <2>5 DEF TypeInv, TypeOK
<1> QED BY <1>2, <1>4, <1>5

Purgers == {t \in Threads : t = Loop \/ \E r \in Requests : t = Handler(r)}

\* A handler or Loop moves on inside purgeIfNeeded, or leaves it.
LEMMA PurgeMove ==
  ASSUME TypeInv, NEW t \in Purgers, NEW l, Goto(t, l), pc[t] \in Admitted,
         \/ l \in {"oldest", "take", "mark", "save"}
         \/ l = IF t = Loop THEN "list" ELSE "counts",
         UNCHANGED <<alias, depth>>,
         l \in Dropping => victim'[t] \in Requests,
         \A u \in Threads \ {t} : victim'[u] = victim[u]
  PROVE  PcType' /\ HandleSound' /\ VictimSound'
<1> USE ThreadFacts
<1>1. CASE t = Loop
  <2>1. l \in LoopPCs
    BY <1>1 DEF LoopPCs
  <2>2. PcType'
    BY <1>1, <2>1, GotoLoop DEF TypeInv, TypeOK
  <2>3. \A u \in Threads : pc'[u] = IF u = t THEN l ELSE pc[u]
    BY DEF Goto, TypeInv, TypeOK, PcType, Purgers
  <2>4. \A r \in Requests : pc'[Handler(r)] = pc[Handler(r)]
    BY <1>1, <2>3
  <2>5. HandleSound'
    BY <2>4 DEF TypeInv, HandleSound
  <2>6. VictimSound'
    BY <2>3 DEF TypeInv, VictimSound, Dropping
  <2> QED BY <2>2, <2>5, <2>6
<1>2. ASSUME NEW r \in Requests, t = Handler(r) PROVE PcType' /\ HandleSound' /\ VictimSound'
  <2>1. l \in HandlerPCs /\ l # "unwind"
    BY <1>2 DEF HandlerPCs
  <2>2. alias[r] \in DOMAIN AliasQueue /\ depth[r] \in Depths
    BY <1>2 DEF TypeInv, HandleSound
  <2> QED BY <1>2, <2>1, <2>2, MoveSound
<1> QED BY <1>1, <1>2 DEF Purgers

LEMMA TypeWaitingStats ==
  ASSUME TypeInv, NEW t \in Purgers, WaitingStats(t) PROVE TypeInv'
<1>1. UNCHANGED <<config, memory, client, doomed, victim, local, env>> /\ (Works \/ Fails)
  BY DEF WaitingStats
<1>2. ConfigType' /\ MemoryType' /\ ClientType' /\ PurgeType' /\ LocalType' /\ EnvType'
  BY <1>1 DEF TypeInv, TypeOK, ConfigType, MemoryType, ClientType, PurgeType,
     LocalType, EnvType, config, memory, client, local, env, Works, Fails
<1>3. PurgeFinishedQueueJobs \/ UNCHANGED rows
  BY DEF WaitingStats
<1>4. RowsType'
  <2>1. CASE UNCHANGED rows
    BY <2>1 DEF TypeInv, TypeOK, RowsType
  <2>2. CASE PurgeFinishedQueueJobs
    <3>1. PICK gone : rows' = [id \in JobIds |->
              IF id \in gone THEN [rows[id] EXCEPT !.status = "none"] ELSE rows[id]]
      BY <2>2 DEF PurgeFinishedQueueJobs
    <3> QED BY <3>1 DEF TypeInv, TypeOK, RowsType, Row
  <2> QED BY <1>3, <2>1, <2>2
<1>5. pc[t] = "stats" /\ (Goto(t, "oldest") \/ PurgeReturn(t))
  BY DEF WaitingStats
<1>6. PcType' /\ HandleSound' /\ VictimSound'
  <2>1. "stats" \in Admitted /\ "oldest" \notin Dropping /\ "list" \notin Dropping
          /\ "counts" \notin Dropping
    BY DEF Admitted, Dropping
  <2> QED BY <1>1, <1>5, <2>1, PurgeMove DEF PurgeReturn, client
<1> QED BY <1>2, <1>4, <1>6 DEF TypeInv, TypeOK

LEMMA TypeOldestWaiting ==
  ASSUME TypeInv, NEW t \in Purgers, OldestWaiting(t) PROVE TypeInv'
<1>1. UNCHANGED <<config, rows, memory, client, victim, local, env>> /\ (Works \/ Fails)
  BY DEF OldestWaiting
<1>2. ConfigType' /\ RowsType' /\ MemoryType' /\ ClientType' /\ LocalType' /\ EnvType'
  BY <1>1 DEF TypeInv, TypeOK, ConfigType, RowsType, MemoryType, ClientType,
     LocalType, EnvType, config, memory, client, local, env, Works, Fails
<1>3. \/ UNCHANGED doomed
      \/ \E D \in SUBSET WaitingRows : doomed' = [doomed EXCEPT ![t] = {id[1] : id \in D}]
  BY DEF OldestWaiting
<1>4. \A D \in SUBSET WaitingRows : {id[1] : id \in D} \in SUBSET Requests
  BY DEF WaitingRows, JobIds
<1>5. PurgeType'
  BY <1>1, <1>3, <1>4 DEF TypeInv, TypeOK, PurgeType
<1>6. pc[t] = "oldest" /\ (Goto(t, "take") \/ PurgeReturn(t))
  BY DEF OldestWaiting
<1>7. PcType' /\ HandleSound' /\ VictimSound'
  <2>1. "oldest" \in Admitted /\ "take" \notin Dropping /\ "list" \notin Dropping
          /\ "counts" \notin Dropping
    BY DEF Admitted, Dropping
  <2> QED BY <1>1, <1>6, <2>1, PurgeMove DEF PurgeReturn, client
<1> QED BY <1>2, <1>5, <1>7 DEF TypeInv, TypeOK

LEMMA PurgeNextSound ==
  ASSUME TypeInv, NEW t \in Purgers, NEW r, PurgeNext(t, r), pc[t] \in Admitted,
         UNCHANGED <<alias, depth>>,
         \A u \in Threads \ {t} : victim'[u] = victim[u]
  PROVE  /\ doomed' \in [Threads -> SUBSET Requests]
         /\ PcType' /\ HandleSound' /\ VictimSound'
<1>1. doomed' \in [Threads -> SUBSET Requests]
  BY DEF PurgeNext, TypeInv, TypeOK, PurgeType
<1>2. Goto(t, "take") \/ PurgeReturn(t)
  BY DEF PurgeNext
<1>3. "take" \notin Dropping /\ "list" \notin Dropping /\ "counts" \notin Dropping
  BY DEF Dropping
<1> QED BY <1>1, <1>2, <1>3, PurgeMove DEF PurgeReturn

LEMMA TypePurgeTake ==
  ASSUME TypeInv, NEW t \in Purgers, PurgeTake(t) PROVE TypeInv'
<1>1. UNCHANGED <<config, rows, inflight, job, done, client, local, env, faults>>
  BY DEF PurgeTake
<1>2. ConfigType' /\ RowsType' /\ ClientType' /\ LocalType' /\ EnvType'
  BY <1>1 DEF TypeInv, TypeOK, ConfigType, RowsType, ClientType,
     LocalType, EnvType, config, client, local, env
<1>3. PICK r \in doomed[t] :
        \/ /\ waiters' = waiters \ {r} /\ victim' = [victim EXCEPT ![t] = r]
           /\ Goto(t, "mark") /\ UNCHANGED doomed
        \/ PurgeNext(t, r) /\ UNCHANGED <<waiters, victim>>
  BY DEF PurgeTake
<1>4. r \in Requests /\ t \in Threads
  BY <1>3 DEF TypeInv, TypeOK, PurgeType, Purgers
<1>5. MemoryType'
  BY <1>1, <1>3 DEF TypeInv, TypeOK, MemoryType
<1>6. pc[t] \in Admitted
  BY DEF PurgeTake, Admitted
<1>7. CASE /\ victim' = [victim EXCEPT ![t] = r]
           /\ Goto(t, "mark") /\ UNCHANGED doomed
  <2>1. PurgeType'
    BY <1>4, <1>7 DEF TypeInv, TypeOK, PurgeType
  <2>2. victim'[t] \in Requests /\ \A u \in Threads \ {t} : victim'[u] = victim[u]
    BY <1>4, <1>7 DEF TypeInv, TypeOK, PurgeType
  <2>3. PcType' /\ HandleSound' /\ VictimSound'
    BY <1>1, <1>6, <1>7, <2>2, PurgeMove DEF client
  <2> QED BY <1>2, <1>5, <2>1, <2>3 DEF TypeInv, TypeOK
<1>8. CASE PurgeNext(t, r) /\ UNCHANGED <<waiters, victim>>
  BY <1>1, <1>2, <1>5, <1>6, <1>8, PurgeNextSound DEF TypeInv, TypeOK, PurgeType, client
<1> QED BY <1>3, <1>7, <1>8

\* wt.job.Status = ... on any job keeps the jobs' type.
LEMMA StatusType ==
  ASSUME MemoryType, NEW r \in Requests,
         NEW status \in Active \cup Terminal \cup {"none"},
         job' = [job EXCEPT ![r].status = status],
         UNCHANGED <<inflight, waiters, done>>
  PROVE  MemoryType'
BY DEF MemoryType, Job

LEMMA TypePurgeMark ==
  ASSUME TypeInv, NEW t \in Purgers, PurgeMark(t) PROVE TypeInv'
<1> USE DEF PurgeMark, Mark
<1>1. UNCHANGED <<config, rows, inflight, waiters, done, client, purge, local, env, faults>>
  OBVIOUS
<1>2. ConfigType' /\ RowsType' /\ ClientType' /\ PurgeType' /\ LocalType' /\ EnvType'
  BY <1>1 DEF TypeInv, TypeOK, ConfigType, RowsType, ClientType, PurgeType,
     LocalType, EnvType, config, client, purge, local, env
<1>3. victim[t] \in Requests
  BY DEF TypeInv, VictimSound, Purgers
<1>4. "dropped" \in Active \cup Terminal \cup {"none"}
  BY DEF Terminal
<1>5. MemoryType'
  BY <1>1, <1>3, <1>4, StatusType DEF TypeInv, TypeOK
<1>6. "mark" \in Admitted
  BY DEF Admitted
<1>7. PcType' /\ HandleSound' /\ VictimSound'
  BY <1>1, <1>3, <1>6, PurgeMove DEF client, purge
<1> QED BY <1>2, <1>5, <1>7 DEF TypeInv, TypeOK

LEMMA DropSaveType ==
  ASSUME TypeInv, NEW r \in Requests, DropSave(r),
         UNCHANGED <<inflight, waiters, job, env>>
  PROVE  RowsType' /\ EnvType' /\ MemoryType'
<1>1. <<r, job[r].depth>> \in JobIds /\ job[r].status \in Active \cup Terminal \cup {"none"}
  BY DEF TypeInv, TypeOK, MemoryType, Job, JobIds
<1>2. RowsType' /\ EnvType'
  BY <1>1, UpdateType DEF TypeInv, TypeOK, DropSave
<1>3. MemoryType'
  BY DEF TypeInv, TypeOK, MemoryType, DropSave, Complete
<1> QED BY <1>2, <1>3

LEMMA TypePurgeSave ==
  ASSUME TypeInv, NEW t \in Purgers, PurgeSave(t) PROVE TypeInv'
<1> DEFINE r == victim[t]
<1>1. UNCHANGED <<config, inflight, waiters, job, client, local, env>>
  BY DEF PurgeSave
<1>2. ConfigType' /\ ClientType' /\ LocalType'
  BY <1>1 DEF TypeInv, TypeOK, ConfigType, ClientType, LocalType, config, client, local
<1>3. /\ pc[t] = "save" /\ DropSave(r) /\ PurgeNext(t, r)
      /\ victim' = [victim EXCEPT ![t] = NoRequest]
  BY DEF PurgeSave
<1>4. r \in Requests /\ t \in Threads
  BY <1>3 DEF TypeInv, VictimSound, Purgers
<1>5. RowsType' /\ EnvType' /\ MemoryType'
  BY <1>1, <1>3, <1>4, DropSaveType
<1>6. /\ victim' \in [Threads -> Requests \cup {NoRequest}]
      /\ \A u \in Threads \ {t} : victim'[u] = victim[u]
  BY <1>3, <1>4 DEF TypeInv, TypeOK, PurgeType
<1>7. pc[t] \in Admitted
  BY <1>3 DEF Admitted
<1>8. UNCHANGED <<alias, depth>>
  BY <1>1 DEF client
<1>9. /\ doomed' \in [Threads -> SUBSET Requests]
      /\ PcType' /\ HandleSound' /\ VictimSound'
  BY <1>3, <1>6, <1>7, <1>8, PurgeNextSound
<1> QED BY <1>2, <1>5, <1>6, <1>9 DEF TypeInv, TypeOK, PurgeType

LEMMA TypeCounts ==
  ASSUME TypeInv, NEW r \in Requests, Counts(r) PROVE TypeInv'
<1>1. UNCHANGED <<config, rows, memory, alias, depth, forwards, ahead, purge, local, env, faults>>
  BY DEF Counts
<1>2. ConfigType' /\ RowsType' /\ MemoryType' /\ PurgeType' /\ LocalType' /\ EnvType'
  BY <1>1 DEF TypeInv, TypeOK, ConfigType, RowsType, MemoryType, PurgeType,
     LocalType, EnvType, config, memory, purge, local, env
<1>3. /\ pc[Handler(r)] = "counts"
      /\ \/ (Goto(Handler(r), "overflow") \/ Goto(Handler(r), "seq")) /\ UNCHANGED resp
         \/ Write(r, "503 full") /\ Return(r)
  BY DEF Counts
<1>4. CASE (Goto(Handler(r), "overflow") \/ Goto(Handler(r), "seq")) /\ UNCHANGED resp
  <2>1. ClientType'
    BY <1>1, <1>4 DEF TypeInv, TypeOK, ClientType
  <2>2. alias[r] \in DOMAIN AliasQueue /\ depth[r] \in Depths
    BY <1>3 DEF TypeInv, HandleSound, Admitted
  <2>3. {"overflow", "seq"} \subseteq HandlerPCs /\ {"overflow", "seq"} \cap Dropping = {}
    BY DEF HandlerPCs, Dropping
  <2>4. PcType' /\ HandleSound' /\ VictimSound'
    BY <1>1, <1>4, <2>2, <2>3, MoveSound DEF purge
  <2> QED BY <1>2, <2>1, <2>4 DEF TypeInv, TypeOK
<1>5. CASE Write(r, "503 full") /\ Return(r)
  <2>1. "503 full" \in Codes
    BY DEF Codes
  <2>2. ClientType'
    BY <1>1, <1>5, <2>1, WriteType DEF TypeInv, TypeOK
  <2>3. PcType' /\ HandleSound' /\ VictimSound'
    BY <1>1, <1>5, ReturnSound DEF purge
  <2> QED BY <1>2, <2>2, <2>3 DEF TypeInv, TypeOK
<1> QED BY <1>3, <1>4, <1>5

LEMMA TypeOverflow ==
  ASSUME TypeInv, NEW r \in Requests, Overflow(r) PROVE TypeInv'
<1> DEFINE t == Handler(r)
           q == AliasQueue[alias[r]]
<1>1. UNCHANGED <<config, memory, resp, forwards, ahead, purge, local, env>> /\ (Works \/ Fails)
  BY DEF Overflow
<1>2. ConfigType' /\ MemoryType' /\ PurgeType' /\ LocalType' /\ EnvType'
  BY <1>1 DEF TypeInv, TypeOK, ConfigType, MemoryType, PurgeType, LocalType,
     EnvType, config, memory, purge, local, env, Works, Fails
<1>3. pc[t] = "overflow"
  BY DEF Overflow
<1>4. alias[r] \in DOMAIN AliasQueue /\ depth[r] \in Depths /\ q \in Queues
  BY <1>3, AliasAssumption DEF TypeInv, HandleSound, Admitted
<1>5. RowsType'
  <2>1. \/ UNCHANGED rows
        \/ \E n \in Seqs : rows' = [rows EXCEPT ![<<r, depth[r]>>] = NewRow(q, n, "overflow")]
    BY DEF Overflow
  <2>2. \A n \in Seqs : NewRow(q, n, "overflow") \in Row
    BY <1>4 DEF Seqs, NewRow, Row, Terminal
  <2> QED BY <2>1, <2>2 DEF TypeInv, TypeOK, RowsType
<1>6. \/ /\ alias' = [alias EXCEPT ![r] = cf[t].over] /\ depth' = [depth EXCEPT ![r] = @ + 1]
         /\ Goto(t, "enter")
      \/ Goto(t, "direct") /\ UNCHANGED <<alias, depth>>
  BY DEF Overflow
<1>7. ClientType'
  <2>1. cf[t].over \in Names
    BY ThreadFacts DEF TypeInv, TypeOK, LocalType, Config
  <2>2. alias' \in [Requests -> Names]
    BY <1>6, <2>1 DEF TypeInv, TypeOK, ClientType
  <2>3. depth' \in [Requests -> 0 .. MaxDepth + 1]
    <3>1. depth[r] + 1 \in 0 .. MaxDepth + 1 /\ depth \in [Requests -> 0 .. MaxDepth + 1]
      BY <1>4 DEF TypeInv, TypeOK, ClientType
    <3> QED BY <1>6, <3>1
  <2> QED BY <1>1, <2>2, <2>3 DEF TypeInv, TypeOK, ClientType
<1>8. /\ "enter" \notin Admitted /\ "enter" \in HandlerPCs /\ "direct" \in HandlerPCs
      /\ "enter" \notin Dropping /\ "direct" \notin Dropping
  BY DEF Admitted, HandlerPCs, Dropping
<1>9. PcType' /\ HandleSound' /\ VictimSound'
  <2>1. \A s \in Requests \ {r} : alias'[s] = alias[s] /\ depth'[s] = depth[s]
    BY <1>6 DEF TypeInv, TypeOK, ClientType
  <2> QED BY <1>1, <1>4, <1>6, <1>8, <2>1, MoveSound DEF purge
<1> QED BY <1>2, <1>5, <1>7, <1>9 DEF TypeInv, TypeOK

LEMMA TypeDirect ==
  ASSUME TypeInv, NEW r \in Requests, Direct(r) PROVE TypeInv'
<1>1. /\ UNCHANGED <<config, memory, alias, depth, ahead, purge, local, env>>
      /\ pc[Handler(r)] = "direct"
      /\ forwards' = [forwards EXCEPT ![r] = @ + 1] /\ Write(r, "reply") /\ Return(r)
      /\ UpdateQueueJob(<<r, depth[r]>>, "ended", TRUE)
  BY DEF Direct
<1>2. ConfigType' /\ MemoryType' /\ PurgeType' /\ LocalType'
  BY <1>1 DEF TypeInv, TypeOK, ConfigType, MemoryType, PurgeType, LocalType,
     config, memory, purge, local
<1>3. <<r, depth[r]>> \in JobIds /\ "ended" \in Active \cup Terminal \cup {"none"}
  BY <1>1 DEF TypeInv, HandleSound, Admitted, JobIds, Terminal
<1>4. RowsType' /\ EnvType'
  BY <1>1, <1>3, UpdateType DEF TypeInv, TypeOK
<1>5. ClientType'
  <2>1. "reply" \in Codes
    BY DEF Codes
  <2>2. Append(resp[r], "reply") \in Seq(Codes)
    BY <2>1 DEF TypeInv, TypeOK, ClientType
  <2> QED BY <1>1, <2>2 DEF TypeInv, TypeOK, ClientType, Write
<1>6. PcType' /\ HandleSound' /\ VictimSound'
  BY <1>1, ReturnSound DEF purge
<1> QED BY <1>2, <1>4, <1>5, <1>6 DEF TypeInv, TypeOK

LEMMA TypeUnwind ==
  ASSUME TypeInv, NEW r \in Requests, Unwind(r) PROVE TypeInv'
<1> DEFINE l == IF depth[r] = 1 THEN "returned" ELSE "unwind"
<1>1. /\ UNCHANGED <<config, memory, alias, resp, forwards, ahead, purge, local, env>>
      /\ pc[Handler(r)] = "unwind"
      /\ depth' = [depth EXCEPT ![r] = @ - 1]
      /\ UpdateQueueJob(<<r, depth[r] - 1>>, "overflow", TRUE)
      /\ Goto(Handler(r), l)
  BY DEF Unwind
<1>2. ConfigType' /\ MemoryType' /\ PurgeType' /\ LocalType'
  BY <1>1 DEF TypeInv, TypeOK, ConfigType, MemoryType, PurgeType, LocalType,
     config, memory, purge, local
<1>3. depth[r] \in 1 .. MaxDepth + 1
  BY <1>1 DEF TypeInv, HandleSound
<1>4. <<r, depth[r] - 1>> \in JobIds /\ "overflow" \in Active \cup Terminal \cup {"none"}
  BY <1>3 DEF JobIds, Terminal
<1>5. RowsType' /\ EnvType'
  BY <1>1, <1>4, UpdateType DEF TypeInv, TypeOK
<1>6. ClientType'
  BY <1>1, <1>3 DEF TypeInv, TypeOK, ClientType
<1>7. l \in HandlerPCs /\ l \notin Admitted /\ l \notin Dropping
  BY DEF HandlerPCs, Admitted, Dropping
<1>8. /\ \A s \in Requests \ {r} : alias'[s] = alias[s] /\ depth'[s] = depth[s]
      /\ l = "unwind" => depth'[r] \in 1 .. MaxDepth + 1
  BY <1>1, <1>3 DEF TypeInv, TypeOK, ClientType
<1> HIDE DEF l
<1>9. PcType' /\ HandleSound' /\ VictimSound'
  BY <1>1, <1>7, <1>8, MoveSound DEF purge
<1> QED BY <1>2, <1>5, <1>6, <1>9 DEF TypeInv, TypeOK

LEMMA TypeReadSeq ==
  ASSUME TypeInv, NEW r \in Requests, ReadSeq(r) PROVE TypeInv'
<1> DEFINE q == AliasQueue[alias[r]]
<1>1. /\ UNCHANGED <<config, rows, inflight, waiters, done, alias, depth, forwards, purge,
                     local, env>>
      /\ (Works \/ Fails) /\ pc[Handler(r)] = "seq"
  BY DEF ReadSeq
<1>2. ConfigType' /\ RowsType' /\ PurgeType' /\ LocalType' /\ EnvType'
  BY <1>1 DEF TypeInv, TypeOK, ConfigType, RowsType, PurgeType, LocalType, EnvType,
     config, purge, local, env, Works, Fails
<1>3. alias[r] \in DOMAIN AliasQueue /\ depth[r] \in Depths /\ q \in Queues
  BY <1>1, AliasAssumption DEF TypeInv, HandleSound, Admitted
<1>4. CASE \E n \in Seqs :
             /\ job' = [job EXCEPT ![r] = [queue |-> q, seq |-> n, depth |-> depth[r],
                                          model |-> NoModel, status |-> "waiting"]]
             /\ ahead' = [ahead EXCEPT ![r] = WaitingOf(q)]
             /\ Goto(Handler(r), "insert") /\ UNCHANGED resp
  <2>1. \A n \in Seqs : [queue |-> q, seq |-> n, depth |-> depth[r],
                         model |-> NoModel, status |-> "waiting"] \in Job
    BY <1>3 DEF Job, Seqs, Active
  <2>2. MemoryType'
    BY <1>1, <1>4, <2>1 DEF TypeInv, TypeOK, MemoryType
  <2>3. ClientType'
    BY <1>1, <1>4 DEF TypeInv, TypeOK, ClientType, MemoryType, WaitingOf
  <2>4. "insert" \in HandlerPCs /\ "insert" \notin Dropping
    BY DEF HandlerPCs, Dropping
  <2>5. PcType' /\ HandleSound' /\ VictimSound'
    BY <1>1, <1>3, <1>4, <2>4, MoveSound DEF purge
  <2> QED BY <1>2, <2>2, <2>3, <2>5 DEF TypeInv, TypeOK
<1>5. CASE Write(r, "500") /\ Return(r) /\ UNCHANGED <<job, ahead>>
  <2>1. "500" \in Codes
    BY DEF Codes
  <2>2. ClientType'
    BY <1>1, <1>5, <2>1, WriteType DEF TypeInv, TypeOK
  <2>3. PcType' /\ HandleSound' /\ VictimSound'
    BY <1>1, <1>5, ReturnSound DEF purge
  <2>4. MemoryType'
    BY <1>1, <1>5 DEF TypeInv, TypeOK, MemoryType
  <2> QED BY <1>2, <2>2, <2>3, <2>4 DEF TypeInv, TypeOK
<1>6. \/ Write(r, "500") /\ Return(r) /\ UNCHANGED <<job, ahead>>
      \/ \E n \in Seqs :
             /\ job' = [job EXCEPT ![r] = [queue |-> q, seq |-> n, depth |-> depth[r],
                                          model |-> NoModel, status |-> "waiting"]]
             /\ ahead' = [ahead EXCEPT ![r] = WaitingOf(q)]
             /\ Goto(Handler(r), "insert") /\ UNCHANGED resp
  BY DEF ReadSeq
<1> QED BY <1>4, <1>5, <1>6

LEMMA TypeInsert ==
  ASSUME TypeInv, NEW r \in Requests, Insert(r) PROVE TypeInv'
<1>1. /\ UNCHANGED <<config, memory, alias, depth, forwards, ahead, purge, local, env>>
      /\ (Works \/ Fails) /\ pc[Handler(r)] = "insert"
  BY DEF Insert
<1>2. ConfigType' /\ MemoryType' /\ PurgeType' /\ LocalType' /\ EnvType'
  BY <1>1 DEF TypeInv, TypeOK, ConfigType, MemoryType, PurgeType, LocalType, EnvType,
     config, memory, purge, local, env, Works, Fails
<1>3. alias[r] \in DOMAIN AliasQueue /\ depth[r] \in Depths
  BY <1>1 DEF TypeInv, HandleSound, Admitted
<1>4. CASE /\ rows' = [rows EXCEPT ![<<r, depth[r]>>] =
                          NewRow(job[r].queue, job[r].seq, "waiting")]
           /\ Goto(Handler(r), "register") /\ UNCHANGED resp
  <2>1. NewRow(job[r].queue, job[r].seq, "waiting") \in Row
    BY DEF TypeInv, TypeOK, MemoryType, Job, Row, NewRow, Active
  <2>2. RowsType'
    BY <1>4, <2>1 DEF TypeInv, TypeOK, RowsType
  <2>3. ClientType'
    BY <1>1, <1>4 DEF TypeInv, TypeOK, ClientType
  <2>4. "register" \in HandlerPCs /\ "register" \notin Dropping
    BY DEF HandlerPCs, Dropping
  <2>5. PcType' /\ HandleSound' /\ VictimSound'
    BY <1>1, <1>3, <1>4, <2>4, MoveSound DEF purge
  <2> QED BY <1>2, <2>2, <2>3, <2>5 DEF TypeInv, TypeOK
<1>5. CASE Write(r, "500") /\ Return(r) /\ UNCHANGED rows
  <2>1. "500" \in Codes
    BY DEF Codes
  <2>2. ClientType'
    BY <1>1, <1>5, <2>1, WriteType DEF TypeInv, TypeOK
  <2>3. PcType' /\ HandleSound' /\ VictimSound'
    BY <1>1, <1>5, ReturnSound DEF purge
  <2>4. RowsType'
    BY <1>5 DEF TypeInv, TypeOK, RowsType
  <2> QED BY <1>2, <2>2, <2>3, <2>4 DEF TypeInv, TypeOK
<1>6. \/ Write(r, "500") /\ Return(r) /\ UNCHANGED rows
      \/ /\ rows' = [rows EXCEPT ![<<r, depth[r]>>] =
                        NewRow(job[r].queue, job[r].seq, "waiting")]
         /\ Goto(Handler(r), "register") /\ UNCHANGED resp
  BY DEF Insert
<1> QED BY <1>4, <1>5, <1>6

\* A goroutine moves on outside handle's checks and purge.
LEMMA PlainMove ==
  ASSUME TypeInv, NEW t \in Threads, NEW l, Goto(t, l), UNCHANGED <<alias, depth, victim>>,
         l \notin Admitted, l \notin Dropping, l # "unwind",
         \A r \in Requests : t = Handler(r) => l \in HandlerPCs,
         \A r \in Requests : t = Runner(r) => l \in RunnerPCs,
         t = Loop => l \in LoopPCs
  PROVE  PcType' /\ HandleSound' /\ VictimSound'
<1> USE ThreadFacts
<1>1. PcType'
  <2>1. PcType
    BY DEF TypeInv, TypeOK
  <2> QED BY <2>1, GotoHandler, GotoRunner, GotoLoop
<1>2. \A u \in Threads : pc'[u] = IF u = t THEN l ELSE pc[u]
  BY DEF Goto, TypeInv, TypeOK, PcType
<1>3. HandleSound'
  BY <1>2 DEF TypeInv, HandleSound
<1>4. VictimSound'
  BY <1>2 DEF TypeInv, VictimSound, Dropping
<1> QED BY <1>1, <1>3, <1>4

LEMMA TypeRegister ==
  ASSUME TypeInv, NEW r \in Requests, Register(r) PROVE TypeInv'
<1>1. /\ UNCHANGED <<config, rows, inflight, job, done, client, purge, cf, pick, rest, env, faults>>
      /\ waiters' = waiters \cup {r} /\ cur' = [cur EXCEPT ![Handler(r)] = job[r].queue]
      /\ Goto(Handler(r), "get")
  BY DEF Register
<1>2. ConfigType' /\ RowsType' /\ ClientType' /\ PurgeType' /\ EnvType'
  BY <1>1 DEF TypeInv, TypeOK, ConfigType, RowsType, ClientType, PurgeType, EnvType,
     config, client, purge, env
<1>3. MemoryType'
  BY <1>1 DEF TypeInv, TypeOK, MemoryType
<1>4. LocalType'
  BY <1>1 DEF TypeInv, TypeOK, LocalType, MemoryType, Job
<1>5. "get" \in HandlerPCs /\ "get" \notin Admitted /\ "get" \notin Dropping
  BY DEF HandlerPCs, Admitted, Dropping
<1>6. PcType' /\ HandleSound' /\ VictimSound'
  BY <1>1, <1>5, ThreadFacts, PlainMove DEF client, purge
<1> QED BY <1>2, <1>3, <1>4, <1>6 DEF TypeInv, TypeOK

\* The labels of dispatch, of the end of handle and of finish.
LEMMA DispatchLabels ==
  /\ \A l \in {"get", "scan", "commit", "launch"} :
       l \in HandlerPCs /\ l \in RunnerPCs /\ l \in LoopPCs
  /\ "select" \in HandlerPCs /\ "end" \in RunnerPCs /\ "stats" \in LoopPCs
  /\ \A l \in {"get", "scan", "commit", "launch", "select", "end", "forward",
               "finish", "store", "await", "tdrop", "t504", "list"} :
       l \notin Admitted /\ l \notin Dropping /\ l # "unwind"
BY DEF HandlerPCs, RunnerPCs, LoopPCs, Admitted, Dropping

\* Loop's next tick starts with a purge, whose labels only bind handlers.
LEMMA LoopRests ==
  ASSUME TypeInv, Goto(Loop, "stats"), UNCHANGED <<alias, depth, victim>>
  PROVE  PcType' /\ HandleSound' /\ VictimSound'
<1> USE ThreadFacts
<1>1. PcType'
  BY DispatchLabels, GotoLoop DEF TypeInv, TypeOK
<1>2. \A u \in Threads : pc'[u] = IF u = Loop THEN "stats" ELSE pc[u]
  BY DEF Goto, TypeInv, TypeOK, PcType
<1>3. \A r \in Requests : pc'[Handler(r)] = pc[Handler(r)]
  BY <1>2
<1>4. HandleSound'
  BY <1>3 DEF TypeInv, HandleSound
<1>5. VictimSound'
  BY <1>2 DEF TypeInv, VictimSound
<1> QED BY <1>1, <1>4, <1>5

LEMMA NextQueueSound ==
  ASSUME TypeInv, NEW qs \in SUBSET Queues, NextQueue(qs), UNCHANGED <<alias, depth, victim>>
  PROVE  /\ PcType' /\ HandleSound' /\ VictimSound'
         /\ cur' \in [Threads -> Queues] /\ rest' \subseteq Queues
<1>1. cur' \in [Threads -> Queues] /\ rest' \subseteq Queues
  BY DEF NextQueue, TypeInv, TypeOK, LocalType
<1>2. Goto(Loop, "stats") \/ Goto(Loop, "get")
  BY DEF NextQueue
<1>3. PcType' /\ HandleSound' /\ VictimSound'
  BY <1>2, LoopRests, DispatchLabels, ThreadFacts, PlainMove
<1> QED BY <1>1, <1>3

LEMMA DispatchReturnSound ==
  ASSUME TypeInv, NEW t \in Threads, DispatchReturn(t), UNCHANGED <<alias, depth, victim>>
  PROVE  /\ PcType' /\ HandleSound' /\ VictimSound'
         /\ cur' \in [Threads -> Queues] /\ rest' \subseteq Queues
<1>1. rest \in SUBSET Queues /\ cur \in [Threads -> Queues]
  BY DEF TypeInv, TypeOK, LocalType
<1>2. CASE t = Loop
  BY <1>1, <1>2, NextQueueSound DEF DispatchReturn
<1>3. ASSUME NEW r \in Requests, t = Handler(r)
      PROVE  /\ PcType' /\ HandleSound' /\ VictimSound'
             /\ cur' \in [Threads -> Queues] /\ rest' \subseteq Queues
  <2>1. Goto(t, "select") /\ UNCHANGED <<cur, rest>>
    BY <1>3, ThreadFacts DEF DispatchReturn
  <2> QED BY <1>1, <1>3, <2>1, ThreadFacts, DispatchLabels, PlainMove
<1>4. ASSUME NEW r \in Requests, t = Runner(r)
      PROVE  /\ PcType' /\ HandleSound' /\ VictimSound'
             /\ cur' \in [Threads -> Queues] /\ rest' \subseteq Queues
  <2>1. Goto(t, "end") /\ UNCHANGED <<cur, rest>>
    BY <1>4, ThreadFacts DEF DispatchReturn
  <2> QED BY <1>1, <1>4, <2>1, ThreadFacts, DispatchLabels, PlainMove
<1> QED BY <1>2, <1>3, <1>4, ThreadFacts

LEMMA ChooseSound ==
  ASSUME TypeInv, NEW t \in Threads, NEW c \in Config, Choose(t, c),
         UNCHANGED <<alias, depth, victim>>
  PROVE  /\ PcType' /\ HandleSound' /\ VictimSound'
         /\ cur' \in [Threads -> Queues] /\ rest' \subseteq Queues
         /\ pick' \in [Threads -> [r : Requests \cup {NoRequest}, cap : Nat,
                                   model : Models \cup {NoModel}]]
<1>1. /\ rest \in SUBSET Queues /\ cur \in [Threads -> Queues]
      /\ pick \in [Threads -> [r : Requests \cup {NoRequest}, cap : Nat,
                               model : Models \cup {NoModel}]]
  BY DEF TypeInv, TypeOK, LocalType
<1>2. CASE DispatchReturn(t) /\ UNCHANGED pick
  BY <1>1, <1>2, DispatchReturnSound
<1>3. ASSUME NEW r \in waiters, NEW i \in DOMAIN c.steps,
             pick' = [pick EXCEPT ![t] = [r |-> r, model |-> c.steps[i].model,
                                          cap |-> c.steps[i].cap]],
             Goto(t, "commit"), UNCHANGED <<cur, rest>>
      PROVE  /\ PcType' /\ HandleSound' /\ VictimSound'
             /\ cur' \in [Threads -> Queues] /\ rest' \subseteq Queues
             /\ pick' \in [Threads -> [r : Requests \cup {NoRequest}, cap : Nat,
                                       model : Models \cup {NoModel}]]
  <2>1. c.steps[i] \in Step /\ r \in Requests
    BY <1>3 DEF Config, TypeInv, TypeOK, MemoryType
  <2>2. pick' \in [Threads -> [r : Requests \cup {NoRequest}, cap : Nat,
                               model : Models \cup {NoModel}]]
    BY <1>1, <1>3, <2>1 DEF Step
  <2> QED BY <1>1, <1>3, <2>2, ThreadFacts, DispatchLabels, PlainMove
<1>4. \/ DispatchReturn(t) /\ UNCHANGED pick
      \/ \E r \in waiters, i \in DOMAIN c.steps :
             /\ pick' = [pick EXCEPT ![t] = [r |-> r, model |-> c.steps[i].model,
                                             cap |-> c.steps[i].cap]]
             /\ Goto(t, "commit") /\ UNCHANGED <<cur, rest>>
  BY DEF Choose
<1> QED BY <1>2, <1>3, <1>4

LEMMA TypeGetQueue ==
  ASSUME TypeInv, NEW t \in Threads, GetQueue(t) PROVE TypeInv'
<1>1. UNCHANGED <<config, rows, memory, client, purge, env>> /\ (Works \/ Fails)
  BY DEF GetQueue
<1>2. ConfigType' /\ RowsType' /\ MemoryType' /\ ClientType' /\ PurgeType' /\ EnvType'
  BY <1>1 DEF TypeInv, TypeOK, ConfigType, RowsType, MemoryType, ClientType, PurgeType,
     EnvType, config, memory, client, purge, env, Works, Fails
<1>3. conf[cur[t]] \in Config /\ cf \in [Threads -> Config]
  BY DEF TypeInv, TypeOK, ConfigType, LocalType
<1>4. \/ cf' = [cf EXCEPT ![t] = conf[cur[t]]] /\ Choose(t, conf[cur[t]])
      \/ DispatchReturn(t) /\ UNCHANGED <<cf, pick>>
  BY DEF GetQueue
<1>5. cf' \in [Threads -> Config]
  BY <1>3, <1>4
<1>6. UNCHANGED <<alias, depth, victim>>
  BY <1>1 DEF client, purge
<1>7. PcType' /\ HandleSound' /\ VictimSound' /\ LocalType'
  BY <1>3, <1>4, <1>5, <1>6, ChooseSound, DispatchReturnSound DEF LocalType, TypeInv, TypeOK
<1> QED BY <1>2, <1>7 DEF TypeInv, TypeOK

LEMMA TypeScan ==
  ASSUME TypeInv, NEW t \in Threads, Scan(t) PROVE TypeInv'
<1>1. UNCHANGED <<config, rows, memory, client, purge, cf, env, faults>> /\ Choose(t, cf[t])
  BY DEF Scan
<1>2. ConfigType' /\ RowsType' /\ MemoryType' /\ ClientType' /\ PurgeType' /\ EnvType'
  BY <1>1 DEF TypeInv, TypeOK, ConfigType, RowsType, MemoryType, ClientType, PurgeType,
     EnvType, config, memory, client, purge, env
<1>3. cf[t] \in Config /\ cf' \in [Threads -> Config]
  BY <1>1 DEF TypeInv, TypeOK, LocalType
<1>4. UNCHANGED <<alias, depth, victim>>
  BY <1>1 DEF client, purge
<1>5. PcType' /\ HandleSound' /\ VictimSound' /\ LocalType'
  BY <1>1, <1>3, <1>4, ChooseSound DEF LocalType
<1> QED BY <1>2, <1>5 DEF TypeInv, TypeOK

LEMMA TypeCommit ==
  ASSUME TypeInv, NEW t \in Threads, Commit(t) PROVE TypeInv'
<1> DEFINE p == pick[t]
<1>1. UNCHANGED <<config, rows, waiters, done, client, purge, cur, cf, rest, env, faults>>
  BY DEF Commit
<1>2. ConfigType' /\ RowsType' /\ ClientType' /\ PurgeType' /\ EnvType'
  BY <1>1 DEF TypeInv, TypeOK, ConfigType, RowsType, ClientType, PurgeType,
     EnvType, config, client, purge, env
<1>3. \/ /\ inflight' = [inflight EXCEPT ![p.model] = @ + 1]
         /\ job' = [job EXCEPT ![p.r].status = "running", ![p.r].model = p.model]
         /\ Goto(t, "launch") /\ UNCHANGED pick
      \/ /\ pick' = [pick EXCEPT ![t] = NoPick] /\ Goto(t, "scan")
         /\ UNCHANGED <<inflight, job>>
  BY DEF Commit
<1>4. p.model \in Models \cup {NoModel} /\ "running" \in Active
  BY DEF TypeInv, TypeOK, LocalType, Active
<1>5. inflight' \in [Models -> Nat]
  BY <1>3 DEF TypeInv, TypeOK, MemoryType
<1>6. job' \in [Requests -> Job]
  BY <1>3, <1>4 DEF TypeInv, TypeOK, MemoryType, Job
<1>7. MemoryType'
  BY <1>1, <1>5, <1>6 DEF TypeInv, TypeOK, MemoryType
<1>8. LocalType'
  BY <1>1, <1>3, NoValues DEF TypeInv, TypeOK, LocalType
<1>9. PcType' /\ HandleSound' /\ VictimSound'
  BY <1>1, <1>3, ThreadFacts, DispatchLabels, PlainMove DEF client, purge
<1> QED BY <1>2, <1>7, <1>8, <1>9 DEF TypeInv, TypeOK

LEMMA TypeLaunch ==
  ASSUME TypeInv, NEW t \in Threads, Launch(t) PROVE TypeInv'
<1> DEFINE r == pick[t].r
<1>1. /\ UNCHANGED <<config, memory, client, purge, cur, cf, rest, env>>
      /\ pc' = [pc EXCEPT ![t] = "scan", ![Runner(r)] = "forward"]
      /\ pick' = [pick EXCEPT ![t] = NoPick]
      /\ \/ UNCHANGED rows
         \/ rows' = [rows EXCEPT ![<<r, job[r].depth>>].status = "running",
                                 ![<<r, job[r].depth>>].fin = FALSE]
      /\ Works \/ Fails
  BY DEF Launch, UpdateQueueJob
<1>2. ConfigType' /\ MemoryType' /\ ClientType' /\ PurgeType' /\ EnvType'
  BY <1>1 DEF TypeInv, TypeOK, ConfigType, MemoryType, ClientType, PurgeType,
     EnvType, config, memory, client, purge, env, Works, Fails
<1>3. RowsType'
  BY <1>1 DEF TypeInv, TypeOK, RowsType, Row, Active
<1>4. LocalType'
  BY <1>1, NoValues DEF TypeInv, TypeOK, LocalType
<1>5. /\ "forward" \in RunnerPCs /\ "forward" \notin Dropping
      /\ "scan" \in HandlerPCs \cap RunnerPCs \cap LoopPCs
      /\ "scan" \notin Admitted \cup Dropping \cup {"unwind"}
  BY DEF HandlerPCs, RunnerPCs, LoopPCs, Admitted, Dropping
<1>6. \A s \in Requests : Handler(s) # Runner(r)
  BY DEF Handler, Runner
<1>7. Loop # Runner(r)
  BY DEF Loop, Runner
<1>8. \A u \in Threads : pc'[u] = IF u = Runner(r) THEN "forward"
                                  ELSE IF u = t THEN "scan" ELSE pc[u]
  BY <1>1 DEF TypeInv, TypeOK, PcType
<1>9. PcType'
  <2>1. pc' \in [Threads -> HandlerPCs \cup RunnerPCs \cup LoopPCs]
    BY <1>1, <1>5 DEF TypeInv, TypeOK, PcType
  <2>2. \A s \in Requests : pc'[Handler(s)] \in HandlerPCs
    BY <1>5, <1>6, <1>8, ThreadFacts DEF TypeInv, TypeOK, PcType
  <2>3. \A s \in Requests : pc'[Runner(s)] \in RunnerPCs
    BY <1>5, <1>8, ThreadFacts DEF TypeInv, TypeOK, PcType
  <2>4. pc'[Loop] \in LoopPCs
    BY <1>5, <1>7, <1>8, ThreadFacts DEF TypeInv, TypeOK, PcType
  <2> QED BY <2>1, <2>2, <2>3, <2>4 DEF PcType
<1>10. HandleSound'
  <2>1. \A s \in Requests : pc'[Handler(s)] \in {"scan", pc[Handler(s)]}
    BY <1>6, <1>8, ThreadFacts
  <2>2. UNCHANGED <<alias, depth>>
    BY <1>1 DEF client
  <2> QED BY <1>5, <2>1, <2>2 DEF TypeInv, HandleSound
<1>11. VictimSound'
  BY <1>1, <1>5, <1>8 DEF TypeInv, VictimSound, Dropping, purge
<1> QED BY <1>2, <1>3, <1>4, <1>9, <1>10, <1>11 DEF TypeInv, TypeOK

LEMMA TypeWakeUp ==
  ASSUME TypeInv, NEW r \in Requests, WakeUp(r) PROVE TypeInv'
<1>1. UNCHANGED <<config, rows, memory, client, purge, local, env, faults>> /\ Return(r)
  BY DEF WakeUp
<1>2. PcType' /\ HandleSound' /\ VictimSound'
  BY <1>1, ReturnSound DEF client, purge
<1> QED BY <1>1, <1>2 DEF TypeInv, TypeOK, ConfigType, RowsType, MemoryType, ClientType,
     PurgeType, LocalType, EnvType, config, memory, client, purge, local, env

LEMMA TypeTimeout ==
  ASSUME TypeInv, NEW r \in Requests, Timeout(r) PROVE TypeInv'
<1>1. /\ UNCHANGED <<config, rows, memory, client, purge, local, env, faults>>
      /\ Goto(Handler(r), "tdrop") \/ Goto(Handler(r), "await")
  BY DEF Timeout
<1>2. "tdrop" \in HandlerPCs /\ "await" \in HandlerPCs
  BY DEF HandlerPCs
<1>3. PcType' /\ HandleSound' /\ VictimSound'
  BY <1>1, <1>2, DispatchLabels, ThreadFacts, PlainMove DEF client, purge
<1> QED BY <1>1, <1>3 DEF TypeInv, TypeOK, ConfigType, RowsType, MemoryType, ClientType,
     PurgeType, LocalType, EnvType, config, memory, client, purge, local, env

LEMMA TypeTimeoutDrop ==
  ASSUME TypeInv, NEW r \in Requests, TimeoutDrop(r) PROVE TypeInv'
<1>1. /\ UNCHANGED <<config, rows, inflight, job, done, client, doomed, left, local, env, faults>>
      /\ \/ /\ waiters' = waiters \ {r} /\ victim' = [victim EXCEPT ![Handler(r)] = r]
            /\ Goto(Handler(r), "tmark")
         \/ Goto(Handler(r), "t504") /\ UNCHANGED <<waiters, victim>>
  BY DEF TimeoutDrop
<1>2. ConfigType' /\ RowsType' /\ ClientType' /\ LocalType' /\ EnvType'
  BY <1>1 DEF TypeInv, TypeOK, ConfigType, RowsType, ClientType, LocalType, EnvType,
     config, client, local, env
<1>3. MemoryType'
  BY <1>1 DEF TypeInv, TypeOK, MemoryType
<1>4. PurgeType' /\ \A u \in Threads \ {Handler(r)} : victim'[u] = victim[u]
  BY <1>1 DEF TypeInv, TypeOK, PurgeType
<1>5. /\ "tmark" \in HandlerPCs /\ "t504" \in HandlerPCs
      /\ "tmark" \notin Admitted /\ "t504" \notin Admitted /\ "t504" \notin Dropping
  BY DEF HandlerPCs, Admitted, Dropping
<1>6. \/ victim'[Handler(r)] \in Requests /\ Goto(Handler(r), "tmark")
      \/ Goto(Handler(r), "t504")
  BY <1>1, ThreadFacts DEF TypeInv, TypeOK, PurgeType
<1>7. UNCHANGED <<alias, depth>>
  BY <1>1 DEF client
<1>8. PcType' /\ HandleSound' /\ VictimSound'
  <2>1. CASE victim'[Handler(r)] \in Requests /\ Goto(Handler(r), "tmark")
    BY <1>4, <1>5, <1>7, <2>1, MoveSound
  <2>2. CASE Goto(Handler(r), "t504")
    BY <1>4, <1>5, <1>7, <2>2, MoveSound
  <2> QED BY <1>6, <2>1, <2>2
<1> QED BY <1>2, <1>3, <1>4, <1>8 DEF TypeInv, TypeOK

LEMMA TypeTimeoutMark ==
  ASSUME TypeInv, NEW r \in Requests, TimeoutMark(r) PROVE TypeInv'
<1> DEFINE t == Handler(r)
<1>1. /\ UNCHANGED <<config, rows, inflight, waiters, done, client, purge, local, env, faults>>
      /\ pc[t] = "tmark" /\ Goto(t, "tsave")
      /\ job' = [job EXCEPT ![victim[t]].status = "dropped"]
  BY DEF TimeoutMark, Mark
<1>2. ConfigType' /\ RowsType' /\ ClientType' /\ PurgeType' /\ LocalType' /\ EnvType'
  BY <1>1 DEF TypeInv, TypeOK, ConfigType, RowsType, ClientType, PurgeType,
     LocalType, EnvType, config, client, purge, local, env
<1>3. victim[t] \in Requests /\ UNCHANGED <<alias, depth, victim>>
  BY <1>1, ThreadFacts DEF TypeInv, VictimSound, client, purge
<1>4. "dropped" \in Active \cup Terminal \cup {"none"}
  BY DEF Terminal
<1>5. MemoryType'
  BY <1>1, <1>3, <1>4, StatusType DEF TypeInv, TypeOK
<1>6. "tsave" \in HandlerPCs /\ "tsave" \notin Admitted
  BY DEF HandlerPCs, Admitted
<1>7. PcType' /\ HandleSound' /\ VictimSound'
  BY <1>1, <1>3, <1>6, MoveSound
<1> QED BY <1>2, <1>5, <1>7 DEF TypeInv, TypeOK

LEMMA TypeTimeoutSave ==
  ASSUME TypeInv, NEW r \in Requests, TimeoutSave(r) PROVE TypeInv'
<1> DEFINE t == Handler(r)
<1>1. /\ UNCHANGED <<config, inflight, waiters, job, client, doomed, left, local, env>>
      /\ DropSave(r) /\ victim' = [victim EXCEPT ![t] = NoRequest] /\ Goto(t, "t504")
  BY DEF TimeoutSave
<1>2. ConfigType' /\ ClientType' /\ LocalType' /\ PurgeType'
  BY <1>1 DEF TypeInv, TypeOK, ConfigType, ClientType, LocalType, PurgeType, config,
     client, local
<1>3. RowsType' /\ EnvType' /\ MemoryType'
  BY <1>1, DropSaveType
<1>4. "t504" \in HandlerPCs /\ "t504" \notin Admitted /\ "t504" \notin Dropping
  BY DEF HandlerPCs, Admitted, Dropping
<1>5. UNCHANGED <<alias, depth>> /\ \A u \in Threads \ {t} : victim'[u] = victim[u]
  BY <1>1 DEF TypeInv, TypeOK, PurgeType, client
<1>6. PcType' /\ HandleSound' /\ VictimSound'
  BY <1>1, <1>4, <1>5, MoveSound
<1> QED BY <1>2, <1>3, <1>6 DEF TypeInv, TypeOK

LEMMA TypeTimeoutReply ==
  ASSUME TypeInv, NEW r \in Requests, TimeoutReply(r) PROVE TypeInv'
<1>1. /\ UNCHANGED <<config, rows, memory, alias, depth, forwards, ahead, purge, local, env, faults>>
      /\ Write(r, "504") /\ Return(r)
  BY DEF TimeoutReply
<1>2. "504" \in Codes
  BY DEF Codes
<1>3. ClientType'
  BY <1>1, <1>2, WriteType DEF TypeInv, TypeOK
<1>4. PcType' /\ HandleSound' /\ VictimSound'
  BY <1>1, ReturnSound DEF purge
<1>5. ConfigType' /\ RowsType' /\ MemoryType' /\ PurgeType' /\ LocalType' /\ EnvType'
  BY <1>1 DEF TypeInv, TypeOK, ConfigType, RowsType, MemoryType, PurgeType,
     LocalType, EnvType, config, memory, purge, local, env
<1> QED BY <1>3, <1>4, <1>5 DEF TypeInv, TypeOK

LEMMA TypeRun ==
  ASSUME TypeInv, NEW r \in Requests, Run(r) PROVE TypeInv'
<1>1. /\ UNCHANGED <<config, rows, inflight, waiters, done, alias, depth, ahead, purge,
                     local, env, faults>>
      /\ forwards' = [forwards EXCEPT ![r] = @ + 1] /\ Write(r, "reply")
      /\ job' = [job EXCEPT ![r].status = "ended"] /\ Goto(Runner(r), "finish")
  BY DEF Run
<1>2. ConfigType' /\ RowsType' /\ PurgeType' /\ LocalType' /\ EnvType'
  BY <1>1 DEF TypeInv, TypeOK, ConfigType, RowsType, PurgeType,
     LocalType, EnvType, config, purge, local, env
<1>3. ClientType'
  <2>1. "reply" \in Codes
    BY DEF Codes
  <2>2. Append(resp[r], "reply") \in Seq(Codes)
    BY <2>1 DEF TypeInv, TypeOK, ClientType
  <2> QED BY <1>1, <2>2 DEF TypeInv, TypeOK, ClientType, Write
<1>4. "ended" \in Active \cup Terminal \cup {"none"}
  BY DEF Terminal
<1>5. MemoryType'
  BY <1>1, <1>4, StatusType DEF TypeInv, TypeOK
<1>6. "finish" \in RunnerPCs
  BY DEF RunnerPCs
<1>7. PcType' /\ HandleSound' /\ VictimSound'
  BY <1>1, <1>6, DispatchLabels, ThreadFacts, PlainMove DEF purge
<1> QED BY <1>2, <1>3, <1>5, <1>7 DEF TypeInv, TypeOK

LEMMA TypeFinish ==
  ASSUME TypeInv, NEW r \in Requests, Finish(r) PROVE TypeInv'
<1>1. /\ UNCHANGED <<config, rows, job, done, client, purge, local, env, faults>>
      /\ inflight' = Release(job[r].model) /\ waiters' = waiters \ {r}
      /\ Goto(Runner(r), "store")
  BY DEF Finish
<1>2. ConfigType' /\ RowsType' /\ ClientType' /\ PurgeType' /\ LocalType' /\ EnvType'
  BY <1>1 DEF TypeInv, TypeOK, ConfigType, RowsType, ClientType, PurgeType,
     LocalType, EnvType, config, client, purge, local, env
<1>3. inflight' \in [Models -> Nat]
  <2>1. inflight \in [Models -> Nat]
    BY DEF TypeInv, TypeOK, MemoryType
  <2>2. \/ inflight' = inflight
        \/ /\ inflight' = [inflight EXCEPT ![job[r].model] = @ - 1]
           /\ inflight[job[r].model] > 0
    BY <1>1 DEF Release
  <2> QED BY <2>1, <2>2
<1>4. MemoryType'
  BY <1>1, <1>3 DEF TypeInv, TypeOK, MemoryType
<1>5. "store" \in RunnerPCs
  BY DEF RunnerPCs
<1>6. PcType' /\ HandleSound' /\ VictimSound'
  BY <1>1, <1>5, DispatchLabels, ThreadFacts, PlainMove DEF client, purge
<1> QED BY <1>2, <1>4, <1>6 DEF TypeInv, TypeOK

LEMMA TypeFinishSave ==
  ASSUME TypeInv, NEW r \in Requests, FinishSave(r) PROVE TypeInv'
<1>1. /\ UNCHANGED <<config, inflight, waiters, job, client, purge, cf, pick, rest, env>>
      /\ UpdateQueueJob(<<r, job[r].depth>>, job[r].status, TRUE) /\ Complete(r)
      /\ cur' = [cur EXCEPT ![Runner(r)] = job[r].queue] /\ Goto(Runner(r), "get")
  BY DEF FinishSave
<1>2. ConfigType' /\ ClientType' /\ PurgeType'
  BY <1>1 DEF TypeInv, TypeOK, ConfigType, ClientType, PurgeType, config, client, purge
<1>3. RowsType' /\ EnvType' /\ MemoryType'
  BY <1>1, DropSaveType DEF DropSave
<1>4. LocalType'
  BY <1>1 DEF TypeInv, TypeOK, LocalType, MemoryType, Job
<1>5. PcType' /\ HandleSound' /\ VictimSound'
  BY <1>1, DispatchLabels, ThreadFacts, PlainMove DEF client, purge
<1> QED BY <1>2, <1>3, <1>4, <1>5 DEF TypeInv, TypeOK

LEMMA TypeListQueues ==
  ASSUME TypeInv, ListQueues PROVE TypeInv'
<1> DEFINE qs == {q \in Queues : conf[q].exists}
<1>1. /\ UNCHANGED <<config, rows, memory, client, purge, cf, pick, env>> /\ (Works \/ Fails)
      /\ \/ NextQueue(qs)
         \/ Goto(Loop, "stats") /\ UNCHANGED <<cur, rest>>
  BY DEF ListQueues
<1>2. ConfigType' /\ RowsType' /\ MemoryType' /\ ClientType' /\ PurgeType' /\ EnvType'
  BY <1>1 DEF TypeInv, TypeOK, ConfigType, RowsType, MemoryType, ClientType, PurgeType,
     EnvType, config, memory, client, purge, env, Works, Fails
<1>3. qs \in SUBSET Queues /\ UNCHANGED <<alias, depth, victim>>
  BY <1>1 DEF client, purge
<1> HIDE DEF qs
<1>4. /\ PcType' /\ HandleSound' /\ VictimSound'
      /\ cur' \in [Threads -> Queues] /\ rest' \subseteq Queues
  <2>1. CASE NextQueue(qs)
    BY <1>3, <2>1, NextQueueSound
  <2>2. CASE Goto(Loop, "stats") /\ UNCHANGED <<cur, rest>>
    BY <1>3, <2>2, LoopRests DEF TypeInv, TypeOK, LocalType
  <2> QED BY <1>1, <2>1, <2>2
<1> QED BY <1>1, <1>2, <1>4 DEF TypeInv, TypeOK, LocalType

LEMMA TypeAdmin ==
  ASSUME TypeInv, AdminStep PROVE TypeInv'
<1>1. UNCHANGED <<rows, memory, client, purge, local, env, pc>> /\ (Works \/ Fails)
  BY DEF AdminStep, SaveStep, SaveQueue, DeleteQueue, Works
<1>2. /\ RowsType' /\ MemoryType' /\ ClientType' /\ PcType' /\ PurgeType' /\ LocalType'
      /\ EnvType' /\ HandleSound' /\ VictimSound'
  BY <1>1 DEF TypeInv, TypeOK, RowsType, MemoryType, ClientType, PcType, PurgeType,
     LocalType, EnvType, HandleSound, VictimSound, memory, client, purge, local, env,
     Works, Fails
<1>3. ConfigType'
  <2>1. CASE SaveStep
    <3> DEFINE q0 == saving.queue
    <3>1. /\ conf \in [Queues -> Config] /\ edits \in Nat
          /\ saving \in [on : BOOLEAN, wiped : BOOLEAN, queue : Queues, todo : Seq(Step)]
      BY DEF TypeInv, TypeOK, ConfigType
    <3>2. q0 \in Queues /\ conf[q0].steps \in Seq(Step) /\ << >> \in Seq(Step)
      BY <3>1 DEF Config
    <3>3. UNCHANGED edits
      BY <2>1 DEF SaveStep
    <3>4. CASE /\ saving.todo # << >> /\ saving' = [saving EXCEPT !.todo = Tail(@)]
               /\ conf' = [conf EXCEPT ![q0].steps = Append(@, Head(saving.todo))]
      <4>1. Head(saving.todo) \in Step /\ Tail(saving.todo) \in Seq(Step)
        BY <3>1, <3>4
      <4>2. Append(conf[q0].steps, Head(saving.todo)) \in Seq(Step)
        BY <3>2, <4>1
      <4>3. conf' \in [Queues -> Config]
        BY <3>1, <3>4, <4>2 DEF Config
      <4> QED BY <3>1, <3>3, <3>4, <4>1, <4>3 DEF ConfigType
    <3>5. CASE /\ conf' = [conf EXCEPT ![q0].steps = << >>]
               /\ saving' = [saving EXCEPT !.wiped = TRUE]
      <4>1. conf' \in [Queues -> Config]
        BY <3>1, <3>2, <3>5 DEF Config
      <4> QED BY <3>1, <3>3, <3>5, <4>1 DEF ConfigType
    <3>6. CASE UNCHANGED conf /\ saving' = [saving EXCEPT !.on = FALSE]
      BY <3>1, <3>3, <3>6 DEF ConfigType
    <3> QED BY <2>1, <3>4, <3>5, <3>6 DEF SaveStep
  <2>2. ASSUME NEW q \in Queues, SaveQueue(q) PROVE ConfigType'
    <3>1. PICK c \in Saves[q] :
            /\ conf' = [conf EXCEPT ![q] = [c EXCEPT !.steps = conf[q].steps]]
            /\ saving' = [on |-> TRUE, wiped |-> FALSE, queue |-> q, todo |-> c.steps]
            /\ edits' = edits + 1
      BY <2>2 DEF SaveQueue
    <3>2. c \in Config
      BY ConfAssumption
    <3>3. [c EXCEPT !.steps = conf[q].steps] \in Config /\ c.steps \in Seq(Step)
      <4>1. conf[q].steps \in Seq(Step)
        BY DEF TypeInv, TypeOK, ConfigType, Config
      <4> QED BY <3>2, <4>1 DEF Config
    <3> QED BY <3>1, <3>3 DEF TypeInv, TypeOK, ConfigType
  <2>3. ASSUME NEW q \in Queues, DeleteQueue(q) PROVE ConfigType'
    BY <2>3, NoValues DEF DeleteQueue, TypeInv, TypeOK, ConfigType
  <2> QED BY <2>1, <2>2, <2>3 DEF AdminStep
<1> QED BY <1>2, <1>3 DEF TypeInv, TypeOK

LEMMA TypeHealth ==
  ASSUME TypeInv, NEW m \in Models, Health(m) PROVE TypeInv'
<1>1. UNCHANGED <<config, rows, memory, client, purge, local, crashes, pc, faults>>
  BY DEF Health
<1>2. EnvType'
  BY <1>1 DEF Health, TypeInv, TypeOK, EnvType
<1> QED BY <1>1, <1>2 DEF TypeInv, TypeOK, ConfigType, RowsType, MemoryType, ClientType,
     PcType, PurgeType, LocalType, HandleSound, VictimSound, config, memory, client,
     purge, local

LEMMA TypeRestart ==
  ASSUME TypeInv, Restart PROVE TypeInv'
<1>1. ConfigType'
  <2>1. saving' = [saving EXCEPT !.on = FALSE, !.todo = << >>] /\ UNCHANGED <<conf, edits>>
    BY DEF Restart
  <2>2. << >> \in Seq(Step)
    OBVIOUS
  <2>3. /\ saving \in [on : BOOLEAN, wiped : BOOLEAN, queue : Queues, todo : Seq(Step)]
        /\ conf \in [Queues -> Config] /\ edits \in Nat
    BY DEF TypeInv, TypeOK, ConfigType
  <2>4. saving' \in [on : BOOLEAN, wiped : BOOLEAN, queue : Queues, todo : Seq(Step)]
    BY <2>1, <2>2, <2>3
  <2> QED BY <2>1, <2>3, <2>4 DEF ConfigType
<1>2. RowsType'
  <2>1. ResetStaleQueueJobs \/ UNCHANGED rows
    BY DEF Restart
  <2>2. rows \in [JobIds -> Row]
    BY DEF TypeInv, TypeOK, RowsType
  <2>3. \A id \in JobIds : [rows[id] EXCEPT !.status = "dropped", !.fin = TRUE] \in Row
    BY <2>2 DEF Row, Terminal
  <2> QED BY <2>1, <2>2, <2>3 DEF ResetStaleQueueJobs, RowsType
<1>3. MemoryType'
  <2>1. /\ inflight' = [m \in Models |-> 0] /\ waiters' = {} /\ done' = {}
        /\ job' = [r \in Requests |-> [job[r] EXCEPT !.status = "none", !.model = NoModel]]
    BY DEF Restart
  <2> QED BY <2>1 DEF TypeInv, TypeOK, MemoryType, Job
<1>4. ClientType' /\ EnvType' /\ UNCHANGED <<alias, depth>>
  <2>1. UNCHANGED <<client, up>> /\ crashes' = crashes + 1 /\ faults' \in {0, 1}
    BY DEF Restart
  <2> QED BY <2>1 DEF TypeInv, TypeOK, ClientType, EnvType, client
<1> USE ThreadFacts, NoValues
<1>5. PurgeType'
  BY DEF Restart, PurgeType
<1>6. LocalType'
  BY DEF Restart, TypeInv, TypeOK, LocalType
<1>7. /\ \A r \in Requests : /\ pc'[Handler(r)] \in {"arrive", "returned", "lost"}
                             /\ pc'[Runner(r)] = "off"
      /\ pc'[Loop] = "stats"
  BY DEF Restart
<1>8. \A t \in Threads : pc'[t] \in {"arrive", "returned", "lost", "off", "stats"}
  BY <1>7
<1>9. PcType'
  BY <1>7, <1>8 DEF Restart, PcType, HandlerPCs, RunnerPCs, LoopPCs
<1>10. HandleSound' /\ VictimSound'
  BY <1>7, <1>8 DEF HandleSound, VictimSound, Admitted
<1> QED BY <1>1, <1>2, <1>3, <1>4, <1>5, <1>6, <1>9, <1>10 DEF TypeInv, TypeOK

\* One step per action of Next.
LEMMA TypeStep == TypeInv /\ [Next]_vars => TypeInv'
<1> SUFFICES ASSUME TypeInv, [Next]_vars PROVE TypeInv'
  OBVIOUS
<1> USE ThreadFacts
<1>1. ASSUME NEW t \in Purgers, PurgeStep(t) PROVE TypeInv'
  BY <1>1, TypeWaitingStats, TypeOldestWaiting, TypePurgeTake, TypePurgeMark, TypePurgeSave
     DEF PurgeStep
<1>2. ASSUME NEW t \in Threads, DispatchStep(t) PROVE TypeInv'
  BY <1>2, TypeGetQueue, TypeScan, TypeCommit, TypeLaunch DEF DispatchStep
<1>3. ASSUME NEW r \in Requests, HandlerStep(r) PROVE TypeInv'
  <2>1. Handler(r) \in Purgers
    BY DEF Purgers
  <2> QED BY <1>1, <1>2, <1>3, <2>1, TypeEnter, TypeCounts, TypeOverflow, TypeDirect, TypeUnwind,
     TypeReadSeq, TypeInsert, TypeRegister, TypeWakeUp, TypeTimeoutDrop,
     TypeTimeoutMark, TypeTimeoutSave, TypeTimeoutReply DEF HandlerStep
<1>4. ASSUME NEW r \in Requests, RunnerStep(r) PROVE TypeInv'
  BY <1>2, <1>4, TypeRun, TypeFinish, TypeFinishSave DEF RunnerStep
<1>5. CASE LoopStep
  <2>1. Loop \in Purgers
    BY DEF Purgers
  <2> QED BY <1>1, <1>2, <1>5, <2>1, TypeListQueues DEF LoopStep
<1>6. CASE UNCHANGED vars
  <2>1. UNCHANGED <<config, rows, memory, client, purge, local, env, pc, faults>>
    BY <1>6 DEF vars
  <2> QED BY <2>1 DEF TypeInv, TypeOK, ConfigType, RowsType, MemoryType, ClientType,
     PcType, PurgeType, LocalType, EnvType, HandleSound, VictimSound, config, memory,
     client, purge, local, env
<1> QED BY <1>3, <1>4, <1>5, <1>6, TypeTimeout, TypeAdmin, TypeHealth, TypeRestart DEF Next

\* Every variable keeps its type, and in particular handle's depth stays within
\* the rows it inserts: the overflow recursion ends (engine.go, handle).
THEOREM TypeCorrect == Spec => []TypeOK
<1>1. TypeInv => TypeOK
  BY DEF TypeInv
<1> QED BY <1>1, InitType, TypeStep, PTL DEF Spec

HIDE DEF MaxDepth, Depths
-----------------------------------------------------------------------------
(***************************************************************************)
(* The inductive invariant.  A handler that has not registered its waiter  *)
(* is invisible to dispatch; a request dispatch has committed is launched  *)
(* by one goroutine only and never waits again.                            *)
(***************************************************************************)
Early == {"arrive", "enter", "stats", "oldest", "take", "mark", "save",
          "counts", "overflow", "direct", "seq", "insert", "register"}

PickedBy(t, r) == pc[t] \in {"commit", "launch"} /\ pick[t].r = r

\* A step some configuration of queue q has.
StepOf(q, s) == \E c \in Saves[q] : \E i \in DOMAIN c.steps : c.steps[i] = s

ConfSteps ==
  /\ \A q \in Queues : \A i \in DOMAIN conf[q].steps : StepOf(q, conf[q].steps[i])
  /\ \A i \in DOMAIN saving.todo : StepOf(saving.queue, saving.todo[i])
  /\ \A t \in Threads : pc[t] \in {"scan", "commit", "launch"} =>
       \A i \in DOMAIN cf[t].steps : StepOf(cur[t], cf[t].steps[i])

PickSound ==
  \A t \in Threads : pc[t] \in {"commit", "launch"} =>
    /\ pick[t].r \in Requests
    /\ pick[t].model \in Models
    /\ pick[t].cap \in Nat
    /\ StepOf(cur[t], [model |-> pick[t].model, cap |-> pick[t].cap])
    /\ job[pick[t].r].queue = cur[t]

EarlyHidden ==
  \A r \in Requests : pc[Handler(r)] \in Early =>
    /\ r \notin waiters
    /\ \A t \in Threads : ~PickedBy(t, r)
    /\ pc[Runner(r)] = "off"
    /\ pc[Handler(r)] \notin {"insert", "register"} => job[r].status # "waiting"

LaunchSound ==
  \A t \in Threads : pc[t] = "launch" =>
    /\ job[pick[t].r].status # "waiting"
    /\ job[pick[t].r].model = pick[t].model
    /\ pc[Runner(pick[t].r)] = "off"
    /\ \A u \in Threads : pc[u] = "launch" /\ pick[u].r = pick[t].r => u = t

RunnerSound ==
  \A r \in Requests : pc[Runner(r)] # "off" =>
    /\ job[r].status # "waiting"
    /\ job[r].model \in Models

CanForward(r) ==
  \/ pc[Handler(r)] \in Early
  \/ \E t \in Threads : pc[t] = "launch" /\ pick[t].r = r
  \/ pc[Runner(r)] = "forward"
  \/ job[r].status = "waiting"
ForwardCount ==
  \A r \in Requests : /\ forwards[r] \in {0, 1}
                      /\ CanForward(r) => forwards[r] = 0

Core == /\ ConfSteps /\ PickSound /\ EarlyHidden /\ LaunchSound /\ RunnerSound
        /\ ForwardCount

IInv == TypeInv /\ Core /\ InflightExact /\ CapRespected
-----------------------------------------------------------------------------
(***************************************************************************)
(* Most steps are quiet: one goroutine moves without taking, handing over  *)
(* or giving back a slot, and no job starts to wait behind a dispatcher.   *)
(***************************************************************************)
Chosen == {"scan", "commit", "launch"}
Busy   == {"off", "forward", "finish"}

KeepsJob(s) == /\ job'[s].queue = job[s].queue /\ job'[s].model = job[s].model
               /\ job'[s].status = "waiting" => job[s].status = "waiting"

Quiet(t, l) ==
  /\ Goto(t, l) /\ pc[t] # "launch" /\ l \notin Chosen
  /\ \A r \in Requests : t = Runner(r) => pc[t] \notin Busy /\ l \notin Busy
  /\ \A r \in Requests : t = Handler(r) /\ l \in Early =>
       /\ pc[t] \in Early
       /\ l \in {"insert", "register"} \/ pc[t] \notin {"insert", "register"}
  /\ \A s \in Requests : \/ KeepsJob(s)
                         \/ t = Handler(s) /\ pc[t] \in Early /\ l = "insert"
  /\ \A s \in waiters' \ waiters : t = Handler(s) /\ l \notin Early
  /\ \A u \in Threads \ {t} : cur'[u] = cur[u] /\ cf'[u] = cf[u]
  /\ UNCHANGED <<conf, saving, pick, forwards, inflight>>

LEMMA QuietCore ==
  ASSUME TypeInv, TypeInv', Core, NEW t \in Threads, NEW l, Quiet(t, l)
  PROVE  Core'
<1>1. \A u \in Threads : pc'[u] = IF u = t THEN l ELSE pc[u]
  BY DEF Quiet, Goto, TypeInv, TypeOK, PcType
<1>2. \A u \in Threads : pc'[u] \in Chosen =>
        /\ u # t /\ pc'[u] = pc[u] /\ cur'[u] = cur[u] /\ cf'[u] = cf[u]
  BY <1>1 DEF Quiet
<1>3. \A r \in Requests : pc'[Handler(r)] \in Early =>
        /\ pc[Handler(r)] \in Early
        /\ pc'[Handler(r)] \in {"insert", "register"} \/ pc[Handler(r)] \notin {"insert", "register"}
  BY <1>1, ThreadFacts DEF Quiet
<1>4. \A r \in Requests : /\ pc'[Runner(r)] \in Busy <=> pc[Runner(r)] \in Busy
                          /\ pc[Runner(r)] \in Busy => pc'[Runner(r)] = pc[Runner(r)]
  BY <1>1, ThreadFacts DEF Quiet
<1>5. \A s \in Requests : KeepsJob(s) \/ (pc[Handler(s)] \in Early /\ pc'[Handler(s)] = "insert")
  BY <1>1, ThreadFacts DEF Quiet
<1>6. UNCHANGED <<conf, saving, pick, forwards>>
  BY DEF Quiet
<1>7. ConfSteps'
  BY <1>2, <1>6 DEF Core, ConfSteps, StepOf, Chosen
<1>8. \A u \in Threads : pc'[u] \in {"commit", "launch"} => KeepsJob(pick[u].r)
  BY <1>2, <1>5 DEF Core, PickSound, EarlyHidden, PickedBy, Chosen
<1>9. PickSound'
  BY <1>2, <1>6, <1>8 DEF Core, PickSound, StepOf, Chosen, KeepsJob
<1>10. EarlyHidden'
  <2> SUFFICES ASSUME NEW r \in Requests, pc'[Handler(r)] \in Early
               PROVE  /\ r \notin waiters'
                      /\ \A u \in Threads : ~PickedBy(u, r)'
                      /\ pc'[Runner(r)] = "off"
                      /\ pc'[Handler(r)] \notin {"insert", "register"} => job'[r].status # "waiting"
    BY DEF EarlyHidden
  <2>1. pc[Handler(r)] \in Early
    BY <1>3
  <2>2. r \notin waiters'
    BY <1>1, <2>1, ThreadFacts DEF Core, EarlyHidden, Quiet
  <2>3. \A u \in Threads : ~PickedBy(u, r)'
    BY <1>2, <1>6, <2>1 DEF Core, EarlyHidden, PickedBy, Chosen
  <2>4. pc'[Runner(r)] = "off"
    BY <1>4, <2>1 DEF Core, EarlyHidden, Busy
  <2>5. pc'[Handler(r)] \notin {"insert", "register"} => job'[r].status # "waiting"
    BY <1>3, <1>5, <2>1 DEF Core, EarlyHidden, KeepsJob
  <2> QED BY <2>2, <2>3, <2>4, <2>5
<1>11. LaunchSound'
  <2> SUFFICES ASSUME NEW u \in Threads, pc'[u] = "launch"
               PROVE  /\ job'[pick[u].r].status # "waiting"
                      /\ job'[pick[u].r].model = pick[u].model
                      /\ pc'[Runner(pick[u].r)] = "off"
                      /\ \A v \in Threads : pc'[v] = "launch" /\ pick[v].r = pick[u].r => v = u
    BY <1>6 DEF LaunchSound
  <2>1. pc[u] = "launch" /\ KeepsJob(pick[u].r) /\ pick[u].r \in Requests
    BY <1>2, <1>8 DEF Chosen, Core, PickSound
  <2> QED BY <1>2, <1>4, <2>1 DEF Core, LaunchSound, KeepsJob, Chosen, Busy
<1>12. RunnerSound'
  <2> SUFFICES ASSUME NEW r \in Requests, pc'[Runner(r)] # "off"
               PROVE  job'[r].status # "waiting" /\ job'[r].model \in Models
    BY DEF RunnerSound
  <2>1. pc[Runner(r)] # "off"
    BY <1>4 DEF Busy
  <2> QED BY <1>5, <2>1 DEF Core, RunnerSound, EarlyHidden, KeepsJob
<1>13. ForwardCount'
  <2> SUFFICES ASSUME NEW r \in Requests, CanForward(r)' PROVE CanForward(r)
    BY <1>6 DEF Core, ForwardCount
  <2>1. CASE pc'[Handler(r)] \in Early
    BY <1>3, <2>1 DEF CanForward
  <2>2. CASE \E u \in Threads : pc'[u] = "launch" /\ pick'[u].r = r
    BY <1>2, <1>6, <2>2 DEF CanForward, Chosen
  <2>3. CASE pc'[Runner(r)] = "forward"
    BY <1>4, <2>3 DEF CanForward, Busy
  <2>4. CASE job'[r].status = "waiting"
    BY <1>5, <2>4 DEF CanForward, KeepsJob
  <2> QED BY <2>1, <2>2, <2>3, <2>4 DEF CanForward
<1> QED BY <1>7, <1>9, <1>10, <1>11, <1>12, <1>13 DEF Core

\* Steps that leave the holders of every slot alone.
LEMMA SlotFrame ==
  ASSUME InflightExact, CapRespected, UNCHANGED inflight,
         \A r \in Requests, m \in Models : Holds(r, m)' <=> Holds(r, m),
         \A r \in Requests, m \in Models : Holds(r, m) => job'[r].queue = job[r].queue
  PROVE  InflightExact' /\ CapRespected'
<1>1. \A m \in Models : SlotHolders(m)' = SlotHolders(m)
  BY DEF SlotHolders
<1>2. \A q \in Queues, m \in Models :
        {r \in SlotHolders(m)' : job'[r].queue = q} = {r \in SlotHolders(m) : job[r].queue = q}
  BY <1>1 DEF SlotHolders
<1>3. InflightExact'
  BY <1>1 DEF InflightExact
<1>4. CapRespected'
  BY <1>2 DEF CapRespected
<1> QED BY <1>3, <1>4

\* A request that holds a slot is no longer early, and keeps its queue.
LEMMA HolderFacts ==
  ASSUME Core, NEW r \in Requests, NEW m \in Models, Holds(r, m)
  PROVE  pc[Handler(r)] \notin Early
BY DEF Core, EarlyHidden, Holds, Launching, PickedBy

LEMMA QuietStep ==
  ASSUME IInv, TypeInv', NEW t \in Threads, NEW l, Quiet(t, l)
  PROVE  IInv'
<1>1. Core'
  BY QuietCore DEF IInv
<1>2. \A u \in Threads : pc'[u] = IF u = t THEN l ELSE pc[u]
  BY DEF Quiet, Goto, IInv, TypeInv, TypeOK, PcType
<1>3. \A u \in Threads : pc'[u] = "launch" <=> pc[u] = "launch"
  BY <1>2 DEF Quiet, Chosen
<1>4. \A r \in Requests : pc'[Runner(r)] \in {"forward", "finish"}
                            <=> pc[Runner(r)] \in {"forward", "finish"}
  BY <1>2, ThreadFacts DEF Quiet, Busy
<1>5. \A r \in Requests : pc[Handler(r)] \notin Early => KeepsJob(r)
  BY ThreadFacts DEF Quiet
<1>6. \A r \in Requests, m \in Models : Launching(r, m)' <=> Launching(r, m)
  BY <1>3 DEF Launching, Quiet
<1>7. \A r \in Requests : pc[Runner(r)] \in {"forward", "finish"} => pc[Handler(r)] \notin Early
  BY DEF IInv, Core, EarlyHidden
<1>8. \A r \in Requests, m \in Models : Holds(r, m)' <=> Holds(r, m)
  BY <1>4, <1>5, <1>6, <1>7 DEF Holds, KeepsJob
<1>9. \A r \in Requests, m \in Models : Holds(r, m) => job'[r].queue = job[r].queue
  BY <1>5, HolderFacts DEF IInv, KeepsJob
<1>10. UNCHANGED inflight
  BY DEF Quiet
<1>11. InflightExact' /\ CapRespected'
  BY <1>8, <1>9, <1>10, SlotFrame DEF IInv
<1> QED BY <1>1, <1>11 DEF IInv

LEMMA InitSafe == Init => IInv
<1> SUFFICES ASSUME Init PROVE IInv
  OBVIOUS
<1>1. TypeInv
  BY InitType
<1>2. /\ \A r \in Requests : pc[Handler(r)] = "arrive" /\ pc[Runner(r)] = "off"
      /\ \A t \in Threads : pc[t] \in {"arrive", "off", "stats"}
  BY ThreadFacts DEF Init
<1>3. /\ \A r \in Requests : job[r].status = "none" /\ forwards[r] = 0
      /\ waiters = {} /\ conf = InitConf /\ saving.todo = << >>
      /\ \A m \in Models : inflight[m] = 0
  BY DEF Init
<1>4. ConfSteps
  BY <1>2, <1>3, ConfAssumption DEF ConfSteps, StepOf
<1>5. PickSound /\ EarlyHidden /\ LaunchSound /\ RunnerSound /\ ForwardCount
  BY <1>2, <1>3 DEF PickSound, EarlyHidden, LaunchSound, RunnerSound, ForwardCount, PickedBy
<1>6. \A m \in Models : SlotHolders(m) = {}
  BY <1>2 DEF SlotHolders, Holds, Launching
<1>7. InflightExact
  BY <1>3, <1>6, FS_EmptySet DEF InflightExact
<1>8. CapRespected
  <2>1. \A q \in Queues, m \in Models : {r \in SlotHolders(m) : job[r].queue = q} = {}
    BY <1>6
  <2> QED BY <2>1, FS_EmptySet DEF CapRespected
<1> QED BY <1>1, <1>4, <1>5, <1>7, <1>8 DEF IInv, Core

(***************************************************************************)
(* The quiet actions.                                                      *)
(***************************************************************************)
\* Nothing the slots depend on changes but one goroutine's place.
Moves(t, l) == /\ Goto(t, l) /\ UNCHANGED <<conf, saving, pick, forwards, inflight, job, waiters>>
               /\ \A u \in Threads \ {t} : cur'[u] = cur[u] /\ cf'[u] = cf[u]

LEMMA MovesHandler ==
  ASSUME TypeInv, NEW r \in Requests, NEW l, Moves(Handler(r), l),
         pc[Handler(r)] # "launch", l \notin Chosen,
         l \in Early => /\ pc[Handler(r)] \in Early
                        /\ l \in {"insert", "register"}
                             \/ pc[Handler(r)] \notin {"insert", "register"}
  PROVE  Quiet(Handler(r), l)
<1>1. \A s \in Requests : Handler(r) = Handler(s) => r = s
  BY ThreadFacts
<1>2. \A s \in Requests : Handler(r) # Runner(s)
  BY ThreadFacts
<1> QED BY <1>1, <1>2 DEF Moves, Quiet, KeepsJob

LEMMA SafeEnter ==
  ASSUME IInv, TypeInv', NEW r \in Requests, Enter(r) PROVE IInv'
<1> DEFINE t == Handler(r)
<1>1. /\ pc[t] \in {"arrive", "enter"}
      /\ UNCHANGED <<config, memory, forwards, cur, pick>>
      /\ UNCHANGED cf \/ cf' = [cf EXCEPT ![t] = conf[AliasQueue[alias[r]]]]
      /\ Goto(t, "returned") \/ Goto(t, "unwind") \/ Goto(t, "stats")
  BY DEF Enter, Return
<1>2. \A u \in Threads \ {t} : cur'[u] = cur[u] /\ cf'[u] = cf[u]
  BY <1>1 DEF IInv, TypeInv, TypeOK, LocalType
<1>3. PICK l \in {"returned", "unwind", "stats"} : Goto(t, l)
  BY <1>1
<1>4. Moves(t, l)
  BY <1>1, <1>2, <1>3 DEF Moves, config, memory
<1>5. /\ pc[t] # "launch" /\ l \notin Chosen /\ pc[t] \in Early
      /\ pc[t] \notin {"insert", "register"}
  BY <1>1 DEF Chosen, Early
<1>6. Quiet(t, l)
  BY <1>4, <1>5, MovesHandler DEF IInv
<1> QED BY <1>6, QuietStep, ThreadFacts

\* purgeIfNeeded takes waiters away and marks jobs dropped, nothing more.
PurgeLabels == {"stats", "oldest", "take", "mark", "save", "counts", "list"}
LEMMA PurgeQuiet ==
  ASSUME IInv, TypeInv', NEW t \in Purgers, NEW l \in PurgeLabels, Goto(t, l),
         pc[t] \in PurgeLabels, waiters' \subseteq waiters,
         \A s \in Requests : KeepsJob(s),
         UNCHANGED <<conf, saving, pick, forwards, inflight, cur, cf>>
  PROVE  IInv'
<1>1. /\ PurgeLabels \cap Chosen = {} /\ "insert" \notin PurgeLabels
      /\ "register" \notin PurgeLabels /\ PurgeLabels \ {"list"} \subseteq Early
  BY DEF PurgeLabels, Chosen, Early
<1>2. "launch" \in Chosen
  BY DEF Chosen
<1>3. \A r \in Requests : t # Runner(r)
  BY ThreadFacts DEF Purgers
<1>4. \A r \in Requests : t = Handler(r) => pc[t] # "list"
  BY DEF IInv, TypeInv, TypeOK, PcType, HandlerPCs
<1>5. Quiet(t, l)
  BY <1>1, <1>2, <1>3, <1>4 DEF Quiet
<1> QED BY <1>5, QuietStep DEF Purgers

LEMMA SafePurge ==
  ASSUME IInv, TypeInv', NEW t \in Purgers, PurgeStep(t) PROVE IInv'
<1> USE DEF PurgeReturn
<1>1. CASE WaitingStats(t) \/ OldestWaiting(t)
  <2>1. /\ pc[t] \in {"stats", "oldest"} /\ UNCHANGED <<config, memory, client, local>>
        /\ Goto(t, "oldest") \/ Goto(t, "take") \/ Goto(t, "list") \/ Goto(t, "counts")
    BY <1>1 DEF WaitingStats, OldestWaiting
  <2>2. \A s \in Requests : KeepsJob(s)
    BY <2>1 DEF KeepsJob, memory
  <2> QED BY <2>1, <2>2, PurgeQuiet DEF PurgeLabels, config, memory, client, local
<1>2. CASE PurgeTake(t)
  <2>1. /\ pc[t] = "take" /\ UNCHANGED <<config, inflight, job, client, local>>
        /\ Goto(t, "mark") \/ Goto(t, "take") \/ Goto(t, "list") \/ Goto(t, "counts")
        /\ waiters' \subseteq waiters
    BY <1>2 DEF PurgeTake, PurgeNext
  <2>2. \A s \in Requests : KeepsJob(s)
    BY <2>1 DEF KeepsJob
  <2> QED BY <2>1, <2>2, PurgeQuiet DEF PurgeLabels, config, client, local
<1>3. CASE PurgeMark(t)
  <2>1. /\ pc[t] = "mark" /\ UNCHANGED <<config, inflight, waiters, client, local>>
        /\ Goto(t, "save") /\ job' = [job EXCEPT ![victim[t]].status = "dropped"]
    BY <1>3 DEF PurgeMark, Mark
  <2>2. \A s \in Requests : KeepsJob(s)
    BY <2>1 DEF KeepsJob, IInv, TypeInv, TypeOK, MemoryType, Job
  <2> QED BY <2>1, <2>2, PurgeQuiet DEF PurgeLabels, config, client, local
<1>4. CASE PurgeSave(t)
  <2>1. /\ pc[t] = "save" /\ UNCHANGED <<config, inflight, waiters, job, client, local>>
        /\ Goto(t, "take") \/ Goto(t, "list") \/ Goto(t, "counts")
    BY <1>4 DEF PurgeSave, PurgeNext
  <2>2. \A s \in Requests : KeepsJob(s)
    BY <2>1 DEF KeepsJob
  <2> QED BY <2>1, <2>2, PurgeQuiet DEF PurgeLabels, config, client, local
<1> QED BY <1>1, <1>2, <1>3, <1>4 DEF PurgeStep

\* handle's own steps between the purge and the waiter, and after the wait.
LEMMA SafePlain ==
  ASSUME IInv, TypeInv', NEW r \in Requests,
         \/ Counts(r) \/ Overflow(r) \/ Unwind(r) \/ Insert(r) \/ WakeUp(r)
         \/ Timeout(r) \/ TimeoutSave(r) \/ TimeoutReply(r)
  PROVE  IInv'
<1> DEFINE t == Handler(r)
<1>1. UNCHANGED <<config, inflight, waiters, job, forwards, cur, cf, pick>>
  BY DEF Counts, Overflow, Unwind, Insert, WakeUp, Timeout, TimeoutSave, TimeoutReply,
     memory, client, local
<1>2. UNCHANGED <<conf, saving>>
  BY <1>1 DEF config
<1>3. \/ pc[t] \in {"counts", "overflow"} /\ \E l \in {"overflow", "seq", "enter", "direct",
                                                       "returned", "unwind"} : Goto(t, l)
      \/ pc[t] = "insert" /\ \E l \in {"register", "returned", "unwind"} : Goto(t, l)
      \/ pc[t] \in {"unwind", "select", "await", "tsave", "t504"} /\
           \E l \in {"returned", "unwind", "tdrop", "await", "t504"} : Goto(t, l)
  BY DEF Counts, Overflow, Unwind, Insert, WakeUp, Timeout, TimeoutSave, TimeoutReply, Return
<1>4. PICK l : /\ Goto(t, l) /\ pc[t] # "launch" /\ l \notin Chosen
               /\ l \in Early => /\ pc[t] \in Early
                                 /\ l \in {"insert", "register"}
                                      \/ pc[t] \notin {"insert", "register"}
  BY <1>3 DEF Chosen, Early
<1>5. Moves(t, l)
  BY <1>1, <1>2, <1>4 DEF Moves
<1>6. Quiet(t, l)
  BY <1>4, <1>5, MovesHandler DEF IInv
<1> QED BY <1>6, QuietStep, ThreadFacts

LEMMA SafeTimeoutDrop ==
  ASSUME IInv, TypeInv', NEW r \in Requests, TimeoutDrop(r) \/ TimeoutMark(r) PROVE IInv'
<1> DEFINE t == Handler(r)
<1>1. /\ UNCHANGED <<config, inflight, client, local>> /\ waiters' \subseteq waiters
      /\ pc[t] \in {"tdrop", "tmark"} /\ \E l \in {"tmark", "tsave", "t504"} : Goto(t, l)
      /\ UNCHANGED job \/ job' = [job EXCEPT ![victim[t]].status = "dropped"]
  BY DEF TimeoutDrop, TimeoutMark, Mark
<1>2. \A s \in Requests : KeepsJob(s)
  BY <1>1 DEF KeepsJob, IInv, TypeInv, TypeOK, MemoryType, Job
<1>3. PICK l \in {"tmark", "tsave", "t504"} : Goto(t, l)
  BY <1>1
<1>4. l \notin Early /\ l \notin Chosen
  BY DEF Early, Chosen
<1>5. \A s \in Requests : t # Runner(s)
  BY ThreadFacts
<1>6. Quiet(t, l)
  BY <1>1, <1>2, <1>3, <1>4, <1>5 DEF Quiet, config, client, local
<1> QED BY <1>6, QuietStep, ThreadFacts

LEMMA SafeReadSeq ==
  ASSUME IInv, TypeInv', NEW r \in Requests, ReadSeq(r) PROVE IInv'
<1> DEFINE t == Handler(r)
<1>1. /\ UNCHANGED <<config, inflight, waiters, forwards, local>> /\ pc[t] = "seq"
      /\ \/ /\ \E v : job' = [job EXCEPT ![r] = v]
            /\ Goto(t, "insert")
         \/ (Goto(t, "returned") \/ Goto(t, "unwind")) /\ UNCHANGED job
  BY DEF ReadSeq, Return
<1>2. PICK l \in {"insert", "returned", "unwind"} :
        /\ Goto(t, l)
        /\ UNCHANGED job \/ (l = "insert" /\ \E v : job' = [job EXCEPT ![r] = v])
  BY <1>1
<1>3. \A s \in Requests : KeepsJob(s) \/ (s = r /\ l = "insert")
  BY <1>2 DEF KeepsJob, IInv, TypeInv, TypeOK, MemoryType
<1>4. pc[t] \in Early /\ l \notin Chosen /\ (l \in Early => l = "insert")
  BY <1>1 DEF Early, Chosen
<1>5. /\ \A s \in Requests : t # Runner(s)
      /\ \A s \in Requests : t = Handler(s) => s = r
  BY ThreadFacts
<1>6. Quiet(t, l)
  BY <1>1, <1>2, <1>3, <1>4, <1>5 DEF Quiet, config, local
<1> QED BY <1>6, QuietStep, ThreadFacts

LEMMA SafeRegister ==
  ASSUME IInv, TypeInv', NEW r \in Requests, Register(r) PROVE IInv'
<1> DEFINE t == Handler(r)
<1>1. /\ UNCHANGED <<config, inflight, job, client, cf, pick>> /\ pc[t] = "register"
      /\ waiters' = waiters \cup {r} /\ Goto(t, "get")
      /\ cur' = [cur EXCEPT ![t] = job[r].queue]
  BY DEF Register
<1>2. \A s \in Requests : KeepsJob(s)
  BY <1>1 DEF KeepsJob
<1>3. "get" \notin Early /\ "get" \notin Chosen
  BY DEF Early, Chosen
<1>4. \A s \in Requests : t # Runner(s)
  BY ThreadFacts
<1>5. \A u \in Threads \ {t} : cur'[u] = cur[u]
  BY <1>1 DEF IInv, TypeInv, TypeOK, LocalType
<1>6. Quiet(t, "get")
  BY <1>1, <1>2, <1>3, <1>4, <1>5 DEF Quiet, config, client
<1> QED BY <1>6, QuietStep, ThreadFacts

LEMMA SafeFinishSave ==
  ASSUME IInv, TypeInv', NEW r \in Requests, FinishSave(r) PROVE IInv'
<1> DEFINE t == Runner(r)
<1>1. /\ UNCHANGED <<config, inflight, waiters, job, client, cf, pick>> /\ pc[t] = "store"
      /\ Goto(t, "get") /\ cur' = [cur EXCEPT ![t] = job[r].queue]
  BY DEF FinishSave
<1>2. \A s \in Requests : KeepsJob(s)
  BY <1>1 DEF KeepsJob
<1>3. "get" \notin Early /\ "get" \notin Chosen /\ "get" \notin Busy /\ "store" \notin Busy
  BY DEF Early, Chosen, Busy
<1>4. \A u \in Threads \ {t} : cur'[u] = cur[u]
  BY <1>1 DEF IInv, TypeInv, TypeOK, LocalType
<1>5. Quiet(t, "get")
  BY <1>1, <1>2, <1>3, <1>4, ThreadFacts DEF Quiet, config, client
<1> QED BY <1>5, QuietStep, ThreadFacts

(***************************************************************************)
(* dispatch.                                                               *)
(***************************************************************************)
\* dispatch returns: the goroutine leaves with nothing chosen.
LEMMA ReturnQuiet ==
  ASSUME IInv, TypeInv', NEW t \in Threads, DispatchReturn(t), pc[t] \in {"get", "scan"},
         UNCHANGED <<conf, saving, pick, forwards, inflight, job, waiters>>,
         \A u \in Threads \ {t} : cf'[u] = cf[u]
  PROVE  IInv'
<1>1. /\ t = Loop => \E l \in {"stats", "get"} : Goto(t, l)
      /\ t # Loop => Goto(t, IF t[1] = "handler" THEN "select" ELSE "end")
      /\ \A u \in Threads \ {t} : cur'[u] = cur[u]
  BY DEF DispatchReturn, NextQueue, IInv, TypeInv, TypeOK, LocalType
<1>2. PICK l \in {"stats", "get", "select", "end"} :
        /\ Goto(t, l)
        /\ \A r \in Requests : t = Handler(r) => l = "select"
        /\ \A r \in Requests : t = Runner(r) => l = "end"
  BY <1>1, ThreadFacts
<1>3. l \notin Chosen /\ pc[t] # "launch" /\ {"get", "scan", "end"} \cap Busy = {} /\ "select" \notin Early
  BY DEF Chosen, Busy, Early
<1>4. \A s \in Requests : KeepsJob(s)
  BY DEF KeepsJob
<1>5. Quiet(t, l)
  BY <1>1, <1>2, <1>3, <1>4 DEF Quiet
<1> QED BY <1>5, QuietStep

\* The first critical section chooses the head of the queue and a step of it.
LEMMA PickStep ==
  ASSUME IInv, TypeInv', NEW t \in Threads, pc[t] \in {"get", "scan"}, NEW c \in Config,
         \A i \in DOMAIN c.steps : StepOf(cur[t], c.steps[i]),
         NEW r \in waiters, NEW i \in DOMAIN c.steps, job[r].queue = cur[t],
         pick' = [pick EXCEPT ![t] = [r |-> r, model |-> c.steps[i].model,
                                      cap |-> c.steps[i].cap]],
         Goto(t, "commit"), cf'[t] = c, \A u \in Threads \ {t} : cf'[u] = cf[u],
         UNCHANGED <<conf, saving, forwards, inflight, job, waiters, cur>>
  PROVE  IInv'
<1>1. \A u \in Threads : pc'[u] = IF u = t THEN "commit" ELSE pc[u]
  BY DEF Goto, IInv, TypeInv, TypeOK, PcType
<1>2. r \in Requests /\ c.steps[i] \in Step
  BY DEF IInv, TypeInv, TypeOK, MemoryType, Config
<1>3. /\ \A u \in Threads \ {t} : pick'[u] = pick[u]
      /\ pick'[t].r = r /\ pick'[t].model = c.steps[i].model /\ pick'[t].cap = c.steps[i].cap
  BY DEF IInv, TypeInv, TypeOK, LocalType
<1>4. \A s \in Requests : /\ pc'[Handler(s)] \in Early <=> (pc[Handler(s)] \in Early /\ t # Handler(s))
                          /\ pc[Handler(s)] \in Early => pc'[Handler(s)] = pc[Handler(s)]
  BY <1>1, ThreadFacts DEF Early
<1>5. \A s \in Requests : pc'[Runner(s)] \in Busy <=> pc[Runner(s)] \in Busy
  BY <1>1, ThreadFacts DEF Busy
<1>6. \A s \in Requests : pc[Runner(s)] \in Busy => pc'[Runner(s)] = pc[Runner(s)]
  BY <1>1, ThreadFacts DEF Busy
<1>7. ConfSteps'
  BY <1>1 DEF IInv, Core, ConfSteps, StepOf
<1>8. PickSound'
  <2>1. StepOf(cur[t], [model |-> c.steps[i].model, cap |-> c.steps[i].cap])
    <3>1. c.steps[i] = [model |-> c.steps[i].model, cap |-> c.steps[i].cap]
      BY <1>2 DEF Step
    <3> QED BY <3>1
  <2>2. pick'[t].model \in Models /\ pick'[t].cap \in Nat
    BY <1>2, <1>3 DEF Step
  <2> QED BY <1>1, <1>2, <1>3, <2>1, <2>2 DEF IInv, Core, PickSound, StepOf
<1>9. pc[Handler(r)] \notin Early
  BY <1>2 DEF IInv, Core, EarlyHidden
<1>10. EarlyHidden'
  BY <1>1, <1>3, <1>4, <1>6, <1>9 DEF IInv, Core, EarlyHidden, PickedBy, Busy
<1>11. \A u \in Threads : pc'[u] = "launch" <=> (pc[u] = "launch" /\ u # t)
  BY <1>1
<1>12. LaunchSound'
  <2> SUFFICES ASSUME NEW u \in Threads, pc'[u] = "launch"
               PROVE  /\ job[pick'[u].r].status # "waiting"
                      /\ job[pick'[u].r].model = pick'[u].model
                      /\ pc'[Runner(pick'[u].r)] = "off"
                      /\ \A v \in Threads : pc'[v] = "launch" /\ pick'[v].r = pick'[u].r => v = u
    BY DEF LaunchSound
  <2>1. u # t /\ pc[u] = "launch" /\ pick'[u] = pick[u] /\ pick[u].r \in Requests
    BY <1>3, <1>11 DEF IInv, Core, PickSound
  <2> QED BY <1>3, <1>6, <1>11, <2>1 DEF IInv, Core, LaunchSound, Busy
<1>13. RunnerSound'
  BY <1>5, <1>6 DEF IInv, Core, RunnerSound, Busy
<1>14. ForwardCount'
  <2>1. \A s \in Requests : CanForward(s)' => CanForward(s)
    BY <1>3, <1>4, <1>5, <1>6, <1>11 DEF CanForward, Busy
  <2> QED BY <2>1 DEF IInv, Core, ForwardCount
<1>15. \A s \in Requests, m \in Models : Holds(s, m)' <=> Holds(s, m)
  <2>1. \A s \in Requests, m \in Models : Launching(s, m)' <=> Launching(s, m)
    BY <1>3, <1>11 DEF Launching
  <2>2. \A s \in Requests : pc'[Runner(s)] \in {"forward", "finish"}
                              <=> pc[Runner(s)] \in {"forward", "finish"}
    BY <1>5, <1>6 DEF Busy
  <2> QED BY <2>1, <2>2 DEF Holds
<1>16. InflightExact' /\ CapRespected'
  BY <1>15, SlotFrame DEF IInv
<1> QED BY <1>7, <1>8, <1>10, <1>12, <1>13, <1>14, <1>16 DEF IInv, Core

LEMMA SafeChoose ==
  ASSUME IInv, TypeInv', NEW t \in Threads, pc[t] \in {"get", "scan"}, NEW c \in Config,
         \A i \in DOMAIN c.steps : StepOf(cur[t], c.steps[i]), Choose(t, c),
         cf'[t] = c, \A u \in Threads \ {t} : cf'[u] = cf[u],
         UNCHANGED <<conf, saving, forwards, inflight, job, waiters>>
  PROVE  IInv'
<1>1. CASE DispatchReturn(t) /\ UNCHANGED pick
  BY <1>1, ReturnQuiet
<1>2. ASSUME NEW r \in waiters, NEW i \in DOMAIN c.steps, IsHead(r, cur[t]),
             pick' = [pick EXCEPT ![t] = [r |-> r, model |-> c.steps[i].model,
                                          cap |-> c.steps[i].cap]],
             Goto(t, "commit"), UNCHANGED <<cur, rest>>
      PROVE  IInv'
  BY <1>2, PickStep DEF IsHead, WaitingOf
<1>3. \/ DispatchReturn(t) /\ UNCHANGED pick
      \/ \E r \in waiters, i \in DOMAIN c.steps :
           /\ IsHead(r, cur[t])
           /\ pick' = [pick EXCEPT ![t] = [r |-> r, model |-> c.steps[i].model,
                                           cap |-> c.steps[i].cap]]
           /\ Goto(t, "commit") /\ UNCHANGED <<cur, rest>>
  BY DEF Choose
<1> QED BY <1>1, <1>2, <1>3

LEMMA SafeGetQueue ==
  ASSUME IInv, TypeInv', NEW t \in Threads, GetQueue(t) PROVE IInv'
<1>1. UNCHANGED <<config, memory, client>> /\ pc[t] = "get"
  BY DEF GetQueue
<1>2. UNCHANGED <<conf, saving, forwards, inflight, job, waiters>>
  BY <1>1 DEF config, memory, client
<1>3. \/ cf' = [cf EXCEPT ![t] = conf[cur[t]]] /\ Choose(t, conf[cur[t]])
      \/ DispatchReturn(t) /\ UNCHANGED <<cf, pick>>
  BY DEF GetQueue
<1>4. cur[t] \in Queues /\ conf[cur[t]] \in Config
  BY DEF IInv, TypeInv, TypeOK, LocalType, ConfigType
<1>5. \A i \in DOMAIN conf[cur[t]].steps : StepOf(cur[t], conf[cur[t]].steps[i])
  BY <1>4 DEF IInv, Core, ConfSteps
<1>6. CASE cf' = [cf EXCEPT ![t] = conf[cur[t]]] /\ Choose(t, conf[cur[t]])
  <2>1. cf'[t] = conf[cur[t]] /\ \A u \in Threads \ {t} : cf'[u] = cf[u]
    BY <1>6 DEF IInv, TypeInv, TypeOK, LocalType
  <2> QED BY <1>1, <1>2, <1>4, <1>5, <1>6, <2>1, SafeChoose
<1>7. CASE DispatchReturn(t) /\ UNCHANGED <<cf, pick>>
  BY <1>1, <1>2, <1>7, ReturnQuiet
<1> QED BY <1>3, <1>6, <1>7

LEMMA SafeScan ==
  ASSUME IInv, TypeInv', NEW t \in Threads, Scan(t) PROVE IInv'
<1>1. UNCHANGED <<config, memory, client, cf>> /\ pc[t] = "scan" /\ Choose(t, cf[t])
  BY DEF Scan
<1>2. UNCHANGED <<conf, saving, forwards, inflight, job, waiters>>
  BY <1>1 DEF config, memory, client
<1>3. cf[t] \in Config /\ \A i \in DOMAIN cf[t].steps : StepOf(cur[t], cf[t].steps[i])
  BY <1>1 DEF IInv, TypeInv, TypeOK, LocalType, Core, ConfSteps
<1> QED BY <1>1, <1>2, <1>3, SafeChoose

\* The second critical section, when the choice no longer stands.
LEMMA SafeCommitRetry ==
  ASSUME IInv, TypeInv', NEW t \in Threads, Commit(t), ~Stands(pick[t])
  PROVE  IInv'
<1>0. pc[t] = "commit" /\ UNCHANGED <<conf, saving, forwards, inflight, job, waiters, cur, cf>>
  BY DEF Commit, config, client
<1>1. \A u \in Threads : pc'[u] = IF u = t THEN "scan" ELSE pc[u]
  BY DEF Commit, Goto, IInv, TypeInv, TypeOK, PcType
<1>2. \A u \in Threads \ {t} : pick'[u] = pick[u]
  BY DEF Commit, IInv, TypeInv, TypeOK, LocalType
<1>3. \A s \in Requests : /\ pc'[Handler(s)] \in Early => pc'[Handler(s)] = pc[Handler(s)]
                          /\ pc'[Runner(s)] # "off" <=> pc[Runner(s)] # "off"
                          /\ pc'[Runner(s)] \in {"forward", "finish"}
                               <=> pc[Runner(s)] \in {"forward", "finish"}
                          /\ pc'[Runner(s)] = "forward" <=> pc[Runner(s)] = "forward"
  BY <1>0, <1>1, ThreadFacts DEF Early
<1>4. \A u \in Threads : /\ pc'[u] = "launch" <=> pc[u] = "launch"
                         /\ pc'[u] \in {"commit", "launch"} => u # t /\ pc'[u] = pc[u]
                         /\ pc'[u] = "launch" => u # t
  BY <1>0, <1>1
<1>5. ConfSteps'
  BY <1>0, <1>1 DEF IInv, Core, ConfSteps, StepOf
<1>6. PickSound'
  BY <1>0, <1>2, <1>4 DEF IInv, Core, PickSound, StepOf
<1>7. EarlyHidden'
  BY <1>0, <1>2, <1>3, <1>4 DEF IInv, Core, EarlyHidden, PickedBy
<1>8. LaunchSound'
  <2> SUFFICES ASSUME NEW u \in Threads, pc'[u] = "launch"
               PROVE  /\ job[pick'[u].r].status # "waiting"
                      /\ job[pick'[u].r].model = pick'[u].model
                      /\ pc'[Runner(pick'[u].r)] = "off"
                      /\ \A v \in Threads : pc'[v] = "launch" /\ pick'[v].r = pick'[u].r => v = u
    BY <1>0 DEF LaunchSound
  <2>1. u # t /\ pc[u] = "launch" /\ pick'[u] = pick[u] /\ pick[u].r \in Requests
    BY <1>2, <1>4 DEF IInv, Core, PickSound
  <2> QED BY <1>2, <1>3, <1>4, <2>1 DEF IInv, Core, LaunchSound
<1>9. RunnerSound'
  BY <1>0, <1>3 DEF IInv, Core, RunnerSound
<1>10. ForwardCount'
  <2>1. \A s \in Requests : CanForward(s)' => CanForward(s)
    BY <1>0, <1>2, <1>3, <1>4 DEF CanForward
  <2> QED BY <1>0, <2>1 DEF IInv, Core, ForwardCount
<1>11. \A s \in Requests, m \in Models : Holds(s, m)' <=> Holds(s, m)
  <2>1. \A s \in Requests, m \in Models : Launching(s, m)' <=> Launching(s, m)
    BY <1>0, <1>2, <1>4 DEF Launching
  <2> QED BY <1>0, <1>3, <2>1 DEF Holds
<1>12. InflightExact' /\ CapRespected'
  BY <1>0, <1>11, SlotFrame DEF IInv
<1> QED BY <1>0, <1>5, <1>6, <1>7, <1>8, <1>9, <1>10, <1>12 DEF IInv, Core

LEMMA HoldersFinite ==
  ASSUME NEW m \in Models
  PROVE  IsFiniteSet(SlotHolders(m)) /\ Cardinality(SlotHolders(m)) \in Nat
<1>1. SlotHolders(m) \subseteq Requests
  BY DEF SlotHolders
<1> QED BY <1>1, RequestsAssumption, FS_Subset, FS_CardinalityType

\* The second critical section takes the slot.
LEMMA SafeCommitTake ==
  ASSUME IInv, TypeInv', NEW t \in Threads, Commit(t), Stands(pick[t])
  PROVE  IInv'
<1>0. /\ pc[t] = "commit" /\ UNCHANGED <<conf, saving, forwards, pick, waiters, cur, cf>>
      /\ inflight' = [inflight EXCEPT ![pick[t].model] = @ + 1]
  BY DEF Commit, config, client
<1>1. \A u \in Threads : pc'[u] = IF u = t THEN "launch" ELSE pc[u]
  BY DEF Commit, Goto, IInv, TypeInv, TypeOK, PcType
<1>a. PICK r \in Requests, m0 \in Models : r = pick[t].r /\ m0 = pick[t].model
  BY <1>0 DEF IInv, Core, PickSound
<1>2. job[r].queue = cur[t] /\ cur[t] \in Queues
  BY <1>0, <1>a DEF IInv, Core, PickSound, TypeInv, TypeOK, LocalType
<1>3. /\ \A s \in Requests \ {r} : job'[s] = job[s]
      /\ job'[r].queue = job[r].queue /\ job'[r].model = m0 /\ job'[r].status = "running"
  BY <1>a DEF Commit, IInv, TypeInv, TypeOK, MemoryType, Job
<1>4. job[r].status = "waiting" /\ inflight[m0] < pick[t].cap
  BY <1>a DEF Stands
<1>5. pc[Runner(r)] = "off" /\ \A u \in Threads : ~(pc[u] = "launch" /\ pick[u].r = r)
  BY <1>0, <1>a, <1>2, <1>4 DEF IInv, Core, RunnerSound, LaunchSound
<1>6. pc[Handler(r)] \notin Early
  BY <1>0, <1>a, <1>2 DEF IInv, Core, EarlyHidden, PickedBy
<1>7. \A s \in Requests : /\ pc'[Handler(s)] \in Early => pc'[Handler(s)] = pc[Handler(s)]
                          /\ pc'[Runner(s)] # "off" <=> pc[Runner(s)] # "off"
                          /\ pc'[Runner(s)] \in {"forward", "finish"}
                               <=> pc[Runner(s)] \in {"forward", "finish"}
                          /\ pc'[Runner(s)] = "forward" <=> pc[Runner(s)] = "forward"
  BY <1>0, <1>a, <1>1, ThreadFacts DEF Early
<1>8. \A u \in Threads : /\ pc'[u] = "launch" <=> (pc[u] = "launch" \/ u = t)
                         /\ pc'[u] \in {"commit", "launch"} <=> pc[u] \in {"commit", "launch"}
  BY <1>0, <1>a, <1>1
<1>9. ConfSteps'
  BY <1>0, <1>a, <1>1 DEF IInv, Core, ConfSteps, StepOf
<1>10. PickSound'
  BY <1>0, <1>a, <1>3, <1>8 DEF IInv, Core, PickSound, StepOf
<1>11. EarlyHidden'
  BY <1>0, <1>a, <1>3, <1>6, <1>7, <1>8 DEF IInv, Core, EarlyHidden, PickedBy
<1>12. LaunchSound'
  <2> SUFFICES ASSUME NEW u \in Threads, pc'[u] = "launch"
               PROVE  /\ job'[pick[u].r].status # "waiting"
                      /\ job'[pick[u].r].model = pick[u].model
                      /\ pc'[Runner(pick[u].r)] = "off"
                      /\ \A v \in Threads : pc'[v] = "launch" /\ pick[v].r = pick[u].r => v = u
    BY <1>0 DEF LaunchSound
  <2>1. CASE u = t
    BY <1>0, <1>a, <1>2, <1>3, <1>5, <1>7, <1>8, <2>1
  <2>2. CASE u # t
    <3>1. pc[u] = "launch" /\ pick[u].r \in Requests \ {r}
      BY <1>0, <1>a, <1>5, <1>8, <2>2 DEF IInv, Core, PickSound
    <3> QED BY <1>0, <1>a, <1>3, <1>7, <1>8, <3>1 DEF IInv, Core, LaunchSound
  <2> QED BY <2>1, <2>2
<1>13. RunnerSound'
  BY <1>0, <1>a, <1>2, <1>3, <1>7 DEF IInv, Core, RunnerSound
<1>14. ForwardCount'
  <2>1. \A s \in Requests : CanForward(s)' => CanForward(s)
    BY <1>0, <1>a, <1>3, <1>4, <1>7, <1>8 DEF CanForward
  <2> QED BY <1>0, <2>1 DEF IInv, Core, ForwardCount
<1>15. \A s \in Requests, m \in Models : Holds(s, m)' <=> Holds(s, m) \/ (s = r /\ m = m0)
  <2>1. \A s \in Requests, m \in Models :
          Launching(s, m)' <=> Launching(s, m) \/ (s = r /\ m = m0)
    BY <1>0, <1>a, <1>8 DEF Launching
  <2> QED BY <1>0, <1>a, <1>3, <1>5, <1>7, <2>1 DEF Holds
<1>16. \A m \in Models : ~Holds(r, m)
  BY <1>0, <1>a, <1>5 DEF Holds, Launching
<1>17. /\ SlotHolders(m0)' = SlotHolders(m0) \cup {r} /\ r \notin SlotHolders(m0)
       /\ \A m \in Models \ {m0} : SlotHolders(m)' = SlotHolders(m)
  BY <1>0, <1>a, <1>2, <1>15, <1>16 DEF SlotHolders
<1>18. Cardinality(SlotHolders(m0)') = Cardinality(SlotHolders(m0)) + 1
  BY <1>0, <1>a, <1>2, <1>17, HoldersFinite, FS_AddElement
<1>19. InflightExact'
  BY <1>0, <1>a, <1>2, <1>17, <1>18 DEF IInv, InflightExact, TypeInv, TypeOK, MemoryType
<1>20. CapRespected'
  <2> SUFFICES ASSUME NEW q \in Queues, NEW m \in Models,
                      Cardinality({s \in SlotHolders(m)' : job'[s].queue = q}) > 0
               PROVE  \E c \in Saves[q] : \E i \in DOMAIN c.steps :
                        /\ c.steps[i].model = m
                        /\ Cardinality({s \in SlotHolders(m)' : job'[s].queue = q}) <= c.steps[i].cap
    BY DEF CapRespected
  <2>1. CASE m # m0 \/ q # cur[t]
    <3>1. {s \in SlotHolders(m)' : job'[s].queue = q} = {s \in SlotHolders(m) : job[s].queue = q}
      BY <1>0, <1>a, <1>2, <1>3, <1>17, <2>1 DEF SlotHolders
    <3> QED BY <3>1 DEF IInv, CapRespected
  <2>2. CASE m = m0 /\ q = cur[t]
    <3> DEFINE S == {s \in SlotHolders(m)' : job'[s].queue = q}
    <3>1. Cardinality(S) <= Cardinality(SlotHolders(m0)') /\ Cardinality(S) \in Nat
      <4>1. S \subseteq SlotHolders(m0)' /\ SlotHolders(m0)' \subseteq Requests
        BY <2>2 DEF SlotHolders
      <4> HIDE DEF S
      <4> QED BY <4>1, RequestsAssumption, FS_Subset, FS_CardinalityType
    <3>2. Cardinality(SlotHolders(m0)') <= pick[t].cap /\ pick[t].cap \in Nat
      <4>1. inflight[m0] = Cardinality(SlotHolders(m0)) /\ inflight[m0] \in Nat
        BY <1>0, <1>a, <1>2 DEF IInv, InflightExact, TypeInv, TypeOK, MemoryType
      <4>2. pick[t].cap \in Nat
        BY <1>0 DEF IInv, Core, PickSound
      <4> QED BY <1>0, <1>a, <1>4, <1>18, <4>1, <4>2
    <3>3. PICK c \in Saves[q] : \E i \in DOMAIN c.steps :
            c.steps[i] = [model |-> m0, cap |-> pick[t].cap]
      BY <1>0, <1>a, <2>2 DEF IInv, Core, PickSound, StepOf
    <3>4. PICK i \in DOMAIN c.steps : c.steps[i] = [model |-> m0, cap |-> pick[t].cap]
      BY <3>3
    <3>5. c.steps[i].model = m0 /\ c.steps[i].cap = pick[t].cap
      BY <3>4
    <3>6. Cardinality(S) <= c.steps[i].cap
      <4> HIDE DEF S
      <4>1. Cardinality(SlotHolders(m0)') \in Nat
        BY <1>0, <1>a, <1>2, <1>18, HoldersFinite
      <4> QED BY <3>1, <3>2, <3>5, <4>1
    <3> QED BY <2>2, <3>5, <3>6
  <2> QED BY <2>1, <2>2
<1> QED BY <1>0, <1>a, <1>9, <1>10, <1>11, <1>12, <1>13, <1>14, <1>19, <1>20 DEF IInv, Core

LEMMA SafeCommit ==
  ASSUME IInv, TypeInv', NEW t \in Threads, Commit(t) PROVE IInv'
BY SafeCommitTake, SafeCommitRetry

\* go e.run(wt): the slot passes from the dispatcher to the runner.
LEMMA SafeLaunch ==
  ASSUME IInv, TypeInv', NEW t \in Threads, Launch(t) PROVE IInv'
<1>1. pc[t] = "launch" /\ UNCHANGED <<conf, saving, forwards, inflight, job, waiters, cur, cf>>
  BY DEF Launch, config, client, memory
<1>2. PICK r \in Requests, m0 \in Models :
        r = pick[t].r /\ m0 = pick[t].model
  BY <1>1 DEF IInv, Core, PickSound
<1>3. /\ pc[Runner(r)] = "off" /\ job[r].model = m0 /\ job[r].status # "waiting"
      /\ \A u \in Threads : pc[u] = "launch" /\ pick[u].r = r => u = t
  BY <1>1, <1>2 DEF IInv, Core, LaunchSound
<1>4. \A u \in Threads : pc'[u] = IF u = Runner(r) THEN "forward"
                                  ELSE IF u = t THEN "scan" ELSE pc[u]
  BY <1>2 DEF Launch, IInv, TypeInv, TypeOK, PcType
<1>5. \A u \in Threads \ {t} : pick'[u] = pick[u]
  BY DEF Launch, IInv, TypeInv, TypeOK, LocalType
<1>6. pc[Handler(r)] \notin Early
  BY <1>1, <1>2 DEF IInv, Core, EarlyHidden, PickedBy
<1>7. \A s \in Requests : /\ pc'[Handler(s)] \in Early => pc'[Handler(s)] = pc[Handler(s)]
                          /\ pc'[Runner(s)] # "off" <=> (pc[Runner(s)] # "off" \/ s = r)
                          /\ pc'[Runner(s)] \in {"forward", "finish"}
                               <=> (pc[Runner(s)] \in {"forward", "finish"} \/ s = r)
                          /\ pc'[Runner(s)] = "forward" <=> (pc[Runner(s)] = "forward" \/ s = r)
  BY <1>1, <1>4, ThreadFacts DEF Early
<1>8. \A u \in Threads : /\ pc'[u] = "launch" <=> (pc[u] = "launch" /\ u # t)
                         /\ pc'[u] \in {"commit", "launch"} => u # t /\ pc'[u] = pc[u]
  BY <1>1, <1>3, <1>4
<1>9. ConfSteps'
  <2>1. \A u \in Threads : pc'[u] \in {"scan", "commit", "launch"} =>
          pc[u] \in {"scan", "commit", "launch"}
    BY <1>1, <1>4
  <2> QED BY <1>1, <2>1 DEF IInv, Core, ConfSteps, StepOf
<1>10. PickSound'
  BY <1>1, <1>5, <1>8 DEF IInv, Core, PickSound, StepOf
<1>11. EarlyHidden'
  BY <1>1, <1>5, <1>6, <1>7, <1>8 DEF IInv, Core, EarlyHidden, PickedBy
<1>12. LaunchSound'
  <2> SUFFICES ASSUME NEW u \in Threads, pc'[u] = "launch"
               PROVE  /\ job[pick'[u].r].status # "waiting"
                      /\ job[pick'[u].r].model = pick'[u].model
                      /\ pc'[Runner(pick'[u].r)] = "off"
                      /\ \A v \in Threads : pc'[v] = "launch" /\ pick'[v].r = pick'[u].r => v = u
    BY <1>1 DEF LaunchSound
  <2>1. u # t /\ pc[u] = "launch" /\ pick'[u] = pick[u] /\ pick[u].r \in Requests
    BY <1>5, <1>8 DEF IInv, Core, PickSound
  <2>2. pick[u].r # r
    BY <1>3, <2>1
  <2> QED BY <1>5, <1>7, <1>8, <2>1, <2>2 DEF IInv, Core, LaunchSound
<1>13. RunnerSound'
  BY <1>1, <1>3, <1>7 DEF IInv, Core, RunnerSound
<1>14. ForwardCount'
  <2>1. \A s \in Requests : CanForward(s)' => CanForward(s)
    BY <1>1, <1>2, <1>5, <1>7, <1>8 DEF CanForward
  <2> QED BY <1>1, <2>1 DEF IInv, Core, ForwardCount
<1>15. \A s \in Requests, m \in Models : Holds(s, m)' <=> Holds(s, m)
  <2>1. \A s \in Requests, m \in Models : s # r => (Launching(s, m)' <=> Launching(s, m))
    BY <1>2, <1>5, <1>8 DEF Launching
  <2>2. \A m \in Models : ~Launching(r, m)' /\ (Launching(r, m) <=> m = m0)
    BY <1>1, <1>2, <1>3, <1>5, <1>8 DEF Launching
  <2> QED BY <1>1, <1>3, <1>7, <2>1, <2>2 DEF Holds
<1>16. InflightExact' /\ CapRespected'
  BY <1>1, <1>15, SlotFrame DEF IInv
<1> QED BY <1>9, <1>10, <1>11, <1>12, <1>13, <1>14, <1>16 DEF IInv, Core

(***************************************************************************)
(* run, finish and the direct forward of an overflow.                      *)
(***************************************************************************)
LEMMA SafeRun ==
  ASSUME IInv, TypeInv', NEW r \in Requests, Run(r) PROVE IInv'
<1>1. /\ pc[Runner(r)] = "forward"
      /\ UNCHANGED <<conf, saving, inflight, waiters, cur, cf, pick>>
  BY DEF Run, config, local
<1>2. \A u \in Threads : pc'[u] = IF u = Runner(r) THEN "finish" ELSE pc[u]
  BY DEF Run, Goto, IInv, TypeInv, TypeOK, PcType
<1>3. /\ \A s \in Requests \ {r} : job'[s] = job[s] /\ forwards'[s] = forwards[s]
      /\ job'[r].queue = job[r].queue /\ job'[r].model = job[r].model
      /\ job'[r].status = "ended" /\ forwards'[r] = forwards[r] + 1
  BY DEF Run, IInv, TypeInv, TypeOK, MemoryType, ClientType, Job
<1>4. forwards[r] = 0
  BY <1>1 DEF IInv, Core, ForwardCount, CanForward
<1>5. pc[Handler(r)] \notin Early /\ \A u \in Threads : ~(pc[u] = "launch" /\ pick[u].r = r)
  BY <1>1 DEF IInv, Core, EarlyHidden, LaunchSound
<1>6. /\ \A s \in Requests : pc'[Handler(s)] = pc[Handler(s)]
      /\ \A s \in Requests : pc'[Runner(s)] = IF s = r THEN "finish" ELSE pc[Runner(s)]
      /\ \A u \in Threads : /\ pc'[u] \in {"scan", "commit", "launch"}
                                 <=> pc[u] \in {"scan", "commit", "launch"}
                            /\ pc[u] \in {"scan", "commit", "launch"} => pc'[u] = pc[u]
  BY <1>1, <1>2, ThreadFacts
<1>7. ConfSteps'
  BY <1>1, <1>6 DEF IInv, Core, ConfSteps, StepOf
<1>8. PickSound'
  BY <1>1, <1>3, <1>6 DEF IInv, Core, PickSound, StepOf
<1>9. EarlyHidden'
  BY <1>1, <1>3, <1>5, <1>6 DEF IInv, Core, EarlyHidden, PickedBy
<1>10. LaunchSound'
  <2> SUFFICES ASSUME NEW u \in Threads, pc'[u] = "launch"
               PROVE  /\ job'[pick[u].r].status # "waiting"
                      /\ job'[pick[u].r].model = pick[u].model
                      /\ pc'[Runner(pick[u].r)] = "off"
                      /\ \A v \in Threads : pc'[v] = "launch" /\ pick[v].r = pick[u].r => v = u
    BY <1>1 DEF LaunchSound
  <2>1. pc[u] = "launch" /\ pick[u].r \in Requests \ {r}
    BY <1>5, <1>6 DEF IInv, Core, PickSound
  <2> QED BY <1>3, <1>6, <2>1 DEF IInv, Core, LaunchSound
<1>11. RunnerSound'
  BY <1>1, <1>3, <1>6 DEF IInv, Core, RunnerSound
<1>12. ForwardCount'
  <2>1. ~CanForward(r)'
    BY <1>1, <1>3, <1>5, <1>6 DEF CanForward
  <2>2. \A s \in Requests \ {r} : CanForward(s)' => CanForward(s)
    BY <1>1, <1>3, <1>6 DEF CanForward
  <2> QED BY <1>3, <1>4, <2>1, <2>2 DEF IInv, Core, ForwardCount
<1>13. \A s \in Requests, m \in Models : Holds(s, m)' <=> Holds(s, m)
  <2>1. \A s \in Requests, m \in Models : Launching(s, m)' <=> Launching(s, m)
    BY <1>1, <1>6 DEF Launching
  <2> QED BY <1>1, <1>3, <1>6, <2>1 DEF Holds
<1>14. InflightExact' /\ CapRespected'
  BY <1>1, <1>3, <1>13, SlotFrame DEF IInv
<1> QED BY <1>7, <1>8, <1>9, <1>10, <1>11, <1>12, <1>14 DEF IInv, Core

LEMMA SafeDirect ==
  ASSUME IInv, TypeInv', NEW r \in Requests, Direct(r) PROVE IInv'
<1>1. /\ pc[Handler(r)] = "direct"
      /\ UNCHANGED <<conf, saving, inflight, job, waiters, cur, cf, pick>>
  BY DEF Direct, config, local, memory
<1>2. PICK l \in {"returned", "unwind"} :
        \A u \in Threads : pc'[u] = IF u = Handler(r) THEN l ELSE pc[u]
  BY DEF Direct, Return, Goto, IInv, TypeInv, TypeOK, PcType
<1>3. /\ \A s \in Requests \ {r} : forwards'[s] = forwards[s]
      /\ forwards'[r] = forwards[r] + 1
  BY DEF Direct, IInv, TypeInv, TypeOK, ClientType
<1>4. pc[Handler(r)] \in Early /\ l \notin Early
  BY <1>1 DEF Early
<1>5. /\ forwards[r] = 0 /\ pc[Runner(r)] = "off" /\ job[r].status # "waiting"
      /\ \A u \in Threads : ~(pc[u] = "launch" /\ pick[u].r = r)
  BY <1>1, <1>4 DEF IInv, Core, ForwardCount, CanForward, EarlyHidden, PickedBy
<1>6. /\ \A s \in Requests : pc'[Runner(s)] = pc[Runner(s)]
      /\ \A s \in Requests : pc'[Handler(s)] \in Early => s # r /\ pc'[Handler(s)] = pc[Handler(s)]
      /\ \A u \in Threads : /\ pc'[u] \in {"scan", "commit", "launch"}
                                 <=> pc[u] \in {"scan", "commit", "launch"}
                            /\ pc[u] \in {"scan", "commit", "launch"} => pc'[u] = pc[u]
  BY <1>1, <1>2, <1>4, ThreadFacts
<1>7. ConfSteps'
  BY <1>1, <1>6 DEF IInv, Core, ConfSteps, StepOf
<1>8. PickSound' /\ LaunchSound' /\ RunnerSound'
  <2>1. PickSound'
    BY <1>1, <1>6 DEF IInv, Core, PickSound, StepOf
  <2>2. \A u \in Threads : pc'[u] = "launch" <=> pc[u] = "launch"
    BY <1>6
  <2>3. LaunchSound'
    BY <1>1, <1>6, <2>2 DEF IInv, Core, LaunchSound, PickSound
  <2>4. RunnerSound'
    BY <1>1, <1>6 DEF IInv, Core, RunnerSound
  <2> QED BY <2>1, <2>3, <2>4
<1>9. EarlyHidden'
  BY <1>1, <1>6 DEF IInv, Core, EarlyHidden, PickedBy
<1>10. ForwardCount'
  <2>1. ~CanForward(r)'
    BY <1>1, <1>5, <1>6 DEF CanForward
  <2>2. \A s \in Requests \ {r} : CanForward(s)' => CanForward(s)
    BY <1>1, <1>6 DEF CanForward
  <2> QED BY <1>3, <1>5, <2>1, <2>2 DEF IInv, Core, ForwardCount
<1>11. \A s \in Requests, m \in Models : Holds(s, m)' <=> Holds(s, m)
  <2>1. \A s \in Requests, m \in Models : Launching(s, m)' <=> Launching(s, m)
    BY <1>1, <1>6 DEF Launching
  <2> QED BY <1>1, <1>6, <2>1 DEF Holds
<1>12. InflightExact' /\ CapRespected'
  BY <1>1, <1>11, SlotFrame DEF IInv
<1> QED BY <1>7, <1>8, <1>9, <1>10, <1>12 DEF IInv, Core

\* finish gives back the slot its request holds, and only that one.
LEMMA SafeFinish ==
  ASSUME IInv, TypeInv', NEW r \in Requests, Finish(r) PROVE IInv'
<1>1. /\ pc[Runner(r)] = "finish" /\ waiters' \subseteq waiters
      /\ UNCHANGED <<conf, saving, forwards, job, cur, cf, pick>>
      /\ inflight' = Release(job[r].model)
  BY DEF Finish, config, client, local
<1>2. \A u \in Threads : pc'[u] = IF u = Runner(r) THEN "store" ELSE pc[u]
  BY DEF Finish, Goto, IInv, TypeInv, TypeOK, PcType
<1>3. PICK m0 \in Models : m0 = job[r].model
  BY <1>1 DEF IInv, Core, RunnerSound
<1>4. \A u \in Threads : ~(pc[u] = "launch" /\ pick[u].r = r)
  BY <1>1 DEF IInv, Core, LaunchSound
<1>5. /\ \A s \in Requests : pc'[Handler(s)] = pc[Handler(s)]
      /\ \A s \in Requests : pc'[Runner(s)] = IF s = r THEN "store" ELSE pc[Runner(s)]
      /\ \A u \in Threads : /\ pc'[u] \in {"scan", "commit", "launch"}
                                 <=> pc[u] \in {"scan", "commit", "launch"}
                            /\ pc[u] \in {"scan", "commit", "launch"} => pc'[u] = pc[u]
  BY <1>1, <1>2, ThreadFacts
<1>6. ConfSteps' /\ PickSound' /\ RunnerSound'
  <2>1. ConfSteps'
    BY <1>1, <1>5 DEF IInv, Core, ConfSteps, StepOf
  <2>2. PickSound'
    BY <1>1, <1>5 DEF IInv, Core, PickSound, StepOf
  <2>3. RunnerSound'
    BY <1>1, <1>5 DEF IInv, Core, RunnerSound
  <2> QED BY <2>1, <2>2, <2>3
<1>7. EarlyHidden'
  BY <1>1, <1>5 DEF IInv, Core, EarlyHidden, PickedBy
<1>8. LaunchSound'
  <2> SUFFICES ASSUME NEW u \in Threads, pc'[u] = "launch"
               PROVE  /\ job[pick[u].r].status # "waiting"
                      /\ job[pick[u].r].model = pick[u].model
                      /\ pc'[Runner(pick[u].r)] = "off"
                      /\ \A v \in Threads : pc'[v] = "launch" /\ pick[v].r = pick[u].r => v = u
    BY <1>1 DEF LaunchSound
  <2>1. pc[u] = "launch" /\ pick[u].r \in Requests \ {r}
    BY <1>4, <1>5 DEF IInv, Core, PickSound
  <2> QED BY <1>5, <2>1 DEF IInv, Core, LaunchSound
<1>9. ForwardCount'
  <2>1. \A s \in Requests : CanForward(s)' => CanForward(s)
    BY <1>1, <1>5 DEF CanForward
  <2> QED BY <1>1, <2>1 DEF IInv, Core, ForwardCount
<1>10. \A s \in Requests, m \in Models : Holds(s, m)' <=> Holds(s, m) /\ s # r
  <2>1. \A s \in Requests, m \in Models : Launching(s, m)' <=> Launching(s, m)
    BY <1>1, <1>5 DEF Launching
  <2>2. \A m \in Models : ~Launching(r, m)
    BY <1>4 DEF Launching
  <2> QED BY <1>1, <1>5, <2>1, <2>2 DEF Holds
<1>11. \A m \in Models : Holds(r, m) <=> m = m0
  BY <1>1, <1>3, <1>4 DEF Holds, Launching
<1>12. /\ \A m \in Models : SlotHolders(m)' = SlotHolders(m) \ {r}
       /\ r \in SlotHolders(m0) /\ \A m \in Models \ {m0} : SlotHolders(m)' = SlotHolders(m)
  BY <1>10, <1>11 DEF SlotHolders
<1>13. Cardinality(SlotHolders(m0)') = Cardinality(SlotHolders(m0)) - 1
  BY <1>12, HoldersFinite, FS_RemoveElement
<1>14. inflight[m0] = Cardinality(SlotHolders(m0)) /\ inflight[m0] > 0 /\ inflight \in [Models -> Nat]
  <2>1. inflight[m0] = Cardinality(SlotHolders(m0)) /\ inflight \in [Models -> Nat]
    BY DEF IInv, InflightExact, TypeInv, TypeOK, MemoryType
  <2>2. Cardinality(SlotHolders(m0)) # 0
    BY <1>12, HoldersFinite, FS_EmptySet
  <2> QED BY <2>1, <2>2
<1>15. inflight' = [inflight EXCEPT ![m0] = @ - 1]
  BY <1>1, <1>3, <1>14, ModelsAssumption DEF Release
<1>16. InflightExact'
  BY <1>12, <1>13, <1>14, <1>15 DEF IInv, InflightExact
<1>17. CapRespected'
  <2> SUFFICES ASSUME NEW q \in Queues, NEW m \in Models,
                      Cardinality({s \in SlotHolders(m)' : job[s].queue = q}) > 0
               PROVE  \E c \in Saves[q] : \E i \in DOMAIN c.steps :
                        /\ c.steps[i].model = m
                        /\ Cardinality({s \in SlotHolders(m)' : job[s].queue = q}) <= c.steps[i].cap
    BY <1>1 DEF CapRespected
  <2> DEFINE S == {s \in SlotHolders(m) : job[s].queue = q}
             T == {s \in SlotHolders(m)' : job[s].queue = q}
  <2>1. T \subseteq S /\ S \subseteq SlotHolders(m)
    BY <1>12
  <2> HIDE DEF S, T
  <2>2. /\ IsFiniteSet(S) /\ Cardinality(S) \in Nat /\ Cardinality(T) \in Nat
        /\ Cardinality(T) <= Cardinality(S)
    BY <2>1, HoldersFinite, FS_Subset, FS_CardinalityType
  <2>3. Cardinality(T) > 0
    BY DEF T
  <2>4. Cardinality(S) > 0
    BY <2>2, <2>3
  <2>5. PICK c \in Saves[q] : \E i \in DOMAIN c.steps :
          c.steps[i].model = m /\ Cardinality(S) <= c.steps[i].cap
    BY <2>4 DEF IInv, CapRespected, S
  <2>6. PICK i \in DOMAIN c.steps : c.steps[i].model = m /\ Cardinality(S) <= c.steps[i].cap
    BY <2>5
  <2>7. c.steps[i].cap \in Nat
    <3>1. c.steps \in Seq(Step)
      BY ConfAssumption DEF Config
    <3>2. c.steps[i] \in Step
      BY <3>1
    <3> QED BY <3>2 DEF Step
  <2>8. Cardinality(T) <= c.steps[i].cap
    BY <2>2, <2>6, <2>7
  <2> QED BY <2>6, <2>8 DEF T
<1> QED BY <1>6, <1>7, <1>8, <1>9, <1>16, <1>17 DEF IInv, Core

(***************************************************************************)
(* The environment.                                                        *)
(***************************************************************************)
\* Steps that change nothing the goroutines share but the configuration.
LEMMA SafeConfig ==
  ASSUME IInv, TypeInv', ConfSteps',
         UNCHANGED <<forwards, inflight, job, waiters, cur, cf, pick, pc>>
  PROVE  IInv'
<1>1. PickSound' /\ EarlyHidden'
  BY DEF IInv, Core, PickSound, EarlyHidden, PickedBy, StepOf
<1>2. LaunchSound' /\ RunnerSound'
  BY DEF IInv, Core, LaunchSound, RunnerSound
<1>3. ForwardCount'
  BY DEF IInv, Core, ForwardCount, CanForward
<1>4. \A s \in Requests, m \in Models : Holds(s, m)' <=> Holds(s, m)
  BY DEF Holds, Launching
<1>5. InflightExact' /\ CapRespected'
  BY <1>4, SlotFrame DEF IInv
<1> QED BY <1>1, <1>2, <1>3, <1>5 DEF IInv, Core

LEMMA SafeAdmin ==
  ASSUME IInv, TypeInv', AdminStep PROVE IInv'
<1>1. UNCHANGED <<forwards, inflight, job, waiters, cur, cf, pick, pc>>
  BY DEF AdminStep, SaveStep, SaveQueue, DeleteQueue, memory, client, local
<1>2. ConfigType
  BY DEF IInv, TypeInv, TypeOK
<1>3. \A u \in Threads : pc'[u] \in {"scan", "commit", "launch"} =>
        \A i \in DOMAIN cf'[u].steps : StepOf(cur[u], cf'[u].steps[i])
  BY <1>1 DEF IInv, Core, ConfSteps
<1>4. CASE SaveStep
  <2>1. CASE /\ saving.todo # << >> /\ saving' = [saving EXCEPT !.todo = Tail(@)]
             /\ conf' = [conf EXCEPT ![saving.queue].steps = Append(@, Head(saving.todo))]
    <3> DEFINE q0 == saving.queue
               old == conf[q0].steps
    <3>1. /\ conf' = [conf EXCEPT ![q0].steps = Append(@, Head(saving.todo))]
          /\ saving' = [saving EXCEPT !.todo = Tail(@)]
      BY <2>1
    <3>2. q0 \in Queues /\ old \in Seq(Step) /\ saving.todo \in Seq(Step)
      BY <1>2 DEF ConfigType, Config
    <3>3. \A q \in Queues \ {q0} : conf'[q] = conf[q]
      BY <1>2, <3>1 DEF ConfigType
    <3>4. conf'[q0].steps = Append(old, Head(saving.todo))
      BY <1>2, <3>1, <3>2 DEF ConfigType, Config
    <3>5. StepOf(q0, Head(saving.todo))
      BY <2>1, <3>2 DEF IInv, Core, ConfSteps
    <3>6. \A i \in DOMAIN conf'[q0].steps : StepOf(q0, conf'[q0].steps[i])
      <4>1. \A i \in DOMAIN old : StepOf(q0, old[i])
        BY <3>2 DEF IInv, Core, ConfSteps
      <4>2. /\ DOMAIN conf'[q0].steps = 1 .. Len(old) + 1
            /\ conf'[q0].steps[Len(old) + 1] = Head(saving.todo)
            /\ \A i \in 1 .. Len(old) : i \in DOMAIN old /\ conf'[q0].steps[i] = old[i]
        BY <2>1, <3>2, <3>4
      <4> HIDE DEF q0, old
      <4>3. Len(old) \in Nat
        BY <3>2
      <4> QED BY <3>5, <4>1, <4>2, <4>3
    <3>7. saving'.queue = q0 /\ saving'.todo = Tail(saving.todo)
      BY <1>2, <3>1 DEF ConfigType
    <3>8. \A i \in DOMAIN saving'.todo : StepOf(q0, saving'.todo[i])
      <4>1. \A i \in DOMAIN Tail(saving.todo) :
              i + 1 \in DOMAIN saving.todo /\ Tail(saving.todo)[i] = saving.todo[i + 1]
        BY <2>1, <3>2
      <4>2. \A i \in DOMAIN saving.todo : StepOf(q0, saving.todo[i])
        BY DEF IInv, Core, ConfSteps
      <4> QED BY <3>7, <4>1, <4>2
    <3>9. \A q \in Queues : \A i \in DOMAIN conf'[q].steps : StepOf(q, conf'[q].steps[i])
      BY <3>3, <3>6 DEF IInv, Core, ConfSteps
    <3> QED BY <1>1, <1>3, <3>7, <3>8, <3>9, SafeConfig DEF ConfSteps, StepOf
  <2>2. CASE UNCHANGED conf /\ saving' = [saving EXCEPT !.on = FALSE]
    <3>1. saving'.queue = saving.queue /\ saving'.todo = saving.todo
      BY <1>2, <2>2 DEF ConfigType
    <3>2. ConfSteps'
      BY <1>1, <2>2, <3>1 DEF IInv, Core, ConfSteps, StepOf
    <3> QED BY <1>1, <3>2, SafeConfig
  <2>3. CASE /\ conf' = [conf EXCEPT ![saving.queue].steps = << >>]
             /\ saving' = [saving EXCEPT !.wiped = TRUE]
    <3> DEFINE q0 == saving.queue
    <3>1. saving'.queue = q0 /\ saving'.todo = saving.todo /\ q0 \in Queues
      BY <1>2, <2>3 DEF ConfigType
    <3>2. conf'[q0].steps = << >> /\ \A q \in Queues \ {q0} : conf'[q] = conf[q]
      BY <1>2, <2>3, <3>1 DEF ConfigType, Config
    <3>3. \A q \in Queues : \A i \in DOMAIN conf'[q].steps : StepOf(q, conf'[q].steps[i])
      BY <3>2 DEF IInv, Core, ConfSteps
    <3>4. \A i \in DOMAIN saving'.todo : StepOf(saving'.queue, saving'.todo[i])
      BY <3>1 DEF IInv, Core, ConfSteps
    <3> QED BY <1>1, <1>3, <3>3, <3>4, SafeConfig DEF ConfSteps, StepOf
  <2> QED BY <1>4, <2>1, <2>2, <2>3 DEF SaveStep
<1>5. ASSUME NEW q \in Queues, SaveQueue(q) PROVE IInv'
  <2>1. PICK c \in Saves[q] : /\ conf' = [conf EXCEPT ![q] = [c EXCEPT !.steps = conf[q].steps]]
                              /\ saving' = [on |-> TRUE, wiped |-> FALSE, queue |-> q, todo |-> c.steps]
    BY <1>5 DEF SaveQueue
  <2>2. c \in Config
    BY ConfAssumption
  <2>3. conf'[q].steps = conf[q].steps /\ \A p \in Queues \ {q} : conf'[p] = conf[p]
    BY <1>2, <2>1, <2>2 DEF ConfigType, Config
  <2>4. saving'.queue = q /\ \A i \in DOMAIN saving'.todo : StepOf(q, saving'.todo[i])
    BY <2>1 DEF StepOf
  <2>5. \A p \in Queues : \A i \in DOMAIN conf'[p].steps : StepOf(p, conf'[p].steps[i])
    BY <2>3 DEF IInv, Core, ConfSteps
  <2> QED BY <1>1, <1>3, <2>4, <2>5, SafeConfig DEF ConfSteps, StepOf
<1>6. ASSUME NEW q \in Queues, DeleteQueue(q) PROVE IInv'
  <2>1. conf' = [conf EXCEPT ![q] = NoConf] /\ UNCHANGED saving
    BY <1>6 DEF DeleteQueue
  <2>2. conf'[q].steps = << >> /\ \A p \in Queues \ {q} : conf'[p] = conf[p]
    BY <1>2, <2>1 DEF ConfigType, NoConf
  <2>3. \A p \in Queues : \A i \in DOMAIN conf'[p].steps : StepOf(p, conf'[p].steps[i])
    BY <2>2 DEF IInv, Core, ConfSteps
  <2>4. \A i \in DOMAIN saving.todo : StepOf(saving.queue, saving.todo[i])
    BY DEF IInv, Core, ConfSteps
  <2> QED BY <1>1, <1>3, <2>1, <2>3, <2>4, SafeConfig DEF ConfSteps, StepOf
<1> QED BY <1>4, <1>5, <1>6 DEF AdminStep

LEMMA SafeListQueues ==
  ASSUME IInv, TypeInv', ListQueues PROVE IInv'
<1>1. /\ pc[Loop] = "list" /\ UNCHANGED <<config, memory, client, cf, pick>>
      /\ Goto(Loop, "stats") \/ Goto(Loop, "get")
      /\ \A u \in Threads \ {Loop} : cur'[u] = cur[u]
  BY DEF ListQueues, NextQueue, IInv, TypeInv, TypeOK, LocalType
<1>2. PICK l \in {"stats", "get"} : Goto(Loop, l)
  BY <1>1
<1>3. \A s \in Requests : KeepsJob(s)
  BY <1>1 DEF KeepsJob, memory
<1>4. l \notin Chosen
  BY DEF Chosen
<1>5. Quiet(Loop, l)
  BY <1>1, <1>2, <1>3, <1>4, ThreadFacts DEF Quiet, config, memory, client
<1> QED BY <1>5, QuietStep, ThreadFacts

LEMMA SafeRestart ==
  ASSUME IInv, TypeInv', Restart PROVE IInv'
<1>1. /\ UNCHANGED <<conf, forwards, cur, cf>> /\ waiters' = {}
      /\ saving' = [saving EXCEPT !.on = FALSE, !.todo = << >>]
  BY DEF Restart, client
<1>2. /\ \A r \in Requests : pc'[Handler(r)] \in Early =>
           pc[Handler(r)] = "arrive" /\ pc'[Handler(r)] = "arrive"
      /\ \A r \in Requests : pc'[Runner(r)] = "off"
      /\ \A t \in Threads : pc'[t] \in {"arrive", "returned", "lost", "off", "stats"}
  BY ThreadFacts DEF Restart, Early
<1>3. /\ \A r \in Requests : job'[r].status = "none"
      /\ \A m \in Models : inflight'[m] = 0
  BY DEF Restart, IInv, TypeInv, TypeOK, MemoryType, Job
<1>4. ConfSteps'
  <2>1. saving'.todo = << >>
    BY <1>1 DEF IInv, TypeInv, TypeOK, ConfigType
  <2> QED BY <1>1, <1>2, <2>1 DEF IInv, Core, ConfSteps, StepOf
<1>5. PickSound' /\ EarlyHidden' /\ LaunchSound' /\ RunnerSound'
  BY <1>1, <1>2, <1>3 DEF PickSound, EarlyHidden, LaunchSound, RunnerSound, PickedBy
<1>6. ForwardCount'
  <2>1. "arrive" \in Early
    BY DEF Early
  <2>2. \A s \in Requests : CanForward(s)' => CanForward(s)
    BY <1>2, <1>3, <2>1 DEF CanForward
  <2> QED BY <1>1, <2>2 DEF IInv, Core, ForwardCount
<1>7. \A m \in Models : SlotHolders(m)' = {}
  BY <1>2 DEF SlotHolders, Holds, Launching
<1>8. InflightExact'
  BY <1>3, <1>7, FS_EmptySet DEF InflightExact
<1>9. CapRespected'
  <2>1. \A q \in Queues, m \in Models : {r \in SlotHolders(m)' : job'[r].queue = q} = {}
    BY <1>7
  <2> QED BY <2>1, FS_EmptySet DEF CapRespected
<1> QED BY <1>4, <1>5, <1>6, <1>8, <1>9 DEF IInv, Core

-----------------------------------------------------------------------------
\* One step per action of Next.
LEMMA SafeStep == IInv /\ [Next]_vars => IInv'
<1> SUFFICES ASSUME IInv, [Next]_vars PROVE IInv'
  OBVIOUS
<1>1. TypeInv'
  BY TypeStep DEF IInv
<1>2. ASSUME NEW t \in Threads, DispatchStep(t) PROVE IInv'
  BY <1>1, <1>2, SafeGetQueue, SafeScan, SafeCommit, SafeLaunch DEF DispatchStep
<1>3. ASSUME NEW r \in Requests, HandlerStep(r) \/ Timeout(r) PROVE IInv'
  <2>1. Handler(r) \in Threads /\ Handler(r) \in Purgers
    BY ThreadFacts DEF Purgers
  <2> QED BY <1>1, <1>2, <1>3, <2>1, SafeEnter, SafePurge, SafePlain, SafeDirect,
       SafeTimeoutDrop, SafeReadSeq, SafeRegister DEF HandlerStep
<1>4. ASSUME NEW r \in Requests, RunnerStep(r) PROVE IInv'
  BY <1>1, <1>2, <1>4, SafeRun, SafeFinish, SafeFinishSave, ThreadFacts DEF RunnerStep
<1>5. CASE LoopStep
  <2>1. Loop \in Threads /\ Loop \in Purgers
    BY ThreadFacts DEF Purgers
  <2> QED BY <1>1, <1>2, <1>5, <2>1, SafePurge, SafeListQueues DEF LoopStep
<1>6. ASSUME (\E m \in Models : Health(m)) \/ UNCHANGED vars PROVE IInv'
  <2>1. UNCHANGED <<config, memory, client, local, pc>>
    BY <1>6 DEF Health, vars
  <2>2. UNCHANGED <<conf, saving, forwards, inflight, job, waiters, cur, cf, pick, pc>>
    BY <2>1 DEF config, memory, client, local
  <2>3. ConfSteps'
    BY <2>2 DEF IInv, Core, ConfSteps, StepOf
  <2> QED BY <1>1, <2>2, <2>3, SafeConfig
<1> QED BY <1>1, <1>3, <1>4, <1>5, <1>6, SafeAdmin, SafeRestart DEF Next

LEMMA Safe == Spec => []IInv
BY InitSafe, SafeStep, PTL DEF Spec

\* Engine.inflight counts exactly the requests that hold a slot, so the "> 0"
\* guard of finish never hides a slot given back twice, and none leaks.
THEOREM SlotsExact == Spec => []InflightExact
<1>1. IInv => InflightExact
  BY DEF IInv
<1> QED BY <1>1, Safe, PTL

\* However many goroutines dispatch at once and however often the queue is
\* edited, a queue never runs more requests on a model than some configuration
\* of it allows: the re-check under the lock (dispatch) is enough.
THEOREM CapsHold == Spec => []CapRespected
<1>1. IInv => CapRespected
  BY DEF IInv
<1> QED BY <1>1, Safe, PTL

\* A request reaches Router.Forward at most once: deadlines, purges, overflows
\* and restarts included.
THEOREM AtMostOnce == Spec => []ForwardedOnce
<1>1. IInv => ForwardedOnce
  BY DEF IInv, Core, ForwardCount, ForwardedOnce
<1> QED BY <1>1, Safe, PTL
=============================================================================
