--------------------------- MODULE QueueRowProofs ---------------------------
(***************************************************************************)
(* The rows of queue_jobs, the order of the queue and the answers clients  *)
(* get, proved of QueueEngine under the same assumptions as the slots.     *)
(***************************************************************************)
EXTENDS QueueSafetyProofs

(***************************************************************************)
(* The rows, the order and the answers.  Beyond the slots, an invariant    *)
(* about the life of a waiter: it is in the map only while its handler     *)
(* waits and its done channel is open; dropWaiter's victim has left the    *)
(* map; whoever writes a final row or closes done has a final status.      *)
(***************************************************************************)
Final == {"ended", "dropped"}
Waits == {"get", "scan", "commit", "launch", "select", "await", "tdrop"}

WaitersLive ==
  \A r \in waiters : /\ pc[Handler(r)] \in Waits /\ r \notin done
                     /\ pc[Runner(r)] \in Busy
VictimGone ==
  \A t \in Threads : pc[t] \in Dropping =>
    /\ victim[t] \notin waiters /\ pc[Handler(victim[t])] \notin Early
    /\ pc[t] \in {"tmark", "tsave"} => t = Handler(victim[t])
    /\ pc[t] \in {"save", "tsave"} => job[victim[t]].status \in Final
DoneFinal ==
  \A r \in Requests :
    /\ r \in done => pc[Handler(r)] \notin Early /\ job[r].status \in Final
    /\ pc[Runner(r)] \notin {"off", "forward"} => job[r].status \in Final
JobDepth ==
  \A r \in Requests : pc[Handler(r)] \in {"insert", "register"} => job[r].depth = depth[r]
Life == WaitersLive /\ VictimGone /\ DoneFinal /\ JobDepth

\* A row that says waiting or running is the one of its request's job, and
\* somebody is still going to finish it; a waiting job has its row.
Own(r) == \/ pc[Handler(r)] = "register" \/ r \in waiters
          \/ pc[Runner(r)] \in {"forward", "finish", "store"}
          \/ \E t \in Threads : \/ pc[t] = "launch" /\ pick[t].r = r
                                \/ pc[t] \in Dropping /\ victim[t] = r
ActiveSound ==
  faults = 0 => \A r \in Requests, d \in Depths : rows[<<r, d>>].status \in Active =>
    /\ d = job[r].depth
    /\ Own(r)
    /\ pc[Handler(r)] \in Early => pc[Handler(r)] = "register"
WaitRow ==
  \A r \in Requests :
    pc[Handler(r)] = "register" \/ (r \in waiters /\ job[r].status = "waiting") =>
      /\ rows[<<r, job[r].depth>>].status = "waiting"
      /\ rows[<<r, job[r].depth>>].queue = job[r].queue
      /\ rows[<<r, job[r].depth>>].seq = job[r].seq

\* Whoever waited when r read its seq has a smaller one, or waits no more; once
\* dispatch has chosen r, none of them waits.
AheadSound ==
  \A r \in Requests : \A x \in ahead[r] :
    /\ pc[Handler(x)] \notin Early
    /\ job[r].status = "waiting" /\ x \in WaitingOf(job[r].queue) => job[x].seq < job[r].seq
    /\ \A t \in Threads : pc[t] = "commit" /\ pick[t].r = r => x \notin WaitingOf(job[r].queue)

\* An overflow row that is not finished belongs to an outer handle that is still
\* to be unwound, or to a Forward on its way.
OverflowSound ==
  /\ MaxFaults = 0 => faults = 0
  /\ \A r \in Requests : pc[Handler(r)] = "returned" => depth[r] = 0
  /\ NoFaultEver => \A r \in Requests, d \in Depths :
       rows[<<r, d>>].status = "overflow" /\ ~rows[<<r, d>>].fin =>
         \/ pc[Handler(r)] = "lost" \/ d < depth[r]
         \/ pc[Handler(r)] = "direct" /\ d = depth[r]

\* What has been written, by where the handler is and whether a runner may still
\* write.
Late == Waits \cup {"tmark", "tsave", "t504"}
Startable(r) ==
  \/ job[r].status = "waiting" /\ (r \in waiters \/ \E t \in Threads : PickedBy(t, r))
  \/ \E t \in Threads : pc[t] = "launch" /\ pick[t].r = r
  \/ pc[Runner(r)] = "forward"
Twice == {Append(<<"reply">>, "504"), Append(<<"504">>, "reply")}
Replies == {<< >>} \cup {<<c>> : c \in Codes} \cup Twice
AnswerSound ==
  \A r \in Requests :
    /\ resp[r] \in Replies
    /\ pc[Handler(r)] \in Early => resp[r] = << >>
    /\ pc[Handler(r)] \in Late => resp[r] \in {<< >>, <<"reply">>}
    /\ Startable(r) => resp[r] \in {<< >>, <<"504">>}
    /\ job[r].status = "ended" => resp[r] # << >>
    /\ pc[Handler(r)] \in {"returned", "unwind"} /\ resp[r] = << >>
         => job[r].status = "dropped" \/ crashes > 0

RInv == Life /\ ActiveSound /\ WaitRow /\ AheadSound /\ OverflowSound /\ AnswerSound

-----------------------------------------------------------------------------
(***************************************************************************)
(* A steady step: one goroutine moves, and no job, waiter or choice of     *)
(* another goroutine changes.                                              *)
(***************************************************************************)
Steady(t, l) ==
  /\ Goto(t, l) /\ UNCHANGED <<waiters, done, victim, job, ahead, crashes>>
  /\ \A u \in Threads \ {t} : pick'[u] = pick[u]
  /\ pc[t] \notin Dropping \cup {"launch", "register"}
  /\ l \notin Dropping \cup {"commit", "launch"}
  /\ \A s \in Requests : t = Handler(s) =>
       /\ l \in Early => pc[t] \in Early
       /\ s \in waiters => l \in Waits
       /\ l \in {"insert", "register"} => pc[t] = "insert" /\ l = "register" /\ depth'[s] = depth[s]
       /\ l \in Late => pc[t] \in Late
  /\ \A s \in Requests : t = Runner(s) => pc[t] \notin Busy \cup {"store"} /\ l \notin Busy \cup {"store"}
  /\ \A s \in Requests : t # Handler(s) => depth'[s] = depth[s]

LEMMA SteadyFacts ==
  ASSUME IInv, NEW t \in Threads, NEW l, Steady(t, l)
  PROVE  /\ \A u \in Threads : pc'[u] = IF u = t THEN l ELSE pc[u]
         /\ \A s \in Requests : /\ pc'[Handler(s)] \in Early => pc[Handler(s)] \in Early
                                /\ pc'[Handler(s)] \in Late => pc[Handler(s)] \in Late
                                /\ Own(s) => Own(s)'
                                /\ Startable(s)' => Startable(s)
<1>1. \A u \in Threads : pc'[u] = IF u = t THEN l ELSE pc[u]
  BY DEF Steady, Goto, IInv, TypeInv, TypeOK, PcType
<1>2. \A s \in Requests : /\ pc'[Handler(s)] \in Early => pc[Handler(s)] \in Early
                          /\ pc'[Handler(s)] \in Late => pc[Handler(s)] \in Late
  BY <1>1, ThreadFacts DEF Steady
<1>3. ASSUME NEW s \in Requests, Own(s) PROVE Own(s)'
  <2>1. CASE pc[Handler(s)] = "register"
    BY <1>1, <2>1, ThreadFacts DEF Steady, Own
  <2>2. CASE s \in waiters
    BY <2>2 DEF Steady, Own
  <2>3. CASE pc[Runner(s)] \in {"forward", "finish", "store"}
    BY <1>1, <2>3, ThreadFacts DEF Steady, Own, Busy
  <2>4. CASE \E u \in Threads : \/ pc[u] = "launch" /\ pick[u].r = s
                                \/ pc[u] \in Dropping /\ victim[u] = s
    <3>1. PICK u \in Threads : \/ pc[u] = "launch" /\ pick[u].r = s
                               \/ pc[u] \in Dropping /\ victim[u] = s
      BY <2>4
    <3>2. u # t
      BY <3>1 DEF Steady
    <3> QED BY <1>1, <3>1, <3>2 DEF Steady, Own
  <2> QED BY <1>3, <2>1, <2>2, <2>3, <2>4 DEF Own
<1>4. ASSUME NEW s \in Requests, Startable(s)' PROVE Startable(s)
  <2>1. \A u \in Threads : pc'[u] \in {"commit", "launch"} => /\ u # t /\ pc'[u] = pc[u]
                                                             /\ pick'[u] = pick[u]
    BY <1>1 DEF Steady
  <2>2. pc'[Runner(s)] = "forward" => pc[Runner(s)] = "forward"
    BY <1>1, ThreadFacts DEF Steady, Busy
  <2>3. waiters' = waiters /\ job' = job
    BY DEF Steady
  <2> QED BY <1>4, <2>1, <2>2, <2>3 DEF Startable, PickedBy
<1> QED BY <1>1, <1>2, <1>3, <1>4

LEMMA SteadyLife ==
  ASSUME IInv, Life, NEW t \in Threads, NEW l, Steady(t, l)
  PROVE  Life'
<1>1. \A u \in Threads : pc'[u] = IF u = t THEN l ELSE pc[u]
  BY SteadyFacts
<1>2. \A s \in Requests : pc'[Handler(s)] \in Early => pc[Handler(s)] \in Early
  BY SteadyFacts
<1>3. waiters \subseteq Requests /\ done \subseteq Requests
  BY DEF IInv, TypeInv, TypeOK, MemoryType
<1>4. UNCHANGED <<waiters, done, victim, job>>
  BY DEF Steady
<1>5. WaitersLive'
  BY <1>1, <1>3, <1>4, ThreadFacts DEF Life, WaitersLive, Steady
<1>6. VictimGone'
  <2> SUFFICES ASSUME NEW u \in Threads, pc'[u] \in Dropping
               PROVE  /\ victim[u] \notin waiters /\ pc'[Handler(victim[u])] \notin Early
                      /\ pc'[u] \in {"tmark", "tsave"} => u = Handler(victim[u])
                      /\ pc'[u] \in {"save", "tsave"} => job[victim[u]].status \in Final
    BY <1>4 DEF VictimGone
  <2>1. u # t /\ pc'[u] = pc[u]
    BY <1>1 DEF Steady
  <2>2. victim[u] \in Requests
    BY <2>1 DEF IInv, TypeInv, VictimSound, Dropping
  <2> QED BY <1>2, <2>1, <2>2 DEF Life, VictimGone
<1>7. DoneFinal'
  <2>1. \A s \in Requests : pc'[Runner(s)] \notin {"off", "forward"} => pc[Runner(s)] \notin {"off", "forward"}
    BY <1>1, ThreadFacts DEF Steady, Busy
  <2> QED BY <1>2, <1>4, <2>1 DEF Life, DoneFinal
<1>8. JobDepth'
  <2> SUFFICES ASSUME NEW s \in Requests, pc'[Handler(s)] \in {"insert", "register"}
               PROVE  job[s].depth = depth'[s]
    BY <1>4 DEF JobDepth
  <2>1. CASE t = Handler(s)
    BY <1>1, <2>1, ThreadFacts DEF Life, JobDepth, Steady
  <2>2. CASE t # Handler(s)
    BY <1>1, <2>2, ThreadFacts DEF Life, JobDepth, Steady
  <2> QED BY <2>1, <2>2
<1> QED BY <1>5, <1>6, <1>7, <1>8 DEF Life

LEMMA SteadyAhead ==
  ASSUME IInv, AheadSound, NEW t \in Threads, NEW l, Steady(t, l)
  PROVE  AheadSound'
<1>1. /\ \A u \in Threads : pc'[u] = "commit" => pc[u] = "commit" /\ pick'[u] = pick[u]
      /\ \A s \in Requests : pc'[Handler(s)] \in Early => pc[Handler(s)] \in Early
  BY SteadyFacts DEF Steady
<1>2. UNCHANGED <<waiters, job, ahead>>
  BY DEF Steady
<1>3. \A r \in Requests : ahead[r] \subseteq Requests
  BY DEF IInv, TypeInv, TypeOK, ClientType
<1>4. \A q : WaitingOf(q)' = WaitingOf(q)
  BY <1>2 DEF WaitingOf
<1> QED BY <1>1, <1>2, <1>3, <1>4 DEF AheadSound

-----------------------------------------------------------------------------
(***************************************************************************)
(* What the statements on queue_jobs leave alone.                          *)
(***************************************************************************)
\* No row becomes active, and the rows of those who wait stay as they are.
RowsKept ==
  \A s \in Requests, d \in Depths :
    /\ rows'[<<s, d>>].status \in Active => rows[<<s, d>>].status \in Active
    /\ rows[<<s, d>>].status = "waiting" /\ (s \in waiters \/ pc[Handler(s)] = "register")
         => rows'[<<s, d>>] = rows[<<s, d>>]

NoneOpened ==
  \A s \in Requests, d \in Depths :
    rows'[<<s, d>>].status = "overflow" /\ ~rows'[<<s, d>>].fin
      => rows[<<s, d>>].status = "overflow" /\ ~rows[<<s, d>>].fin

\* No overflow row is opened, and whoever has one to finish stays.
OverflowKept ==
  /\ NoneOpened
  /\ \A s \in Requests : /\ pc[Handler(s)] \in {"lost", "direct"} => pc'[Handler(s)] = pc[Handler(s)]
                         /\ pc'[Handler(s)] = "returned" => depth[s] = 0
  /\ UNCHANGED <<depth, crashes>>

LEMMA FaultFacts ==
  ASSUME IInv, Works \/ Fails
  PROVE  /\ faults' = 0 => faults = 0
         /\ MaxFaults = 0 => faults' = faults
         /\ UNCHANGED crashes => (NoFaultEver' => NoFaultEver)
<1>1. faults \in Nat /\ MaxFaults \in Nat
  BY BoundsAssumption DEF IInv, TypeInv, TypeOK, EnvType
<1> QED BY <1>1 DEF Works, Fails, NoFaultEver

LEMMA OverflowFrame ==
  ASSUME IInv, OverflowSound, Works \/ Fails, OverflowKept
  PROVE  OverflowSound'
<1>1. /\ MaxFaults = 0 => faults' = faults
      /\ NoFaultEver' => NoFaultEver
  BY FaultFacts DEF OverflowKept
<1>2. MaxFaults = 0 => faults' = 0
  BY <1>1 DEF OverflowSound
<1>3. \A r \in Requests : pc'[Handler(r)] = "returned" => depth'[r] = 0
  BY DEF OverflowKept
<1>4. ASSUME NoFaultEver', NEW r \in Requests, NEW d \in Depths,
             rows'[<<r, d>>].status = "overflow", ~rows'[<<r, d>>].fin
      PROVE  \/ pc'[Handler(r)] = "lost" \/ d < depth'[r]
             \/ pc'[Handler(r)] = "direct" /\ d = depth'[r]
  <2>1. rows[<<r, d>>].status = "overflow" /\ ~rows[<<r, d>>].fin
    BY <1>4 DEF OverflowKept, NoneOpened
  <2>2. \/ pc[Handler(r)] = "lost" \/ d < depth[r]
        \/ pc[Handler(r)] = "direct" /\ d = depth[r]
    BY <1>1, <1>4, <2>1 DEF OverflowSound
  <2> QED BY <2>2 DEF OverflowKept
<1> QED BY <1>2, <1>3, <1>4 DEF OverflowSound

\* Nothing is written to a client, and nobody returns without an answer.
AnswerKept ==
  /\ UNCHANGED resp /\ crashes' \in {crashes, crashes + 1}
  /\ \A s \in Requests :
       /\ pc'[Handler(s)] \in Early => pc[Handler(s)] \in Early
       /\ pc'[Handler(s)] \in Late => pc[Handler(s)] \in Late \cup Early
       /\ Startable(s)' => Startable(s) \/ resp[s] = << >>
       /\ job'[s].status = "ended" => job[s].status = "ended"
       /\ pc'[Handler(s)] \in {"returned", "unwind"} =>
            \/ resp[s] # << >> \/ job'[s].status = "dropped" \/ crashes' > 0
            \/ /\ pc[Handler(s)] \in {"returned", "unwind"}
               /\ job[s].status = "dropped" => job'[s].status = "dropped"

LEMMA AnswerFrame ==
  ASSUME IInv, AnswerSound, AnswerKept
  PROVE  AnswerSound'
<1> SUFFICES ASSUME NEW s \in Requests
             PROVE  /\ resp'[s] \in Replies
                    /\ pc'[Handler(s)] \in Early => resp'[s] = << >>
                    /\ pc'[Handler(s)] \in Late => resp'[s] \in {<< >>, <<"reply">>}
                    /\ Startable(s)' => resp'[s] \in {<< >>, <<"504">>}
                    /\ job'[s].status = "ended" => resp'[s] # << >>
                    /\ pc'[Handler(s)] \in {"returned", "unwind"} /\ resp'[s] = << >>
                         => job'[s].status = "dropped" \/ crashes' > 0
  BY DEF AnswerSound, Replies
<1>1. resp'[s] = resp[s] /\ crashes' \in {crashes, crashes + 1} /\ crashes \in Nat
  BY DEF AnswerKept, IInv, TypeInv, TypeOK, EnvType
<1>2. resp[s] \in Replies /\ (pc'[Handler(s)] \in Early => resp[s] = << >>)
  BY DEF AnswerSound, AnswerKept
<1>3. pc'[Handler(s)] \in Late => resp[s] \in {<< >>, <<"reply">>}
  BY DEF AnswerSound, AnswerKept
<1>4. Startable(s)' => resp[s] \in {<< >>, <<"504">>}
  BY DEF AnswerSound, AnswerKept
<1>5. job'[s].status = "ended" => resp[s] # << >>
  BY DEF AnswerSound, AnswerKept
<1>6. ASSUME pc'[Handler(s)] \in {"returned", "unwind"}, resp[s] = << >>
      PROVE  job'[s].status = "dropped" \/ crashes' > 0
  <2>1. \/ job'[s].status = "dropped" \/ crashes' > 0
        \/ /\ pc[Handler(s)] \in {"returned", "unwind"}
           /\ job[s].status = "dropped" => job'[s].status = "dropped"
    BY <1>6 DEF AnswerKept
  <2>2. pc[Handler(s)] \in {"returned", "unwind"} => job[s].status = "dropped" \/ crashes > 0
    BY <1>6 DEF AnswerSound
  <2> QED BY <1>1, <2>1, <2>2
<1> QED BY <1>1, <1>2, <1>3, <1>4, <1>5, <1>6

LEMMA SteadyActive ==
  ASSUME IInv, ActiveSound, NEW t \in Threads, NEW l, Steady(t, l), Works \/ Fails, RowsKept
  PROVE  ActiveSound'
<1> SUFFICES ASSUME faults' = 0, NEW s \in Requests, NEW d \in Depths,
                    rows'[<<s, d>>].status \in Active
             PROVE  /\ d = job'[s].depth /\ Own(s)'
                    /\ pc'[Handler(s)] \in Early => pc'[Handler(s)] = "register"
  BY DEF ActiveSound
<1>1. faults = 0 /\ rows[<<s, d>>].status \in Active
  BY FaultFacts DEF RowsKept
<1>2. d = job[s].depth /\ Own(s) /\ (pc[Handler(s)] \in Early => pc[Handler(s)] = "register")
  BY <1>1 DEF ActiveSound
<1>3. Own(s)' /\ (pc'[Handler(s)] \in Early => pc[Handler(s)] \in Early)
  BY <1>2, SteadyFacts
<1>4. pc[Handler(s)] = "register" => pc'[Handler(s)] = pc[Handler(s)]
  BY SteadyFacts, ThreadFacts DEF Steady
<1> QED BY <1>2, <1>3, <1>4 DEF Steady

LEMMA SteadyWait ==
  ASSUME IInv, WaitRow, NEW t \in Threads, NEW l, Steady(t, l), l # "register", RowsKept
  PROVE  WaitRow'
<1> SUFFICES ASSUME NEW s \in Requests,
                    pc'[Handler(s)] = "register" \/ (s \in waiters' /\ job'[s].status = "waiting")
             PROVE  /\ rows'[<<s, job'[s].depth>>].status = "waiting"
                    /\ rows'[<<s, job'[s].depth>>].queue = job'[s].queue
                    /\ rows'[<<s, job'[s].depth>>].seq = job'[s].seq
  BY DEF WaitRow
<1>1. job' = job /\ waiters' = waiters
  BY DEF Steady
<1>2. pc'[Handler(s)] = "register" => pc[Handler(s)] = "register"
  BY SteadyFacts, ThreadFacts
<1>3. PICK d \in Depths : d = job[s].depth
  BY DEF IInv, TypeInv, TypeOK, MemoryType, Job
<1>4. rows'[<<s, d>>] = rows[<<s, d>>]
  BY <1>1, <1>2, <1>3 DEF WaitRow, RowsKept
<1> QED BY <1>1, <1>2, <1>3, <1>4 DEF WaitRow

LEMMA SteadyAnswer ==
  ASSUME IInv, AnswerSound, NEW t \in Threads, NEW l, Steady(t, l), UNCHANGED resp,
         \A s \in Requests : t = Handler(s) /\ l \in {"returned", "unwind"} =>
           resp[s] # << >> \/ job[s].status = "dropped" \/ pc[t] = "unwind"
  PROVE  AnswerSound'
<1>1. \A s \in Requests : /\ pc'[Handler(s)] \in Early => pc[Handler(s)] \in Early
                          /\ pc'[Handler(s)] \in Late => pc[Handler(s)] \in Late
                          /\ Startable(s)' => Startable(s)
  BY SteadyFacts
<1>2. job' = job /\ crashes' = crashes
  BY DEF Steady
<1>3. \A s \in Requests : t # Handler(s) => pc'[Handler(s)] = pc[Handler(s)]
  BY SteadyFacts, ThreadFacts
<1>4. \A s \in Requests : t = Handler(s) => pc'[Handler(s)] = l
  BY SteadyFacts
<1>5. AnswerKept
  BY <1>1, <1>2, <1>3, <1>4 DEF AnswerKept
<1> QED BY <1>5, AnswerFrame

LEMMA ReplyFacts ==
  /\ \A c \in Codes : Append(<< >>, c) = <<c>> /\ <<c>> \in Replies /\ <<c>> # << >>
  /\ <<"reply">> # <<"504">>
  /\ \A p \in Twice : p \in Replies /\ p # << >> /\ Len(p) = 2
  /\ "reply" \in Codes /\ "504" \in Codes
<1>1. \A c \in Codes : Append(<< >>, c) = <<c>>
  OBVIOUS
<1>2. \A c \in Codes : <<c>> \in Replies
  BY DEF Replies
<1>3. \A c : <<c>> # << >>
  OBVIOUS
<1>4. <<"reply">> \in Seq({"reply", "504"}) /\ <<"504">> \in Seq({"reply", "504"})
  OBVIOUS
<1>5. Len(<<"reply">>) = 1 /\ Len(<<"504">>) = 1
  OBVIOUS
<1>6. <<"reply">> # <<"504">>
  OBVIOUS
<1>7. \A p \in Twice : p # << >> /\ Len(p) = 2
  BY <1>4, <1>5 DEF Twice
<1>8. \A p \in Twice : p \in Replies
  BY DEF Replies
<1>9. "reply" \in Codes /\ "504" \in Codes
  BY DEF Codes
<1> QED BY <1>1, <1>2, <1>3, <1>6, <1>7, <1>8, <1>9

LEMMA TwiceOnly == \A p \in Replies : Len(p) > 1 => p \in Twice
<1>1. \A c \in Codes : Len(<<c>>) = 1
  OBVIOUS
<1>2. Len(<< >>) = 0
  OBVIOUS
<1> SUFFICES ASSUME NEW p \in Replies, Len(p) > 1 PROVE p \in Twice
  OBVIOUS
<1>3. \/ p = << >> \/ p \in Twice
      \/ \E c \in Codes : p = <<c>>
  BY Zenon DEF Replies
<1>4. p # << >>
  BY <1>2
<1>5. ASSUME NEW c \in Codes, p = <<c>> PROVE FALSE
  BY <1>1, <1>5
<1> QED BY <1>3, <1>4, <1>5

\* A handler refuses or is refused: it answers and returns, once.
LEMMA SteadyWrite ==
  ASSUME IInv, AnswerSound, NEW r \in Requests, NEW l \in {"returned", "unwind"},
         Steady(Handler(r), l), NEW code \in Codes, Write(r, code),
         pc[Handler(r)] \in Early \/ (pc[Handler(r)] = "t504" /\ code = "504")
  PROVE  AnswerSound'
<1>0. Handler(r) \in Threads
  BY ThreadFacts
<1>1. \A s \in Requests : /\ pc'[Handler(s)] \in Early => pc[Handler(s)] \in Early
                          /\ pc'[Handler(s)] \in Late => pc[Handler(s)] \in Late
                          /\ Startable(s)' => Startable(s)
  BY <1>0, SteadyFacts
<1>2. job' = job /\ crashes' = crashes
  BY DEF Steady
<1>3. \A s \in Requests \ {r} : pc'[Handler(s)] = pc[Handler(s)]
  BY <1>0, SteadyFacts, ThreadFacts
<1>4. pc'[Handler(r)] = l
  BY <1>0, SteadyFacts, ThreadFacts
<1>5. /\ \A s \in Requests \ {r} : resp'[s] = resp[s]
      /\ resp'[r] = Append(resp[r], code)
  BY DEF Write, IInv, TypeInv, TypeOK, ClientType
<1>6. l \notin Early /\ l \notin Late
  BY DEF Early, Late, Waits
<1>7. ASSUME NEW s \in Requests \ {r}
      PROVE  /\ resp'[s] \in Replies
             /\ pc'[Handler(s)] \in Early => resp'[s] = << >>
             /\ pc'[Handler(s)] \in Late => resp'[s] \in {<< >>, <<"reply">>}
             /\ Startable(s)' => resp'[s] \in {<< >>, <<"504">>}
             /\ job'[s].status = "ended" => resp'[s] # << >>
             /\ pc'[Handler(s)] \in {"returned", "unwind"} /\ resp'[s] = << >>
                  => job'[s].status = "dropped" \/ crashes' > 0
  BY <1>1, <1>2, <1>3, <1>5 DEF AnswerSound
<1>8. /\ resp'[r] \in Replies /\ resp'[r] # << >>
      /\ Startable(r)' => resp'[r] \in {<< >>, <<"504">>}
  <2>1. CASE pc[Handler(r)] \in Early
    <3>1. resp[r] = << >>
      BY <2>1 DEF AnswerSound
    <3>2. resp'[r] = <<code>>
      BY <1>5, <3>1, ReplyFacts
    <3>3. ~Startable(r)
      BY <2>1 DEF IInv, Core, EarlyHidden, Startable, PickedBy
    <3> QED BY <1>1, <3>2, <3>3, ReplyFacts
  <2>2. CASE pc[Handler(r)] = "t504" /\ code = "504"
    <3>1. resp[r] \in {<< >>, <<"reply">>} /\ (Startable(r) => resp[r] \in {<< >>, <<"504">>})
      BY <2>2 DEF AnswerSound, Late
    <3>2. CASE resp[r] = << >>
      <4>1. resp'[r] = <<"504">>
        BY <1>5, <2>2, <3>2, ReplyFacts
      <4> QED BY <4>1, ReplyFacts
    <3>3. CASE resp[r] = <<"reply">>
      <4>1. resp'[r] \in Twice
        BY <1>5, <2>2, <3>3 DEF Twice
      <4>2. ~Startable(r)
        BY <3>1, <3>3, ReplyFacts
      <4> QED BY <1>1, <4>1, <4>2, ReplyFacts
    <3> QED BY <3>1, <3>2, <3>3
  <2> QED BY <2>1, <2>2
<1> QED BY <1>4, <1>6, <1>7, <1>8 DEF AnswerSound, Replies

\* A steady step that opens no overflow row.
LEMMA SteadyStep ==
  ASSUME IInv, RInv, NEW t \in Threads, NEW l, Steady(t, l), l # "register",
         Works \/ Fails, RowsKept, NoneOpened, UNCHANGED depth,
         pc[t] \notin {"lost", "direct"},
         \A s \in Requests : t = Handler(s) /\ l = "returned" => depth[s] = 0,
         AnswerSound'
  PROVE  RInv'
<1>1. Life' /\ AheadSound'
  BY SteadyLife, SteadyAhead DEF RInv
<1>2. ActiveSound' /\ WaitRow'
  BY SteadyActive, SteadyWait DEF RInv
<1>3. OverflowKept
  <2>1. \A u \in Threads : pc'[u] = IF u = t THEN l ELSE pc[u]
    BY SteadyFacts
  <2>2. \A s \in Requests : pc[Handler(s)] = "returned" => depth[s] = 0
    BY DEF RInv, OverflowSound
  <2> QED BY <2>1, <2>2, ThreadFacts DEF OverflowKept, Steady
<1>4. OverflowSound'
  BY <1>3, OverflowFrame DEF RInv
<1> QED BY <1>1, <1>2, <1>4 DEF RInv

LEMMA RowsSame ==
  ASSUME UNCHANGED rows PROVE RowsKept /\ NoneOpened
BY DEF RowsKept, NoneOpened

\* The two ways a handler leaves.
LEMMA ReturnLabel ==
  ASSUME IInv, NEW r \in Requests, Return(r)
  PROVE  \E l \in {"returned", "unwind"} : Goto(Handler(r), l) /\ (l = "returned" => depth[r] = 0)
BY DEF Return

\* What makes a handler's step steady.
LEMMA HandlerSteady ==
  ASSUME IInv, NEW r \in Requests, NEW l, Goto(Handler(r), l),
         UNCHANGED <<memory, victim, pick, ahead, crashes>>,
         pc[Handler(r)] \notin Dropping \cup {"launch", "register"},
         l \notin Dropping \cup {"commit", "launch", "insert"},
         l = "register" => pc[Handler(r)] = "insert" /\ UNCHANGED depth,
         l \in Early => pc[Handler(r)] \in Early,
         r \in waiters => l \in Waits,
         l \in Late => pc[Handler(r)] \in Late,
         \A s \in Requests \ {r} : depth'[s] = depth[s]
  PROVE  Steady(Handler(r), l)
<1>1. \A s \in Requests : Handler(r) = Handler(s) => r = s
  BY ThreadFacts
<1>2. \A s \in Requests : Handler(r) # Runner(s)
  BY ThreadFacts
<1> QED BY <1>1, <1>2 DEF Steady, memory

\* A handler whose request is not registered yet refuses it, or goes on.
Unseen == {"arrive", "enter", "stats", "oldest", "take", "counts", "overflow", "seq", "insert"}

LEMMA UnseenFacts ==
  /\ Unseen \subseteq Early /\ "register" \notin Unseen
  /\ \A l \in Unseen : l \notin Dropping \cup Late \cup {"launch", "register", "lost", "direct", "commit"}
  /\ \A l \in {"returned", "unwind"} :
       l \notin Early \cup Dropping \cup Late \cup {"commit", "launch", "insert", "register"}
BY DEF Unseen, Early, Dropping, Late, Waits

LEMMA RowsRefuse ==
  ASSUME IInv, RInv, NEW r \in Requests, pc[Handler(r)] \in Unseen, Return(r),
         NEW code \in Codes, Write(r, code), Works \/ Fails,
         UNCHANGED <<rows, memory, depth, ahead, victim, pick, crashes>>
  PROVE  RInv'
<1> DEFINE t == Handler(r)
<1>1. t \in Threads /\ pc[t] \in Early
  BY ThreadFacts, UnseenFacts
<1>2. r \notin waiters
  BY <1>1 DEF IInv, Core, EarlyHidden
<1>3. PICK l \in {"returned", "unwind"} : Goto(t, l) /\ (l = "returned" => depth[r] = 0)
  BY ReturnLabel
<1>4. Steady(t, l)
  BY <1>2, <1>3, UnseenFacts, HandlerSteady
<1>5. AnswerSound'
  BY <1>1, <1>4, SteadyWrite DEF RInv
<1>6. \A s \in Requests : t = Handler(s) /\ l = "returned" => depth[s] = 0
  BY <1>3, ThreadFacts
<1> QED BY <1>1, <1>4, <1>5, <1>6, UnseenFacts, RowsSame, SteadyStep

LEMMA RowsGoOn ==
  ASSUME IInv, RInv, NEW r \in Requests, pc[Handler(r)] \in Unseen,
         NEW l \in Unseen \ {"insert"}, Goto(Handler(r), l), Works \/ Fails, RowsKept, NoneOpened,
         UNCHANGED <<resp, memory, depth, ahead, victim, pick, crashes>>
  PROVE  RInv'
<1> DEFINE t == Handler(r)
<1>1. t \in Threads /\ pc[t] \in Early /\ l \in Early
  BY ThreadFacts, UnseenFacts
<1>2. r \notin waiters
  BY <1>1 DEF IInv, Core, EarlyHidden
<1>3. Steady(t, l)
  BY <1>1, <1>2, UnseenFacts, HandlerSteady
<1>4. l \notin {"returned", "unwind"}
  BY UnseenFacts DEF Unseen
<1>5. AnswerSound'
  BY <1>1, <1>3, <1>4, SteadyAnswer DEF RInv
<1> QED BY <1>1, <1>3, <1>4, <1>5, UnseenFacts, SteadyStep

LEMMA RowsEnter ==
  ASSUME IInv, RInv, NEW r \in Requests, Enter(r) PROVE RInv'
<1> DEFINE t == Handler(r)
<1>1. /\ pc[t] \in {"arrive", "enter"}
      /\ UNCHANGED <<rows, memory, depth, ahead, victim, pick, crashes>>
  BY DEF Enter, purge, env
<1>2. Works \/ Fails
  BY DEF Enter
<1>3. \/ Goto(t, "stats") /\ UNCHANGED resp
      \/ Return(r) /\ \E code \in Codes : Write(r, code)
  BY DEF Enter, Codes
<1>4. pc[t] \in Unseen /\ "stats" \in Unseen \ {"insert"}
  BY <1>1 DEF Unseen
<1>5. CASE Goto(t, "stats") /\ UNCHANGED resp
  BY <1>1, <1>2, <1>4, <1>5, RowsSame, RowsGoOn
<1>6. CASE Return(r) /\ \E code \in Codes : Write(r, code)
  BY <1>1, <1>2, <1>4, <1>6, RowsRefuse
<1> QED BY <1>3, <1>5, <1>6

LEMMA RowsCounts ==
  ASSUME IInv, RInv, NEW r \in Requests, Counts(r) PROVE RInv'
<1> DEFINE t == Handler(r)
<1>1. /\ pc[t] = "counts" /\ Works
      /\ UNCHANGED <<rows, memory, depth, ahead, victim, pick, crashes>>
  BY DEF Counts, purge, env, local, Works
<1>2. \/ \E l \in {"overflow", "seq"} : Goto(t, l) /\ UNCHANGED resp
      \/ Return(r) /\ \E code \in Codes : Write(r, code)
  BY DEF Counts, Codes
<1>3. pc[t] \in Unseen /\ {"overflow", "seq"} \subseteq Unseen \ {"insert"}
  BY <1>1 DEF Unseen
<1>4. ASSUME NEW l \in {"overflow", "seq"}, Goto(t, l) /\ UNCHANGED resp PROVE RInv'
  BY <1>1, <1>3, <1>4, RowsSame, RowsGoOn
<1>5. CASE Return(r) /\ \E code \in Codes : Write(r, code)
  BY <1>1, <1>3, <1>5, RowsRefuse
<1> QED BY <1>2, <1>4, <1>5

\* Loop's own steps.
LEMMA RowsLoop ==
  ASSUME IInv, RInv, NEW l \in {"stats", "oldest", "take", "list", "get"}, Goto(Loop, l),
         pc[Loop] \in {"stats", "oldest", "take", "list", "get", "scan"},
         Works \/ Fails, RowsKept, NoneOpened,
         UNCHANGED <<resp, memory, depth, ahead, victim, pick, crashes>>
  PROVE  RInv'
<1>1. Loop \in Threads /\ \A s \in Requests : Loop # Handler(s) /\ Loop # Runner(s)
  BY ThreadFacts
<1>2. /\ l \notin Dropping \cup {"commit", "launch", "register"}
      /\ pc[Loop] \notin Dropping \cup {"launch", "register", "lost", "direct"}
  BY DEF Dropping
<1>3. Steady(Loop, l)
  BY <1>1, <1>2 DEF Steady, memory
<1>4. AnswerSound'
  BY <1>1, <1>3, SteadyAnswer DEF RInv
<1> QED BY <1>1, <1>2, <1>3, <1>4, SteadyStep

LEMMA RowsPurgeMove ==
  ASSUME IInv, RInv, NEW t \in Purgers, NEW l \in {"oldest", "take", "list", "counts"}, Goto(t, l),
         pc[t] \in {"stats", "oldest", "take"}, l = "list" <=> (t = Loop /\ l \notin {"oldest", "take"}),
         Works \/ Fails, RowsKept, NoneOpened,
         UNCHANGED <<resp, memory, depth, ahead, victim, pick, crashes>>
  PROVE  RInv'
<1>1. CASE t = Loop
  BY <1>1, RowsLoop
<1>2. ASSUME NEW r \in Requests, t = Handler(r) PROVE RInv'
  <2>1. pc[t] \in Unseen /\ l \in Unseen \ {"insert"}
    BY <1>2, ThreadFacts DEF Unseen
  <2> QED BY <1>2, <2>1, RowsGoOn
<1> QED BY <1>1, <1>2 DEF Purgers

LEMMA FinishedGone ==
  ASSUME IInv, PurgeFinishedQueueJobs PROVE RowsKept /\ NoneOpened
<1>1. \A s \in Requests, d \in Depths : <<s, d>> \in JobIds
  BY DEF JobIds
<1>2. \A x \in JobIds : rows'[x] = rows[x] \/ (rows[x].status \in Terminal /\ rows'[x] = [rows[x] EXCEPT !.status = "none"])
  <2> DEFINE finished == {id \in JobIds : rows[id].status \in Terminal}
  <2>1. PICK gone \in SUBSET finished :
          rows' = [id \in JobIds |->
                     IF id \in gone THEN [rows[id] EXCEPT !.status = "none"]
                     ELSE rows[id]]
    <3>1. PICK kept \in SUBSET finished :
            rows' = [id \in JobIds |->
                       IF id \in finished \ kept THEN [rows[id] EXCEPT !.status = "none"]
                       ELSE rows[id]]
      BY DEF PurgeFinishedQueueJobs
    <3> QED BY <3>1
  <2> QED BY <2>1
<1>3. \A x \in JobIds : rows[x] \in Row
  BY DEF IInv, TypeInv, TypeOK, RowsType
<1>4. \A x \in JobIds : rows'[x] = rows[x] \/ (rows[x].status \in Terminal /\ rows'[x].status = "none")
  BY <1>2, <1>3 DEF Row
<1>5. /\ \A x \in Terminal : x \notin Active /\ x # "waiting"
      /\ "none" \notin Active /\ "none" # "overflow"
  BY DEF Active, Terminal
<1> QED BY <1>1, <1>4, <1>5 DEF RowsKept, NoneOpened

LEMMA RowsStats ==
  ASSUME IInv, RInv, NEW t \in Purgers, WaitingStats(t) \/ OldestWaiting(t) PROVE RInv'
<1>1. /\ pc[t] \in {"stats", "oldest", "take"}
      /\ UNCHANGED <<resp, memory, depth, ahead, victim, pick, crashes>>
  BY DEF WaitingStats, OldestWaiting, client, local, env
<1>2. Works \/ Fails
  BY DEF WaitingStats, OldestWaiting
<1>3. UNCHANGED rows \/ PurgeFinishedQueueJobs
  BY DEF WaitingStats, OldestWaiting
<1>4. RowsKept /\ NoneOpened
  BY <1>3, RowsSame, FinishedGone
<1>5. Goto(t, "oldest") \/ Goto(t, "take") \/ PurgeReturn(t)
  BY DEF WaitingStats, OldestWaiting
<1>6. PICK l \in {"oldest", "take", "list", "counts"} :
        Goto(t, l) /\ (l = "list" <=> (t = Loop /\ l \notin {"oldest", "take"}))
  BY <1>5 DEF PurgeReturn
<1> QED BY <1>1, <1>2, <1>4, <1>6, RowsPurgeMove

\* The purge's next victim, or its end.
LEMMA PurgeNextLabel ==
  ASSUME NEW t, NEW r, PurgeNext(t, r)
  PROVE  \E l \in {"take", "list", "counts"} : Goto(t, l) /\ (l = "list" <=> (t = Loop /\ l # "take"))
BY DEF PurgeNext, PurgeReturn

(***************************************************************************)
(* dropWaiter, step by step.                                               *)
(***************************************************************************)
LEMMA RowsTake ==
  ASSUME IInv, RInv, NEW t \in Threads, NEW r \in waiters, NEW l \in {"mark", "tmark"},
         waiters' = waiters \ {r}, victim' = [victim EXCEPT ![t] = r], Goto(t, l),
         (pc[t] = "take" /\ l = "mark") \/ (pc[t] = "tdrop" /\ l = "tmark" /\ t = Handler(r)),
         \A s \in Requests : t # Runner(s),
         UNCHANGED <<rows, job, done, depth, ahead, resp, pick, crashes, faults>>
  PROVE  RInv'
<1>1. \A u \in Threads : pc'[u] = IF u = t THEN l ELSE pc[u]
  BY DEF Goto, IInv, TypeInv, TypeOK, PcType
<1>2. /\ r \in Requests /\ waiters \subseteq Requests /\ waiters' \subseteq waiters
      /\ victim'[t] = r /\ \A u \in Threads \ {t} : victim'[u] = victim[u]
  BY DEF IInv, TypeInv, TypeOK, MemoryType, PurgeType
<1>3. \A s \in Requests : /\ pc'[Handler(s)] \in Early <=> pc[Handler(s)] \in Early
                          /\ pc'[Handler(s)] \in Late <=> pc[Handler(s)] \in Late
                          /\ pc'[Runner(s)] = pc[Runner(s)]
                          /\ pc[Handler(s)] \in {"lost", "direct", "insert", "register", "returned", "unwind"}
                               => pc'[Handler(s)] = pc[Handler(s)]
                          /\ pc'[Handler(s)] \in {"lost", "direct", "insert", "register", "returned", "unwind"}
                               => pc'[Handler(s)] = pc[Handler(s)]
  BY <1>1, ThreadFacts DEF Early, Late, Waits
<1>4. \A u \in Threads : pc'[u] \in {"commit", "launch"} => pc'[u] = pc[u]
  BY <1>1
<1>5. Life'
  <2>1. WaitersLive'
    <3> SUFFICES ASSUME NEW s \in waiters' PROVE /\ pc'[Handler(s)] \in Waits /\ s \notin done'
                                                 /\ pc'[Runner(s)] \in Busy
      BY DEF WaitersLive
    <3>1. s \in Requests /\ pc[Handler(s)] \in Waits /\ s \notin done /\ pc[Runner(s)] \in Busy
      BY <1>2 DEF RInv, Life, WaitersLive
    <3>2. t # Handler(s)
      BY <1>2, <3>1, ThreadFacts DEF Waits
    <3> QED BY <1>1, <1>3, <3>1, <3>2, ThreadFacts
  <2>2. VictimGone'
    <3> SUFFICES ASSUME NEW u \in Threads, pc'[u] \in Dropping
                 PROVE  /\ victim'[u] \notin waiters' /\ pc'[Handler(victim'[u])] \notin Early
                        /\ pc'[u] \in {"tmark", "tsave"} => u = Handler(victim'[u])
                        /\ pc'[u] \in {"save", "tsave"} => job[victim'[u]].status \in Final
      BY DEF VictimGone
    <3>1. CASE u = t
      <4>1. pc[Handler(r)] \notin Early
        BY <1>2 DEF IInv, Core, EarlyHidden
      <4> QED BY <1>1, <1>2, <1>3, <3>1, <4>1
    <3>2. CASE u # t
      <4>1. pc[u] \in Dropping /\ victim[u] \in Requests /\ victim'[u] = victim[u] /\ pc'[u] = pc[u]
        BY <1>1, <1>2, <3>2 DEF IInv, TypeInv, VictimSound, Dropping
      <4> QED BY <1>2, <1>3, <4>1 DEF RInv, Life, VictimGone
    <3> QED BY <3>1, <3>2
  <2>3. DoneFinal' /\ JobDepth'
    BY <1>3 DEF RInv, Life, DoneFinal, JobDepth
  <2> QED BY <2>1, <2>2, <2>3 DEF Life
<1>6. ActiveSound'
  <2>1. \A s \in Requests : Own(s) => Own(s)'
    <3> SUFFICES ASSUME NEW s \in Requests, Own(s) PROVE Own(s)'
      OBVIOUS
    <3>1. CASE s = r
      BY <1>1, <1>2, <3>1 DEF Own, Dropping
    <3>2. ASSUME s # r, NEW u \in Threads, \/ pc[u] = "launch" /\ pick[u].r = s
                                           \/ pc[u] \in Dropping /\ victim[u] = s
          PROVE  Own(s)'
      <4>1. u # t
        BY <3>2 DEF Dropping
      <4> QED BY <1>1, <1>2, <3>2, <4>1 DEF Own
    <3> QED BY <1>2, <1>3, <3>1, <3>2 DEF Own
  <2> QED BY <1>3, <2>1 DEF RInv, ActiveSound
<1>7. WaitRow'
  BY <1>2, <1>3 DEF RInv, WaitRow
<1>8. AheadSound'
  <2>1. \A q : WaitingOf(q)' \subseteq WaitingOf(q)
    BY <1>2 DEF WaitingOf
  <2>2. \A s \in Requests : ahead[s] \subseteq Requests
    BY DEF IInv, TypeInv, TypeOK, ClientType
  <2> QED BY <1>3, <1>4, <2>1, <2>2 DEF RInv, AheadSound
<1>9. OverflowSound'
  <2>1. OverflowKept
    BY <1>3 DEF OverflowKept, NoneOpened, RInv, OverflowSound
  <2> QED BY <2>1, OverflowFrame DEF RInv, Works
<1>10. AnswerSound'
  <2>1. \A s \in Requests : Startable(s)' => Startable(s)
    BY <1>2, <1>3, <1>4 DEF Startable, PickedBy
  <2>2. AnswerKept
    BY <1>3, <2>1 DEF AnswerKept
  <2> QED BY <2>2, AnswerFrame DEF RInv
<1> QED BY <1>5, <1>6, <1>7, <1>8, <1>9, <1>10 DEF RInv

LEMMA RowsMark ==
  ASSUME IInv, RInv, NEW t \in Threads, NEW from \in {"mark", "tmark"}, NEW to \in {"save", "tsave"},
         Mark(t, from, to), (from = "mark" /\ to = "save") \/ (from = "tmark" /\ to = "tsave"),
         \A s \in Requests : t # Runner(s)
  PROVE  RInv'
<1>1. /\ pc[t] = from /\ Goto(t, to) /\ job' = [job EXCEPT ![victim[t]].status = "dropped"]
      /\ UNCHANGED <<rows, waiters, done, depth, ahead, resp, pick, crashes, faults, victim>>
  BY DEF Mark, client, purge, local, env
<1>2. PICK v \in Requests : v = victim[t]
  BY <1>1 DEF IInv, TypeInv, VictimSound
<1>3. /\ job'[v].status = "dropped" /\ job'[v].depth = job[v].depth
      /\ job'[v].queue = job[v].queue /\ job'[v].seq = job[v].seq
      /\ \A s \in Requests \ {v} : job'[s] = job[s]
  BY <1>1, <1>2 DEF IInv, TypeInv, TypeOK, MemoryType, Job
<1>4. v \notin waiters /\ waiters \subseteq Requests
  BY <1>1, <1>2 DEF RInv, Life, VictimGone, Dropping, IInv, TypeInv, TypeOK, MemoryType
<1>5. \A u \in Threads : pc'[u] = IF u = t THEN to ELSE pc[u]
  BY <1>1 DEF Goto, IInv, TypeInv, TypeOK, PcType
<1>6. \A s \in Requests : /\ pc'[Handler(s)] \in Early <=> pc[Handler(s)] \in Early
                          /\ pc'[Handler(s)] \in Late <=> pc[Handler(s)] \in Late
                          /\ pc'[Runner(s)] = pc[Runner(s)]
                          /\ pc[Handler(s)] \in {"lost", "direct", "insert", "register", "returned", "unwind"}
                               => pc'[Handler(s)] = pc[Handler(s)]
                          /\ pc'[Handler(s)] \in {"lost", "direct", "insert", "register", "returned", "unwind"}
                               => pc'[Handler(s)] = pc[Handler(s)]
  BY <1>1, <1>5, ThreadFacts DEF Early, Late, Waits
<1>7. \A u \in Threads : /\ pc'[u] \in {"commit", "launch"} => pc'[u] = pc[u]
                         /\ pc[u] \in {"commit", "launch"} => pc'[u] = pc[u]
                         /\ pc[u] \in Dropping <=> pc'[u] \in Dropping
  BY <1>1, <1>5 DEF Dropping
<1>8. Life'
  <2>1. WaitersLive'
    <3> SUFFICES ASSUME NEW s \in waiters PROVE /\ pc'[Handler(s)] \in Waits /\ s \notin done
                                                /\ pc'[Runner(s)] \in Busy
      BY <1>1 DEF WaitersLive
    <3>1. s \in Requests /\ pc[Handler(s)] \in Waits /\ s \notin done /\ pc[Runner(s)] \in Busy
      BY <1>4 DEF RInv, Life, WaitersLive
    <3>2. t # Handler(s)
      BY <1>1, <3>1, ThreadFacts DEF Waits
    <3> QED BY <1>5, <1>6, <3>1, <3>2, ThreadFacts
  <2>2. VictimGone'
    <3> SUFFICES ASSUME NEW u \in Threads, pc'[u] \in Dropping
                 PROVE  /\ victim[u] \notin waiters /\ pc'[Handler(victim[u])] \notin Early
                        /\ pc'[u] \in {"tmark", "tsave"} => u = Handler(victim[u])
                        /\ pc'[u] \in {"save", "tsave"} => job'[victim[u]].status \in Final
      BY <1>1 DEF VictimGone
    <3>1. pc[u] \in Dropping /\ victim[u] \in Requests
      BY <1>7 DEF IInv, TypeInv, VictimSound, Dropping
    <3>2. /\ victim[u] \notin waiters /\ pc'[Handler(victim[u])] \notin Early
          /\ pc[u] \in {"tmark", "tsave"} => u = Handler(victim[u])
          /\ pc[u] \in {"save", "tsave"} => job[victim[u]].status \in Final
      BY <1>6, <3>1 DEF RInv, Life, VictimGone
    <3>3. pc'[u] \in {"tmark", "tsave"} => u = Handler(victim[u])
      BY <1>1, <1>5, <3>2
    <3>4. pc'[u] \in {"save", "tsave"} => job'[victim[u]].status \in Final
      BY <1>2, <1>3, <1>5, <3>1, <3>2 DEF Final
    <3> QED BY <3>2, <3>3, <3>4
  <2>3. DoneFinal' /\ JobDepth'
    BY <1>1, <1>3, <1>6 DEF RInv, Life, DoneFinal, JobDepth, Final
  <2> QED BY <2>1, <2>2, <2>3 DEF Life
<1>9. ActiveSound'
  <2>1. \A s \in Requests : Own(s) => Own(s)'
    BY <1>1, <1>6, <1>7 DEF Own
  <2>2. \A s \in Requests : job'[s].depth = job[s].depth
    BY <1>3
  <2> QED BY <1>1, <1>6, <2>1, <2>2 DEF RInv, ActiveSound
<1>10. WaitRow'
  <2>1. \A s \in Requests : job'[s].depth = job[s].depth /\ job'[s].queue = job[s].queue /\ job'[s].seq = job[s].seq
    BY <1>3
  <2> QED BY <1>1, <1>3, <1>4, <1>6, <2>1 DEF RInv, WaitRow
<1>11. AheadSound'
  <2>1. \A q : WaitingOf(q)' \subseteq WaitingOf(q)
    BY <1>1, <1>3, <1>4 DEF WaitingOf
  <2>2. \A s \in Requests : ahead[s] \subseteq Requests
    BY DEF IInv, TypeInv, TypeOK, ClientType
  <2>3. \A s \in Requests : /\ job'[s].queue = job[s].queue /\ job'[s].seq = job[s].seq
                            /\ job'[s].status = "waiting" => job[s].status = "waiting"
    BY <1>3
  <2> QED BY <1>1, <1>6, <1>7, <2>1, <2>2, <2>3 DEF RInv, AheadSound
<1>12. OverflowSound'
  <2>1. OverflowKept
    BY <1>1, <1>6 DEF OverflowKept, NoneOpened, RInv, OverflowSound
  <2> QED BY <1>1, <2>1, OverflowFrame DEF RInv, Works
<1>13. AnswerSound'
  <2>1. \A s \in Requests : Startable(s)' => Startable(s)
    BY <1>1, <1>3, <1>6, <1>7 DEF Startable, PickedBy
  <2>2. AnswerKept
    BY <1>1, <1>3, <1>6, <2>1 DEF AnswerKept
  <2> QED BY <2>2, AnswerFrame DEF RInv
<1> QED BY <1>8, <1>9, <1>10, <1>11, <1>12, <1>13 DEF RInv

\* A final status reaches the row of a job whose waiter has left, unless the
\* UPDATE fails.
LEMMA UpdateRows ==
  ASSUME IInv, NEW id \in JobIds, NEW status, NEW fin \in BOOLEAN, UpdateQueueJob(id, status, fin)
  PROVE  /\ Works \/ Fails
         /\ \A x \in JobIds : x # id => rows'[x] = rows[x]
         /\ rows'[id].queue = rows[id].queue /\ rows'[id].seq = rows[id].seq
         /\ \/ rows'[id] = rows[id] /\ (faults' = 0 => rows[id].status = "none")
            \/ rows'[id].status = status /\ rows'[id].fin = fin
<1>1. rows \in [JobIds -> Row] /\ faults \in Nat
  BY DEF IInv, TypeInv, TypeOK, RowsType, EnvType
<1>2. CASE /\ Works /\ rows' = IF rows[id].status = "none" THEN rows
                               ELSE [rows EXCEPT ![id].status = status, ![id].fin = fin]
  BY <1>1, <1>2 DEF Row
<1>3. CASE Fails /\ UNCHANGED rows
  BY <1>1, <1>3 DEF Fails
<1> QED BY <1>2, <1>3 DEF UpdateQueueJob

LEMMA RowsFinal ==
  ASSUME IInv, RInv, NEW t \in Threads, NEW l, NEW v \in Requests, Goto(t, l),
         \/ pc[t] = "save" /\ t \in Purgers /\ victim[t] = v
            /\ l \in {"take", "list", "counts"} /\ (l = "list" => t = Loop)
         \/ pc[t] = "tsave" /\ t = Handler(v) /\ victim[t] = v /\ l = "t504"
         \/ pc[t] = "store" /\ t = Runner(v) /\ l = "get",
         UpdateQueueJob(<<v, job[v].depth>>, job[v].status, TRUE), done' = done \cup {v},
         \A u \in Threads \ {t} : victim'[u] = victim[u],
         UNCHANGED <<waiters, job, depth, ahead, resp, pick, crashes>>
  PROVE  RInv'
<1>1. \A u \in Threads : pc'[u] = IF u = t THEN l ELSE pc[u]
  BY DEF Goto, IInv, TypeInv, TypeOK, PcType
<1>2. /\ waiters \subseteq Requests /\ v \notin waiters /\ pc[Handler(v)] \notin Early
      /\ job[v].status \in Final /\ job[v].depth \in Depths
  <2>1. waiters \subseteq Requests /\ job[v].depth \in Depths
    BY DEF IInv, TypeInv, TypeOK, MemoryType, Job
  <2>2. CASE pc[t] \in {"save", "tsave"} /\ victim[t] = v
    BY <2>1, <2>2 DEF RInv, Life, VictimGone, Dropping
  <2>3. CASE pc[t] = "store" /\ t = Runner(v)
    BY <2>1, <2>3 DEF RInv, Life, WaitersLive, DoneFinal, Busy, IInv, Core, EarlyHidden
  <2> QED BY <2>2, <2>3
<1>3. \A s \in Requests : /\ pc'[Handler(s)] \in Early <=> pc[Handler(s)] \in Early
                          /\ pc'[Handler(s)] \in Late <=> pc[Handler(s)] \in Late
                          /\ pc'[Runner(s)] \in {"off", "forward", "finish"} <=> pc[Runner(s)] \in {"off", "forward", "finish"}
                          /\ pc[Runner(s)] \in {"off", "forward", "finish"} => pc'[Runner(s)] = pc[Runner(s)]
                          /\ pc[Runner(s)] = "store" /\ s # v => pc'[Runner(s)] = "store"
                          /\ pc[Handler(s)] \in {"lost", "direct", "insert", "register", "returned", "unwind"}
                               => pc'[Handler(s)] = pc[Handler(s)]
                          /\ pc'[Handler(s)] \in {"lost", "direct", "insert", "register", "returned", "unwind"}
                               => pc'[Handler(s)] = pc[Handler(s)]
  BY <1>1, ThreadFacts DEF Early, Late, Waits, Purgers
<1>4. \A u \in Threads : /\ pc'[u] \in {"commit", "launch"} => pc'[u] = pc[u]
                         /\ pc[u] \in {"commit", "launch"} => pc'[u] = pc[u]
                         /\ pc'[u] \in Dropping => u # t /\ pc'[u] = pc[u]
                         /\ pc[u] \in Dropping /\ u # t => pc'[u] = pc[u]
  BY <1>1 DEF Dropping
<1>5. /\ Works \/ Fails
      /\ \A x \in JobIds : x # <<v, job[v].depth>> => rows'[x] = rows[x]
      /\ \/ rows'[<<v, job[v].depth>>] = rows[<<v, job[v].depth>>]
            /\ (faults' = 0 => rows[<<v, job[v].depth>>].status = "none")
         \/ rows'[<<v, job[v].depth>>].status = job[v].status
  <2>1. <<v, job[v].depth>> \in JobIds
    BY <1>2 DEF JobIds
  <2> QED BY <2>1, UpdateRows
<1>6. \A s \in Requests, d \in Depths : /\ <<s, d>> \in JobIds
                                        /\ s # v \/ d # job[v].depth => <<s, d>> # <<v, job[v].depth>>
  BY DEF JobIds
<1>7. Life'
  <2>1. WaitersLive'
    <3> SUFFICES ASSUME NEW s \in waiters PROVE /\ pc'[Handler(s)] \in Waits /\ s \notin done'
                                                /\ pc'[Runner(s)] \in Busy
      BY DEF WaitersLive
    <3>1. s \in Requests /\ pc[Handler(s)] \in Waits /\ s \notin done /\ pc[Runner(s)] \in Busy /\ s # v
      BY <1>2 DEF RInv, Life, WaitersLive
    <3>2. t # Handler(s)
      BY <3>1, ThreadFacts DEF Waits
    <3>3. pc'[Handler(s)] = pc[Handler(s)]
      BY <1>1, <3>1, <3>2, ThreadFacts
    <3>4. pc'[Runner(s)] \in Busy
      BY <1>3, <3>1 DEF Busy
    <3> QED BY <3>1, <3>3, <3>4
  <2>2. VictimGone'
    <3> SUFFICES ASSUME NEW u \in Threads, pc'[u] \in Dropping
                 PROVE  /\ victim'[u] \notin waiters /\ pc'[Handler(victim'[u])] \notin Early
                        /\ pc'[u] \in {"tmark", "tsave"} => u = Handler(victim'[u])
                        /\ pc'[u] \in {"save", "tsave"} => job[victim'[u]].status \in Final
      BY DEF VictimGone
    <3>1. pc[u] \in Dropping /\ victim[u] \in Requests /\ victim'[u] = victim[u] /\ pc'[u] = pc[u]
      BY <1>4 DEF IInv, TypeInv, VictimSound, Dropping
    <3> QED BY <1>3, <3>1 DEF RInv, Life, VictimGone
  <2>3. DoneFinal'
    <3> SUFFICES ASSUME NEW s \in Requests
                 PROVE  /\ s \in done' => pc'[Handler(s)] \notin Early /\ job[s].status \in Final
                        /\ pc'[Runner(s)] \notin {"off", "forward"} => job[s].status \in Final
      BY DEF DoneFinal
    <3>1. s \in done' => s \in done \/ s = v
      OBVIOUS
    <3>2. pc'[Runner(s)] \notin {"off", "forward"} => pc[Runner(s)] \notin {"off", "forward"}
      BY <1>3
    <3> QED BY <1>2, <1>3, <3>1, <3>2 DEF RInv, Life, DoneFinal
  <2>4. JobDepth'
    BY <1>3 DEF RInv, Life, JobDepth
  <2> QED BY <2>1, <2>2, <2>3, <2>4 DEF Life
<1>8. ActiveSound'
  <2> SUFFICES ASSUME faults' = 0, NEW s \in Requests, NEW d \in Depths,
                      rows'[<<s, d>>].status \in Active
               PROVE  /\ d = job[s].depth /\ Own(s)'
                      /\ pc'[Handler(s)] \in Early => pc'[Handler(s)] = "register"
    BY DEF ActiveSound
  <2>1. faults = 0
    BY <1>5, FaultFacts
  <2>2. <<s, d>> # <<v, job[v].depth>>
    BY <1>2, <1>5 DEF Active, Final
  <2>3. rows[<<s, d>>].status \in Active
    BY <1>5, <1>6, <2>2
  <2>4. d = job[s].depth /\ Own(s) /\ (pc[Handler(s)] \in Early => pc[Handler(s)] = "register")
    BY <2>1, <2>3 DEF RInv, ActiveSound
  <2>5. s # v
    BY <1>2, <2>2, <2>4
  <2>6. Own(s)'
    <3>1. ASSUME NEW u \in Threads, \/ pc[u] = "launch" /\ pick[u].r = s
                                    \/ pc[u] \in Dropping /\ victim[u] = s
          PROVE  Own(s)'
      <4>1. CASE u = t
        BY <2>5, <3>1, <4>1 DEF Dropping
      <4>2. CASE u # t
        BY <1>4, <3>1, <4>2 DEF Own
      <4> QED BY <4>1, <4>2
    <3> QED BY <1>3, <2>4, <2>5, <3>1 DEF Own
  <2> QED BY <1>3, <2>4, <2>6
<1>9. WaitRow'
  <2> SUFFICES ASSUME NEW s \in Requests,
                      pc'[Handler(s)] = "register" \/ (s \in waiters /\ job[s].status = "waiting")
               PROVE  /\ rows'[<<s, job[s].depth>>].status = "waiting"
                      /\ rows'[<<s, job[s].depth>>].queue = job[s].queue
                      /\ rows'[<<s, job[s].depth>>].seq = job[s].seq
    BY DEF WaitRow
  <2>1. s # v
    BY <1>2, <1>3 DEF Early
  <2>2. PICK d \in Depths : d = job[s].depth
    BY DEF IInv, TypeInv, TypeOK, MemoryType, Job
  <2>3. rows'[<<s, d>>] = rows[<<s, d>>]
    BY <1>5, <1>6, <2>1
  <2> QED BY <1>3, <2>2, <2>3 DEF RInv, WaitRow
<1>10. AheadSound'
  <2>1. \A q : WaitingOf(q)' = WaitingOf(q)
    BY DEF WaitingOf
  <2>2. \A s \in Requests : ahead[s] \subseteq Requests
    BY DEF IInv, TypeInv, TypeOK, ClientType
  <2> QED BY <1>3, <1>4, <2>1, <2>2 DEF RInv, AheadSound
<1>11. OverflowSound'
  <2>1. NoneOpened
    BY <1>2, <1>5, <1>6 DEF NoneOpened, Final
  <2>2. OverflowKept
    BY <1>3, <2>1 DEF OverflowKept, RInv, OverflowSound
  <2> QED BY <1>5, <2>2, OverflowFrame DEF RInv
<1>12. AnswerSound'
  <2>1. \A s \in Requests : Startable(s)' => Startable(s)
    BY <1>3, <1>4 DEF Startable, PickedBy
  <2>2. AnswerKept
    BY <1>3, <2>1 DEF AnswerKept
  <2> QED BY <2>2, AnswerFrame DEF RInv
<1> QED BY <1>7, <1>8, <1>9, <1>10, <1>11, <1>12 DEF RInv

LEMMA RowsPurge ==
  ASSUME IInv, RInv, NEW t \in Purgers, PurgeStep(t) PROVE RInv'
<1>1. t \in Threads /\ \A s \in Requests : t # Runner(s)
  BY ThreadFacts DEF Purgers
<1>2. CASE PurgeTake(t)
  <2>1. /\ pc[t] = "take"
        /\ UNCHANGED <<rows, inflight, job, done, depth, ahead, resp, pick, crashes, faults>>
    BY <1>2 DEF PurgeTake, client, local, env
  <2>2. PICK r \in doomed[t] :
          \/ /\ r \in waiters /\ waiters' = waiters \ {r}
             /\ victim' = [victim EXCEPT ![t] = r] /\ Goto(t, "mark")
          \/ r \notin waiters /\ PurgeNext(t, r) /\ UNCHANGED <<waiters, victim>>
    BY <1>2 DEF PurgeTake
  <2>3. CASE r \in waiters
    BY <1>1, <2>1, <2>2, <2>3, RowsTake
  <2>4. CASE r \notin waiters
    <3>1. PICK l \in {"take", "list", "counts"} : Goto(t, l) /\ (l = "list" <=> (t = Loop /\ l # "take"))
      BY <2>2, <2>4, PurgeNextLabel
    <3> QED BY <2>1, <2>2, <2>4, <3>1, RowsSame, RowsPurgeMove DEF Works, memory
  <2> QED BY <2>3, <2>4
<1>3. CASE PurgeMark(t)
  BY <1>1, <1>3, RowsMark DEF PurgeMark
<1>4. CASE PurgeSave(t)
  <2>1. /\ pc[t] = "save" /\ DropSave(victim[t]) /\ PurgeNext(t, victim[t])
        /\ victim' = [victim EXCEPT ![t] = NoRequest]
        /\ UNCHANGED <<waiters, job, depth, ahead, resp, pick, crashes>>
    BY <1>4 DEF PurgeSave, client, local, env
  <2>2. PICK v \in Requests : v = victim[t]
    BY <1>1, <2>1 DEF IInv, TypeInv, VictimSound
  <2>3. PICK l \in {"take", "list", "counts"} : Goto(t, l) /\ (l = "list" <=> (t = Loop /\ l # "take"))
    BY <2>1, PurgeNextLabel
  <2>4. \A u \in Threads \ {t} : victim'[u] = victim[u]
    BY <2>1 DEF IInv, TypeInv, TypeOK, PurgeType
  <2>5. UpdateQueueJob(<<v, job[v].depth>>, job[v].status, TRUE) /\ done' = done \cup {v}
    BY <2>1, <2>2 DEF DropSave, Complete
  <2> QED BY <1>1, <2>1, <2>2, <2>3, <2>4, <2>5, RowsFinal
<1> QED BY <1>2, <1>3, <1>4, RowsStats DEF PurgeStep

LEMMA RowsTimeout ==
  ASSUME IInv, RInv, NEW r \in Requests,
         TimeoutDrop(r) \/ TimeoutMark(r) \/ TimeoutSave(r)
  PROVE  RInv'
<1> DEFINE t == Handler(r)
<1>1. t \in Threads /\ \A s \in Requests : t # Runner(s)
  BY ThreadFacts
<1>2. CASE TimeoutDrop(r)
  <2>1. /\ pc[t] = "tdrop"
        /\ UNCHANGED <<rows, inflight, job, done, depth, ahead, resp, pick, crashes, faults>>
    BY <1>2 DEF TimeoutDrop, client, local, env
  <2>2. CASE r \in waiters
    <3>1. waiters' = waiters \ {r} /\ victim' = [victim EXCEPT ![t] = r] /\ Goto(t, "tmark")
      BY <1>2, <2>2 DEF TimeoutDrop
    <3> QED BY <1>1, <2>1, <2>2, <3>1, RowsTake
  <2>3. CASE r \notin waiters
    <3>1. Goto(t, "t504") /\ UNCHANGED <<waiters, victim>>
      BY <1>2, <2>3 DEF TimeoutDrop
    <3>2. /\ "t504" \notin Early \cup Dropping /\ "tdrop" \in Late
          /\ "tdrop" \notin Dropping \cup {"launch", "register"}
      BY DEF Early, Dropping, Late, Waits
    <3>3. Steady(t, "t504")
      BY <2>1, <2>3, <3>1, <3>2, HandlerSteady DEF memory
    <3>4. AnswerSound'
      BY <1>1, <2>1, <3>3, SteadyAnswer DEF RInv
    <3> QED BY <1>1, <2>1, <3>3, <3>4, RowsSame, SteadyStep DEF Works
  <2> QED BY <2>2, <2>3
<1>3. CASE TimeoutMark(r)
  BY <1>1, <1>3, RowsMark DEF TimeoutMark
<1>4. CASE TimeoutSave(r)
  <2>1. /\ pc[t] = "tsave" /\ DropSave(r) /\ Goto(t, "t504")
        /\ victim' = [victim EXCEPT ![t] = NoRequest]
        /\ UNCHANGED <<waiters, job, depth, ahead, resp, pick, crashes>>
    BY <1>4 DEF TimeoutSave, client, local, env
  <2>2. victim[t] = r
    <3>1. t = Handler(victim[t]) /\ victim[t] \in Requests
      BY <1>1, <2>1 DEF RInv, Life, VictimGone, Dropping, IInv, TypeInv, VictimSound
    <3> QED BY <3>1, ThreadFacts
  <2>3. \A u \in Threads \ {t} : victim'[u] = victim[u]
    BY <2>1 DEF IInv, TypeInv, TypeOK, PurgeType
  <2>4. UpdateQueueJob(<<r, job[r].depth>>, job[r].status, TRUE) /\ done' = done \cup {r}
    BY <2>1 DEF DropSave, Complete
  <2> QED BY <1>1, <2>1, <2>2, <2>3, <2>4, RowsFinal
<1> QED BY <1>2, <1>3, <1>4

\* handle wakes up, its deadline passes, or it answers 504.
LEMMA RowsWait ==
  ASSUME IInv, RInv, NEW r \in Requests, WakeUp(r) \/ Timeout(r) \/ TimeoutReply(r)
  PROVE  RInv'
<1> DEFINE t == Handler(r)
<1>0. t \in Threads
  BY ThreadFacts
<1>1. UNCHANGED <<rows, memory, depth, ahead, victim, pick, crashes, faults>>
  BY DEF WakeUp, Timeout, TimeoutReply, client, purge, local, env
<1>2. CASE Timeout(r)
  <2>1. PICK l \in {"tdrop", "await"} : Goto(t, l) /\ pc[t] = "select" /\ UNCHANGED resp
    BY <1>2 DEF Timeout, client
  <2>2. /\ l \notin Early \cup Dropping /\ l \in Waits
        /\ "select" \notin Dropping /\ "select" \in Late
    BY DEF Early, Dropping, Late, Waits
  <2>3. Steady(t, l)
    BY <1>1, <2>1, <2>2, HandlerSteady
  <2>4. AnswerSound'
    BY <1>0, <1>1, <2>1, <2>3, SteadyAnswer DEF RInv
  <2> QED BY <1>0, <1>1, <2>1, <2>3, <2>4, RowsSame, SteadyStep DEF Works
<1>3. CASE WakeUp(r) \/ TimeoutReply(r)
  <2>1. PICK l \in {"returned", "unwind"} : Goto(t, l) /\ (l = "returned" => depth[r] = 0)
    BY <1>3, ReturnLabel DEF WakeUp, TimeoutReply
  <2>2. pc[t] \in {"select", "await", "t504"}
    BY <1>3 DEF WakeUp, TimeoutReply
  <2>3. r \notin waiters
    BY <1>3 DEF WakeUp, TimeoutReply, RInv, Life, WaitersLive, Waits
  <2>4. pc[t] \notin Dropping \cup {"launch", "register"}
    BY <2>2 DEF Dropping
  <2>5. Steady(t, l)
    BY <1>1, <2>1, <2>3, <2>4, UnseenFacts, HandlerSteady
  <2>6. AnswerSound'
    <3>1. CASE WakeUp(r)
      <4>1. UNCHANGED resp /\ job[r].status \in Final
        BY <3>1 DEF WakeUp, client, RInv, Life, DoneFinal
      <4>2. resp[r] # << >> \/ job[r].status = "dropped"
        BY <4>1 DEF RInv, AnswerSound, Final
      <4>3. \A s \in Requests : t = Handler(s) => s = r
        BY ThreadFacts
      <4> QED BY <1>0, <2>5, <4>1, <4>2, <4>3, SteadyAnswer DEF RInv
    <3>2. CASE TimeoutReply(r)
      <4>1. pc[t] = "t504" /\ Write(r, "504") /\ "504" \in Codes
        BY <3>2 DEF TimeoutReply, Codes
      <4> QED BY <2>5, <4>1, SteadyWrite DEF RInv
    <3> QED BY <1>3, <3>1, <3>2
  <2>7. \A s \in Requests : t = Handler(s) /\ l = "returned" => depth[s] = 0
    BY <2>1, ThreadFacts
  <2> QED BY <1>0, <1>1, <2>2, <2>5, <2>6, <2>7, RowsSame, SteadyStep DEF Works
<1> QED BY <1>2, <1>3

(***************************************************************************)
(* The overflow row: written, and finished when the nested handle returns. *)
(***************************************************************************)
LEMMA SteadyRest ==
  ASSUME IInv, RInv, NEW t \in Threads, NEW l, Steady(t, l), l # "register",
         Works \/ Fails, RowsKept, OverflowSound', AnswerSound'
  PROVE  RInv'
BY SteadyLife, SteadyAhead, SteadyActive, SteadyWait DEF RInv

\* The rows of the other requests, and of the other depths.
LEMMA RowIds ==
  \A s, r \in Requests, d, e \in Depths :
    <<s, d>> \in JobIds /\ (s # r \/ d # e => <<s, d>> # <<r, e>>)
BY DEF JobIds

LEMMA RowsOverflow ==
  ASSUME IInv, RInv, NEW r \in Requests, Overflow(r) PROVE RInv'
<1> DEFINE t == Handler(r)
<1>0. t \in Threads /\ \A s \in Requests : t = Handler(s) => s = r
  BY ThreadFacts
<1>1. /\ pc[t] = "overflow" /\ UNCHANGED <<memory, resp, ahead, victim, pick, crashes>>
  BY DEF Overflow, purge, local, env
<1>2. PICK e \in Depths : e = depth[r]
  BY <1>1 DEF IInv, TypeInv, HandleSound, Admitted
<1>3. PICK l \in {"enter", "direct"} :
        /\ Goto(t, l)
        /\ \/ l = "enter" /\ depth' = [depth EXCEPT ![r] = @ + 1]
           \/ l = "direct" /\ UNCHANGED depth
  BY DEF Overflow
<1>4. Works \/ Fails
  BY DEF Overflow
<1>5. UNCHANGED rows \/ \E q, n : rows' = [rows EXCEPT ![<<r, e>>] = NewRow(q, n, "overflow")]
  BY <1>2 DEF Overflow
<1>6. /\ \A s \in Requests, d \in Depths : s # r \/ d # e => rows'[<<s, d>>] = rows[<<s, d>>]
      /\ rows'[<<r, e>>] = rows[<<r, e>>] \/ rows'[<<r, e>>].status = "overflow"
  <2>1. rows \in [JobIds -> Row]
    BY DEF IInv, TypeInv, TypeOK, RowsType
  <2>2. ASSUME NEW q, NEW n, rows' = [rows EXCEPT ![<<r, e>>] = NewRow(q, n, "overflow")]
        PROVE  /\ \A s \in Requests, d \in Depths : s # r \/ d # e => rows'[<<s, d>>] = rows[<<s, d>>]
               /\ rows'[<<r, e>>].status = "overflow"
    <3>1. rows'[<<r, e>>] = NewRow(q, n, "overflow")
      BY <2>1, <2>2, RowIds
    <3>2. \A x \in JobIds : x # <<r, e>> => rows'[x] = rows[x]
      BY <2>1, <2>2
    <3> QED BY <3>1, <3>2, RowIds DEF NewRow
  <2> QED BY <1>5, <2>2
<1>7. /\ pc[t] \in Early /\ pc[t] # "register" /\ l \in Early /\ l \notin Dropping \cup Late
      /\ pc[t] \notin Dropping
  BY <1>1 DEF Early, Dropping, Late, Waits
<1>8. r \notin waiters
  BY <1>7 DEF IInv, Core, EarlyHidden
<1>9. /\ \A s \in Requests \ {r} : depth'[s] = depth[s]
      /\ depth[r] \in Nat /\ depth'[r] = IF l = "enter" THEN e + 1 ELSE e
  BY <1>2, <1>3 DEF IInv, TypeInv, TypeOK, ClientType
<1>10. Steady(t, l)
  BY <1>1, <1>3, <1>7, <1>8, <1>9, HandlerSteady
<1>11. RowsKept
  BY <1>6, <1>7, <1>8 DEF RowsKept, Active
<1>12. OverflowSound'
  <2>1. /\ MaxFaults = 0 => faults' = 0
        /\ NoFaultEver' => NoFaultEver
    BY <1>1, <1>4, FaultFacts DEF RInv, OverflowSound
  <2>2. \A s \in Requests : pc'[Handler(s)] = IF s = r THEN l ELSE pc[Handler(s)]
    BY <1>0, <1>10, SteadyFacts, ThreadFacts
  <2>3. \A s \in Requests : pc'[Handler(s)] = "returned" => depth'[s] = 0
    BY <1>9, <2>2 DEF RInv, OverflowSound
  <2>4. ASSUME NoFaultEver', NEW s \in Requests, NEW d \in Depths,
               rows'[<<s, d>>].status = "overflow", ~rows'[<<s, d>>].fin
        PROVE  \/ pc'[Handler(s)] = "lost" \/ d < depth'[s]
               \/ pc'[Handler(s)] = "direct" /\ d = depth'[s]
    <3>1. CASE s = r /\ d = e
      BY <1>2, <1>9, <2>2, <3>1
    <3>2. CASE s # r \/ d # e
      <4>1. \/ pc[Handler(s)] = "lost" \/ d < depth[s]
            \/ pc[Handler(s)] = "direct" /\ d = depth[s]
        BY <1>6, <2>1, <2>4, <3>2 DEF RInv, OverflowSound
      <4>2. CASE s # r
        BY <1>9, <2>2, <4>1, <4>2
      <4>3. CASE s = r
        <5>1. d < e
          BY <1>1, <1>2, <4>1, <4>3
        <5>2. d \in Int /\ e \in Int
          BY DEF Depths
        <5> QED BY <1>9, <4>3, <5>1, <5>2
      <4> QED BY <4>2, <4>3
    <3> QED BY <3>1, <3>2
  <2> QED BY <2>1, <2>3, <2>4 DEF OverflowSound
<1>13. AnswerSound'
  BY <1>0, <1>1, <1>10, SteadyAnswer DEF RInv
<1> QED BY <1>0, <1>4, <1>10, <1>11, <1>12, <1>13, SteadyRest

LEMMA RowsDirect ==
  ASSUME IInv, RInv, NEW r \in Requests, Direct(r) PROVE RInv'
<1> DEFINE t == Handler(r)
<1>0. t \in Threads /\ \A s \in Requests : t = Handler(s) => s = r
  BY ThreadFacts
<1>1. /\ pc[t] = "direct" /\ UNCHANGED <<memory, depth, ahead, victim, pick, crashes>>
      /\ Write(r, "reply") /\ "reply" \in Codes
  BY DEF Direct, purge, local, env, Codes
<1>2. PICK e \in Depths : e = depth[r]
  BY <1>1 DEF IInv, TypeInv, HandleSound, Admitted
<1>3. PICK l \in {"returned", "unwind"} : Goto(t, l) /\ (l = "returned" => depth[r] = 0)
  BY ReturnLabel DEF Direct
<1>4. UpdateQueueJob(<<r, e>>, "ended", TRUE) /\ <<r, e>> \in JobIds
  BY <1>2, RowIds DEF Direct
<1>5. /\ Works \/ Fails
      /\ \A x \in JobIds : x # <<r, e>> => rows'[x] = rows[x]
      /\ \/ rows'[<<r, e>>] = rows[<<r, e>>] /\ (faults' = 0 => rows[<<r, e>>].status = "none")
         \/ rows'[<<r, e>>].status = "ended"
  BY <1>4, UpdateRows
<1>6. \A s \in Requests, d \in Depths : s # r \/ d # e => rows'[<<s, d>>] = rows[<<s, d>>]
  BY <1>5, RowIds
<1>7. pc[t] \in Early /\ pc[t] # "register" /\ pc[t] \notin Dropping
  BY <1>1 DEF Early, Dropping
<1>8. r \notin waiters
  BY <1>7 DEF IInv, Core, EarlyHidden
<1>9. Steady(t, l)
  BY <1>1, <1>3, <1>7, <1>8, UnseenFacts, HandlerSteady
<1>10. RowsKept
  BY <1>5, <1>6, <1>7, <1>8 DEF RowsKept, Active
<1>11. OverflowSound'
  <2>1. /\ MaxFaults = 0 => faults' = 0
        /\ NoFaultEver' => NoFaultEver /\ faults' = 0
    BY <1>1, <1>5, FaultFacts DEF RInv, OverflowSound, NoFaultEver
  <2>2. \A s \in Requests : pc'[Handler(s)] = IF s = r THEN l ELSE pc[Handler(s)]
    BY <1>0, <1>9, SteadyFacts, ThreadFacts
  <2>3. \A s \in Requests : pc'[Handler(s)] = "returned" => depth'[s] = 0
    BY <1>1, <1>3, <2>2 DEF RInv, OverflowSound
  <2>4. ASSUME NoFaultEver', NEW s \in Requests, NEW d \in Depths,
               rows'[<<s, d>>].status = "overflow", ~rows'[<<s, d>>].fin
        PROVE  \/ pc'[Handler(s)] = "lost" \/ d < depth'[s]
               \/ pc'[Handler(s)] = "direct" /\ d = depth'[s]
    <3>1. s # r \/ d # e
      BY <1>5, <2>1, <2>4
    <3>2. \/ pc[Handler(s)] = "lost" \/ d < depth[s]
          \/ pc[Handler(s)] = "direct" /\ d = depth[s]
      BY <1>6, <2>1, <2>4, <3>1 DEF RInv, OverflowSound
    <3> QED BY <1>1, <1>2, <2>2, <3>1, <3>2
  <2> QED BY <2>1, <2>3, <2>4 DEF OverflowSound
<1>12. AnswerSound'
  BY <1>1, <1>7, <1>9, SteadyWrite DEF RInv
<1> QED BY <1>0, <1>5, <1>9, <1>10, <1>11, <1>12, SteadyRest

LEMMA RowsUnwind ==
  ASSUME IInv, RInv, NEW r \in Requests, Unwind(r) PROVE RInv'
<1> DEFINE t == Handler(r)
<1>0. t \in Threads /\ \A s \in Requests : t = Handler(s) => s = r
  BY ThreadFacts
<1>1. /\ pc[t] = "unwind" /\ UNCHANGED <<memory, resp, ahead, victim, pick, crashes>>
      /\ depth' = [depth EXCEPT ![r] = @ - 1]
  BY DEF Unwind, purge, local, env
<1>2. depth[r] \in 1 .. MaxDepth + 1
  BY <1>1 DEF IInv, TypeInv, HandleSound
<1>a. PICK e \in Depths : e = depth[r] - 1
  BY <1>2 DEF MaxDepth, Depths
<1>3. PICK l \in {"returned", "unwind"} : Goto(t, l) /\ (l = "returned" => e = 0)
  BY <1>2, <1>a DEF Unwind
<1>4. UpdateQueueJob(<<r, e>>, "overflow", TRUE) /\ <<r, e>> \in JobIds
  BY <1>a, RowIds DEF Unwind
<1>5. /\ Works \/ Fails
      /\ \A x \in JobIds : x # <<r, e>> => rows'[x] = rows[x]
      /\ \/ rows'[<<r, e>>] = rows[<<r, e>>] /\ (faults' = 0 => rows[<<r, e>>].status = "none")
         \/ rows'[<<r, e>>].status = "overflow" /\ rows'[<<r, e>>].fin = TRUE
  BY <1>4, UpdateRows
<1>6. \A s \in Requests, d \in Depths : s # r \/ d # e => rows'[<<s, d>>] = rows[<<s, d>>]
  BY <1>5, RowIds
<1>7. r \notin waiters
  BY <1>1 DEF RInv, Life, WaitersLive, Waits
<1>8. /\ \A s \in Requests \ {r} : depth'[s] = depth[s]
      /\ depth'[r] = e
  BY <1>1, <1>a DEF IInv, TypeInv, TypeOK, ClientType
<1>9. Steady(t, l)
  <2>1. pc[t] \notin Dropping
    BY <1>1 DEF Dropping
  <2> QED BY <1>1, <1>3, <1>7, <1>8, <2>1, UnseenFacts, HandlerSteady
<1>10. RowsKept
  BY <1>1, <1>5, <1>6, <1>7 DEF RowsKept, Active
<1>11. OverflowSound'
  <2>1. /\ MaxFaults = 0 => faults' = 0
        /\ NoFaultEver' => NoFaultEver /\ faults' = 0
    BY <1>1, <1>5, FaultFacts DEF RInv, OverflowSound, NoFaultEver
  <2>2. \A s \in Requests : pc'[Handler(s)] = IF s = r THEN l ELSE pc[Handler(s)]
    BY <1>0, <1>9, SteadyFacts, ThreadFacts
  <2>3. \A s \in Requests : pc'[Handler(s)] = "returned" => depth'[s] = 0
    BY <1>3, <1>8, <2>2 DEF RInv, OverflowSound
  <2>4. ASSUME NoFaultEver', NEW s \in Requests, NEW d \in Depths,
               rows'[<<s, d>>].status = "overflow", ~rows'[<<s, d>>].fin
        PROVE  \/ pc'[Handler(s)] = "lost" \/ d < depth'[s]
               \/ pc'[Handler(s)] = "direct" /\ d = depth'[s]
    <3>1. s # r \/ d # e
      BY <1>5, <2>1, <2>4
    <3>2. \/ pc[Handler(s)] = "lost" \/ d < depth[s]
          \/ pc[Handler(s)] = "direct" /\ d = depth[s]
      BY <1>6, <2>1, <2>4, <3>1 DEF RInv, OverflowSound
    <3>3. CASE s # r
      BY <1>8, <2>2, <3>2, <3>3
    <3>4. CASE s = r
      BY <1>1, <1>2, <1>a, <1>8, <3>1, <3>2, <3>4
    <3> QED BY <3>3, <3>4
  <2> QED BY <2>1, <2>3, <2>4 DEF OverflowSound
<1>12. AnswerSound'
  BY <1>0, <1>1, <1>9, SteadyAnswer DEF RInv
<1> QED BY <1>0, <1>5, <1>9, <1>10, <1>11, <1>12, SteadyRest

(***************************************************************************)
(* The job's row and its waiter.                                           *)
(***************************************************************************)
LEMMA RowsInsert ==
  ASSUME IInv, RInv, NEW r \in Requests, Insert(r) PROVE RInv'
<1> DEFINE t == Handler(r)
<1>0. t \in Threads /\ \A s \in Requests : t = Handler(s) => s = r
  BY ThreadFacts
<1>1. /\ pc[t] = "insert" /\ UNCHANGED <<memory, depth, ahead, victim, pick, crashes>>
  BY DEF Insert, purge, local, env
<1>2. Works \/ Fails
  BY DEF Insert
<1>3. pc[t] \in Unseen
  BY <1>1 DEF Unseen
<1>4. CASE Write(r, "500") /\ Return(r) /\ UNCHANGED rows
  <2>1. "500" \in Codes
    BY DEF Codes
  <2> QED BY <1>1, <1>2, <1>3, <1>4, <2>1, RowsRefuse
<1>5. CASE /\ Works /\ rows' = [rows EXCEPT ![<<r, depth[r]>>] = NewRow(job[r].queue, job[r].seq, "waiting")]
           /\ Goto(t, "register") /\ UNCHANGED resp
  <2>1. PICK e \in Depths : e = depth[r] /\ e = job[r].depth
    BY <1>1 DEF IInv, TypeInv, HandleSound, Admitted, RInv, Life, JobDepth
  <2>2. /\ \A s \in Requests, d \in Depths : s # r \/ d # e => rows'[<<s, d>>] = rows[<<s, d>>]
        /\ rows'[<<r, e>>] = NewRow(job[r].queue, job[r].seq, "waiting")
    <3>1. rows \in [JobIds -> Row] /\ <<r, e>> \in JobIds
      BY RowIds DEF IInv, TypeInv, TypeOK, RowsType
    <3>2. \A x \in JobIds : x # <<r, e>> => rows'[x] = rows[x]
      BY <1>5, <2>1, <3>1
    <3> QED BY <1>5, <2>1, <3>1, <3>2, RowIds
  <2>3. /\ pc[t] \in Early /\ r \notin waiters
    BY <1>3, UnseenFacts DEF IInv, Core, EarlyHidden
  <2>4. Steady(t, "register")
    <3>1. "register" \in Early /\ "register" \notin Dropping \cup Late /\ "insert" \notin Dropping
      BY DEF Early, Dropping, Late, Waits
    <3> QED BY <1>1, <1>5, <2>3, <3>1, HandlerSteady
  <2>5. Life' /\ AheadSound'
    BY <1>0, <2>4, SteadyLife, SteadyAhead DEF RInv
  <2>6. \A s \in Requests : pc'[Handler(s)] = IF s = r THEN "register" ELSE pc[Handler(s)]
    BY <1>0, <2>4, SteadyFacts, ThreadFacts
  <2>7. UNCHANGED <<job, waiters>>
    BY <1>1 DEF memory
  <2>8. ActiveSound'
    <3> SUFFICES ASSUME faults' = 0, NEW s \in Requests, NEW d \in Depths,
                        rows'[<<s, d>>].status \in Active
                 PROVE  /\ d = job[s].depth /\ Own(s)'
                        /\ pc'[Handler(s)] \in Early => pc'[Handler(s)] = "register"
      BY <2>7 DEF ActiveSound
    <3>1. CASE s = r /\ d = e
      BY <2>1, <2>6, <3>1 DEF Own
    <3>2. CASE s # r \/ d # e
      <4>1. faults = 0 /\ rows[<<s, d>>].status \in Active
        BY <1>5, <2>2, <3>2 DEF Works
      <4>2. d = job[s].depth /\ Own(s) /\ (pc[Handler(s)] \in Early => pc[Handler(s)] = "register")
        BY <4>1 DEF RInv, ActiveSound
      <4>3. s # r
        BY <1>1, <2>3, <4>2
      <4>4. Own(s)'
        BY <1>0, <2>4, <4>2, SteadyFacts
      <4> QED BY <2>6, <4>2, <4>3, <4>4
    <3> QED BY <3>1, <3>2
  <2>9. WaitRow'
    <3> SUFFICES ASSUME NEW s \in Requests,
                        pc'[Handler(s)] = "register" \/ (s \in waiters /\ job[s].status = "waiting")
                 PROVE  /\ rows'[<<s, job[s].depth>>].status = "waiting"
                        /\ rows'[<<s, job[s].depth>>].queue = job[s].queue
                        /\ rows'[<<s, job[s].depth>>].seq = job[s].seq
      BY <2>7 DEF WaitRow
    <3>1. CASE s = r
      BY <2>1, <2>2, <3>1 DEF NewRow
    <3>2. CASE s # r
      <4>1. PICK d \in Depths : d = job[s].depth
        BY DEF IInv, TypeInv, TypeOK, MemoryType, Job
      <4>2. rows'[<<s, d>>] = rows[<<s, d>>]
        BY <2>2, <3>2
      <4> QED BY <2>6, <3>2, <4>1, <4>2 DEF RInv, WaitRow
    <3> QED BY <3>1, <3>2
  <2>10. OverflowSound'
    <3>1. NoneOpened
      BY <2>2 DEF NoneOpened, NewRow
    <3>2. OverflowKept
      BY <1>1, <2>6, <3>1 DEF OverflowKept, RInv, OverflowSound
    <3> QED BY <1>2, <3>2, OverflowFrame DEF RInv
  <2>11. AnswerSound'
    BY <1>0, <1>5, <2>4, SteadyAnswer DEF RInv
  <2> QED BY <2>5, <2>8, <2>9, <2>10, <2>11 DEF RInv
<1> QED BY <1>4, <1>5 DEF Insert

LEMMA RowsReadSeq ==
  ASSUME IInv, RInv, NEW r \in Requests, ReadSeq(r) PROVE RInv'
<1> DEFINE t == Handler(r)
           q == AliasQueue[alias[r]]
<1>0. t \in Threads /\ \A s \in Requests : t = Handler(s) => s = r
  BY ThreadFacts
<1>1. /\ pc[t] = "seq"
      /\ UNCHANGED <<rows, inflight, waiters, done, depth, victim, pick, crashes>>
  BY DEF ReadSeq, purge, local, env
<1>2. Works \/ Fails
  BY DEF ReadSeq
<1>3. pc[t] \in Unseen /\ pc[t] \in Early
  BY <1>1 DEF Unseen, Early
<1>4. CASE Write(r, "500") /\ Return(r) /\ UNCHANGED <<job, ahead>>
  <2>1. "500" \in Codes
    BY DEF Codes
  <2> QED BY <1>1, <1>2, <1>3, <1>4, <2>1, RowsRefuse DEF memory
<1>5. CASE /\ \E n \in Seqs :
                /\ IsNextSeq(q, n)
                /\ job' = [job EXCEPT ![r] = [queue |-> q, seq |-> n, depth |-> depth[r],
                                              model |-> NoModel, status |-> "waiting"]]
           /\ ahead' = [ahead EXCEPT ![r] = WaitingOf(q)]
           /\ Goto(t, "insert") /\ UNCHANGED resp
  <2>1. PICK n \in Seqs :
          /\ IsNextSeq(q, n)
          /\ job' = [job EXCEPT ![r] = [queue |-> q, seq |-> n, depth |-> depth[r],
                                        model |-> NoModel, status |-> "waiting"]]
    BY <1>5
  <2>2. /\ job'[r].queue = q /\ job'[r].seq = n /\ job'[r].depth = depth[r] /\ job'[r].status = "waiting"
        /\ \A s \in Requests \ {r} : job'[s] = job[s]
        /\ ahead'[r] = WaitingOf(q) /\ \A s \in Requests \ {r} : ahead'[s] = ahead[s]
    BY <1>5, <2>1 DEF IInv, TypeInv, TypeOK, MemoryType, ClientType
  <2>3. \A u \in Threads : pc'[u] = IF u = t THEN "insert" ELSE pc[u]
    BY <1>5 DEF Goto, IInv, TypeInv, TypeOK, PcType
  <2>4. \A s \in Requests : /\ pc'[Handler(s)] = IF s = r THEN "insert" ELSE pc[Handler(s)]
                            /\ pc'[Runner(s)] = pc[Runner(s)]
                            /\ pc'[Handler(s)] \in Early <=> pc[Handler(s)] \in Early
    BY <1>3, <2>3, ThreadFacts DEF Early
  <2>5. \A u \in Threads : /\ pc'[u] \in {"commit", "launch"} <=> pc[u] \in {"commit", "launch"}
                           /\ pc'[u] \in Dropping <=> pc[u] \in Dropping
                           /\ pc'[u] # "insert" => pc'[u] = pc[u]
                           /\ pc'[u] \in {"commit", "launch"} \cup Dropping => pc'[u] = pc[u]
    BY <1>1, <2>3 DEF Dropping
  <2>6. /\ r \notin waiters /\ pc[Runner(r)] = "off" /\ waiters \subseteq Requests
        /\ \A u \in Threads : ~PickedBy(u, r)
    BY <1>3 DEF IInv, Core, EarlyHidden, TypeInv, TypeOK, MemoryType
  <2>7. \A p : WaitingOf(p)' = WaitingOf(p)
    BY <1>1, <2>2, <2>6 DEF WaitingOf
  <2>8. Life'
    <3>1. WaitersLive'
      BY <1>1, <2>4, <2>6 DEF RInv, Life, WaitersLive
    <3>2. VictimGone'
      <4> SUFFICES ASSUME NEW u \in Threads, pc'[u] \in Dropping
                   PROVE  /\ victim[u] \notin waiters /\ pc'[Handler(victim[u])] \notin Early
                          /\ pc'[u] \in {"tmark", "tsave"} => u = Handler(victim[u])
                          /\ pc'[u] \in {"save", "tsave"} => job'[victim[u]].status \in Final
        BY <1>1 DEF VictimGone
      <4>1. pc[u] \in Dropping /\ pc'[u] = pc[u] /\ victim[u] \in Requests
        BY <2>5 DEF IInv, TypeInv, VictimSound, Dropping
      <4>2. victim[u] # r
        BY <1>3, <4>1 DEF RInv, Life, VictimGone
      <4> QED BY <2>2, <2>4, <4>1, <4>2 DEF RInv, Life, VictimGone
    <3>3. DoneFinal'
      BY <1>1, <1>3, <2>2, <2>4, <2>6 DEF RInv, Life, DoneFinal
    <3>4. JobDepth'
      BY <1>1, <2>2, <2>4 DEF RInv, Life, JobDepth
    <3> QED BY <3>1, <3>2, <3>3, <3>4 DEF Life
  <2>9. ActiveSound'
    <3> SUFFICES ASSUME faults' = 0, NEW s \in Requests, NEW d \in Depths,
                        rows[<<s, d>>].status \in Active
                 PROVE  /\ d = job'[s].depth /\ Own(s)'
                        /\ pc'[Handler(s)] \in Early => pc'[Handler(s)] = "register"
      BY <1>1 DEF ActiveSound
    <3>1. d = job[s].depth /\ Own(s) /\ (pc[Handler(s)] \in Early => pc[Handler(s)] = "register")
      BY <1>2, FaultFacts DEF RInv, ActiveSound
    <3>2. s # r
      BY <1>1, <1>3, <3>1
    <3>3. Own(s)'
      BY <1>1, <2>4, <2>5, <3>1, <3>2 DEF Own
    <3> QED BY <2>2, <2>4, <3>1, <3>2, <3>3
  <2>10. WaitRow'
    BY <1>1, <2>2, <2>4, <2>6 DEF RInv, WaitRow
  <2>11. AheadSound'
    <3> SUFFICES ASSUME NEW s \in Requests, NEW x \in ahead'[s]
                 PROVE  /\ pc'[Handler(x)] \notin Early
                        /\ job'[s].status = "waiting" /\ x \in WaitingOf(job'[s].queue) => job'[x].seq < job'[s].seq
                        /\ \A u \in Threads : pc'[u] = "commit" /\ pick[u].r = s => x \notin WaitingOf(job'[s].queue)
      BY <1>1, <2>7 DEF AheadSound
    <3>1. CASE s = r
      <4>1. x \in WaitingOf(q) /\ x \in Requests /\ x \in waiters /\ job[x].queue = q /\ job[x].status = "waiting"
        BY <2>2, <2>6, <3>1 DEF WaitingOf
      <4>2. pc[Handler(x)] \notin Early /\ x # r
        BY <1>3, <4>1 DEF IInv, Core, EarlyHidden
      <4>3. job[x].seq < n
        <5>1. PICK d \in Depths : d = job[x].depth
          BY <4>1 DEF IInv, TypeInv, TypeOK, MemoryType, Job
        <5>2. /\ rows[<<x, d>>].status = "waiting" /\ rows[<<x, d>>].queue = q
              /\ rows[<<x, d>>].seq = job[x].seq
          BY <4>1, <5>1 DEF RInv, WaitRow
        <5>3. <<x, d>> \in RowsOf(q)
          BY <4>1, <5>2, RowIds DEF RowsOf
        <5> QED BY <2>1, <5>2, <5>3 DEF IsNextSeq
      <4>4. \A u \in Threads : ~(pc'[u] = "commit" /\ pick[u].r = r)
        BY <2>5, <2>6 DEF PickedBy
      <4> QED BY <2>2, <2>4, <3>1, <4>1, <4>2, <4>3, <4>4
    <3>2. CASE s # r
      <4>1. x \in ahead[s] /\ x \in Requests
        BY <2>2, <3>2 DEF IInv, TypeInv, TypeOK, ClientType
      <4>2. x # r /\ pc[Handler(x)] \notin Early
        BY <1>3, <4>1 DEF RInv, AheadSound
      <4> QED BY <2>2, <2>4, <2>5, <3>2, <4>1, <4>2 DEF RInv, AheadSound
    <3> QED BY <3>1, <3>2
  <2>12. OverflowSound'
    <3>1. OverflowKept
      BY <1>1, <2>4 DEF OverflowKept, NoneOpened, RInv, OverflowSound
    <3> QED BY <1>2, <3>1, OverflowFrame DEF RInv
  <2>13. AnswerSound'
    <3>1. \A s \in Requests : Startable(s)' => Startable(s)
      BY <1>1, <2>2, <2>4, <2>5, <2>6 DEF Startable, PickedBy
    <3>2. \A s \in Requests : pc'[Handler(s)] \in Late => pc[Handler(s)] \in Late
      BY <2>4 DEF Late, Waits
    <3>3. AnswerKept
      BY <1>1, <1>5, <2>2, <2>4, <3>1, <3>2 DEF AnswerKept
    <3> QED BY <3>3, AnswerFrame DEF RInv
  <2> QED BY <2>8, <2>9, <2>10, <2>11, <2>12, <2>13 DEF RInv
<1> QED BY <1>4, <1>5 DEF ReadSeq

LEMMA RowsRegister ==
  ASSUME IInv, RInv, NEW r \in Requests, Register(r) PROVE RInv'
<1> DEFINE t == Handler(r)
<1>1. /\ pc[t] = "register" /\ Goto(t, "get") /\ waiters' = waiters \cup {r}
      /\ UNCHANGED <<rows, job, done, depth, ahead, resp, victim, pick, crashes, faults>>
  BY DEF Register, client, purge, env
<1>2. pc[t] \in Early /\ "get" \notin Early
  BY <1>1 DEF Early
<1>3. \A u \in Threads : pc'[u] = IF u = t THEN "get" ELSE pc[u]
  BY <1>1 DEF Goto, IInv, TypeInv, TypeOK, PcType
<1>4. \A s \in Requests : /\ pc'[Handler(s)] = IF s = r THEN "get" ELSE pc[Handler(s)]
                          /\ pc'[Runner(s)] = pc[Runner(s)]
  BY <1>3, ThreadFacts
<1>5. \A u \in Threads : /\ pc'[u] \in {"commit", "launch"} \cup Dropping => pc'[u] = pc[u]
                         /\ pc[u] \in {"commit", "launch"} \cup Dropping => pc'[u] = pc[u]
  BY <1>1, <1>3 DEF Dropping
<1>6. /\ r \notin waiters /\ pc[Runner(r)] = "off" /\ waiters \subseteq Requests /\ r \notin done
      /\ \A u \in Threads : ~PickedBy(u, r)
  BY <1>2 DEF IInv, Core, EarlyHidden, TypeInv, TypeOK, MemoryType, RInv, Life, DoneFinal
<1>7. Life'
  <2>1. WaitersLive'
    BY <1>1, <1>4, <1>6 DEF RInv, Life, WaitersLive, Waits, Busy
  <2>2. VictimGone'
    <3> SUFFICES ASSUME NEW u \in Threads, pc'[u] \in Dropping
                 PROVE  /\ victim[u] \notin waiters' /\ pc'[Handler(victim[u])] \notin Early
                        /\ pc'[u] \in {"tmark", "tsave"} => u = Handler(victim[u])
                        /\ pc'[u] \in {"save", "tsave"} => job[victim[u]].status \in Final
      BY <1>1 DEF VictimGone
    <3>1. pc[u] \in Dropping /\ pc'[u] = pc[u] /\ victim[u] \in Requests
      BY <1>5 DEF IInv, TypeInv, VictimSound, Dropping
    <3>2. victim[u] # r
      BY <1>2, <3>1 DEF RInv, Life, VictimGone
    <3> QED BY <1>1, <1>4, <3>1, <3>2 DEF RInv, Life, VictimGone
  <2>3. DoneFinal' /\ JobDepth'
    BY <1>1, <1>2, <1>4 DEF RInv, Life, DoneFinal, JobDepth
  <2> QED BY <2>1, <2>2, <2>3 DEF Life
<1>8. ActiveSound'
  <2>1. \A s \in Requests : Own(s) => Own(s)'
    BY <1>1, <1>4, <1>5 DEF Own
  <2> QED BY <1>1, <1>2, <1>4, <2>1 DEF RInv, ActiveSound
<1>9. WaitRow'
  BY <1>1, <1>4 DEF RInv, WaitRow
<1>10. AheadSound'
  <2>1. \A p : \A x \in WaitingOf(p)' : x = r \/ x \in WaitingOf(p)
    BY <1>1 DEF WaitingOf
  <2>2. \A s \in Requests : \A x \in ahead[s] : x \in Requests /\ x # r
    BY <1>2 DEF IInv, TypeInv, TypeOK, ClientType, RInv, AheadSound
  <2> QED BY <1>1, <1>2, <1>4, <1>5, <2>1, <2>2 DEF RInv, AheadSound
<1>11. OverflowSound'
  <2>1. OverflowKept
    BY <1>1, <1>4 DEF OverflowKept, NoneOpened, RInv, OverflowSound
  <2> QED BY <1>1, <2>1, OverflowFrame DEF RInv, Works
<1>12. AnswerSound'
  <2>1. resp[r] = << >>
    BY <1>2 DEF RInv, AnswerSound
  <2>2. \A s \in Requests \ {r} : Startable(s)' => Startable(s)
    BY <1>1, <1>4, <1>5 DEF Startable, PickedBy
  <2>3. \A s \in Requests : /\ pc'[Handler(s)] \in Late => pc[Handler(s)] \in Late \cup Early
                            /\ pc'[Handler(s)] \in Early => pc[Handler(s)] \in Early
    BY <1>2, <1>4
  <2>4. AnswerKept
    BY <1>1, <1>4, <2>1, <2>2, <2>3 DEF AnswerKept
  <2> QED BY <2>4, AnswerFrame DEF RInv
<1> QED BY <1>7, <1>8, <1>9, <1>10, <1>11, <1>12 DEF RInv

(***************************************************************************)
(* dispatch.                                                               *)
(***************************************************************************)
\* dispatch returns, or goes back to the head of the queue.
LEMMA RowsDispatchMove ==
  ASSUME IInv, RInv, NEW t \in Threads, NEW l, Goto(t, l), pc[t] \in {"get", "scan", "commit"},
         l = "scan" \/ IF t = Loop THEN l \in {"stats", "get"}
                       ELSE l = IF t[1] = "handler" THEN "select" ELSE "end",
         Works \/ Fails, \A u \in Threads \ {t} : pick'[u] = pick[u],
         UNCHANGED <<rows, memory, depth, ahead, resp, victim, crashes>>
  PROVE  RInv'
<1>1. /\ \A s \in Requests : t = Handler(s) => t # Loop /\ l \in {"scan", "select"}
      /\ \A s \in Requests : t = Runner(s) => t # Loop /\ l \in {"scan", "end"}
      /\ l \in {"scan", "stats", "get", "select", "end"}
  BY ThreadFacts
<1>2. /\ {"scan", "select"} \cap Early = {} /\ {"scan", "select"} \subseteq Waits
      /\ {"get", "scan", "commit"} \subseteq Late
      /\ {"get", "scan", "commit", "end", "stats", "select"} \cap (Dropping \cup Busy \cup {"store", "register", "launch"}) = {}
  BY DEF Early, Waits, Late, Dropping, Busy
<1>3. Steady(t, l)
  <2>1. \A s \in Requests : t = Handler(s) =>
          /\ l \notin Early /\ l \in Waits /\ l \notin {"insert", "register"} /\ pc[t] \in Late
    BY <1>1, <1>2
  <2>2. \A s \in Requests : t = Runner(s) => pc[t] \notin Busy \cup {"store"} /\ l \notin Busy \cup {"store"}
    BY <1>1, <1>2
  <2>3. /\ pc[t] \notin Dropping \cup {"launch", "register"}
        /\ l \notin Dropping \cup {"commit", "launch"}
    BY <1>1, <1>2
  <2> QED BY <2>1, <2>2, <2>3 DEF Steady, memory
<1>4. AnswerSound'
  BY <1>1, <1>3, SteadyAnswer DEF RInv
<1> QED BY <1>1, <1>3, <1>4, RowsSame, SteadyStep

\* The head of the queue is chosen: nobody it must let pass waits.
LEMMA RowsPick ==
  ASSUME IInv, RInv, NEW t \in Threads, pc[t] \in {"get", "scan"}, NEW r \in waiters,
         IsHead(r, cur[t]), pick'[t].r = r, \A u \in Threads \ {t} : pick'[u] = pick[u],
         Goto(t, "commit"), Works \/ Fails,
         UNCHANGED <<rows, memory, depth, ahead, resp, victim, crashes>>
  PROVE  RInv'
<1>1. \A u \in Threads : pc'[u] = IF u = t THEN "commit" ELSE pc[u]
  BY DEF Goto, IInv, TypeInv, TypeOK, PcType
<1>2. /\ r \in Requests /\ job[r].status = "waiting" /\ job[r].queue = cur[t]
      /\ waiters \subseteq Requests
  BY DEF IsHead, WaitingOf, IInv, TypeInv, TypeOK, MemoryType
<1>3. \A s \in Requests : /\ pc'[Handler(s)] \in Early <=> (pc[Handler(s)] \in Early /\ t # Handler(s))
                          /\ pc[Handler(s)] \in Early => pc'[Handler(s)] = pc[Handler(s)]
                          /\ pc'[Handler(s)] \in Late <=> pc[Handler(s)] \in Late
                          /\ pc'[Handler(s)] \in Waits <=> pc[Handler(s)] \in Waits
                          /\ pc'[Runner(s)] \in {"off", "forward", "finish", "store"}
                               <=> pc[Runner(s)] \in {"off", "forward", "finish", "store"}
                          /\ pc[Runner(s)] \in {"off", "forward", "finish", "store"} => pc'[Runner(s)] = pc[Runner(s)]
                          /\ pc[Handler(s)] \in {"lost", "direct", "insert", "register", "returned", "unwind"}
                               => pc'[Handler(s)] = pc[Handler(s)]
                          /\ pc'[Handler(s)] \in {"lost", "direct", "insert", "register", "returned", "unwind"}
                               => pc'[Handler(s)] = pc[Handler(s)]
  BY <1>1, ThreadFacts DEF Early, Late, Waits
<1>4. \A u \in Threads : /\ pc'[u] \in {"launch"} \cup Dropping => u # t /\ pc'[u] = pc[u]
                         /\ pc[u] \in {"launch"} \cup Dropping => u # t /\ pc'[u] = pc[u]
  BY <1>1 DEF Dropping
<1>5. UNCHANGED <<waiters, done, job>>
  BY DEF memory
<1>6. Life'
  <2>1. WaitersLive'
    BY <1>2, <1>3, <1>5 DEF RInv, Life, WaitersLive, Busy
  <2>2. VictimGone'
    <3> SUFFICES ASSUME NEW u \in Threads, pc'[u] \in Dropping
                 PROVE  /\ victim[u] \notin waiters /\ pc'[Handler(victim[u])] \notin Early
                        /\ pc'[u] \in {"tmark", "tsave"} => u = Handler(victim[u])
                        /\ pc'[u] \in {"save", "tsave"} => job[victim[u]].status \in Final
      BY <1>5 DEF VictimGone
    <3>1. pc[u] \in Dropping /\ pc'[u] = pc[u] /\ victim[u] \in Requests
      BY <1>4 DEF IInv, TypeInv, VictimSound, Dropping
    <3> QED BY <1>3, <3>1 DEF RInv, Life, VictimGone
  <2>3. DoneFinal' /\ JobDepth'
    BY <1>3, <1>5 DEF RInv, Life, DoneFinal, JobDepth
  <2> QED BY <2>1, <2>2, <2>3 DEF Life
<1>7. ActiveSound'
  <2>1. \A s \in Requests : Own(s) => Own(s)'
    BY <1>3, <1>4, <1>5 DEF Own
  <2> QED BY <1>3, <1>5, <2>1, FaultFacts DEF RInv, ActiveSound
<1>8. WaitRow'
  BY <1>3, <1>5 DEF RInv, WaitRow
<1>9. AheadSound'
  <2>1. \A p : WaitingOf(p)' = WaitingOf(p)
    BY <1>5 DEF WaitingOf
  <2> SUFFICES ASSUME NEW s \in Requests, NEW x \in ahead[s]
               PROVE  /\ pc'[Handler(x)] \notin Early
                      /\ job[s].status = "waiting" /\ x \in WaitingOf(job[s].queue) => job[x].seq < job[s].seq
                      /\ \A u \in Threads : pc'[u] = "commit" /\ pick'[u].r = s => x \notin WaitingOf(job[s].queue)
    BY <1>5, <2>1 DEF AheadSound
  <2>2. x \in Requests
    BY DEF IInv, TypeInv, TypeOK, ClientType
  <2>3. /\ pc[Handler(x)] \notin Early
        /\ job[s].status = "waiting" /\ x \in WaitingOf(job[s].queue) => job[x].seq < job[s].seq
    BY DEF RInv, AheadSound
  <2>4. ASSUME NEW u \in Threads, pc'[u] = "commit", pick'[u].r = s PROVE x \notin WaitingOf(job[s].queue)
    <3>1. CASE u = t
      <4>1. s = r
        BY <2>4, <3>1
      <4>2. x \in WaitingOf(job[s].queue) => job[r].seq <= job[x].seq
        BY <1>2, <4>1 DEF IsHead
      <4>3. job[r].seq \in Nat /\ job[x].seq \in Nat
        BY <1>2, <2>2 DEF IInv, TypeInv, TypeOK, MemoryType, Job
      <4> QED BY <1>2, <2>3, <4>1, <4>2, <4>3
    <3>2. CASE u # t
      BY <1>1, <2>4, <3>2 DEF RInv, AheadSound
    <3> QED BY <3>1, <3>2
  <2> QED BY <1>3, <2>2, <2>3, <2>4
<1>10. OverflowSound'
  <2>1. OverflowKept
    BY <1>3 DEF OverflowKept, NoneOpened, RInv, OverflowSound
  <2> QED BY <2>1, OverflowFrame DEF RInv
<1>11. AnswerSound'
  <2>1. \A s \in Requests : Startable(s)' => Startable(s)
    <3> SUFFICES ASSUME NEW s \in Requests, Startable(s)' PROVE Startable(s)
      OBVIOUS
    <3>1. ASSUME NEW u \in Threads, PickedBy(u, s)', job[s].status = "waiting" PROVE Startable(s)
      <4>1. CASE u = t
        BY <1>2, <3>1, <4>1 DEF Startable, PickedBy
      <4>2. CASE u # t
        BY <1>1, <3>1, <4>2 DEF Startable, PickedBy
      <4> QED BY <4>1, <4>2
    <3>2. (\E u \in Threads : pc'[u] = "launch" /\ pick'[u].r = s) => Startable(s)
      BY <1>4 DEF Startable
    <3>3. pc'[Runner(s)] = "forward" => Startable(s)
      BY <1>3 DEF Startable
    <3> QED BY <1>5, <3>1, <3>2, <3>3 DEF Startable
  <2>2. AnswerKept
    BY <1>3, <1>5, <2>1 DEF AnswerKept
  <2> QED BY <2>2, AnswerFrame DEF RInv
<1> QED BY <1>6, <1>7, <1>8, <1>9, <1>10, <1>11 DEF RInv

LEMMA ReturnMoves ==
  ASSUME NEW t, DispatchReturn(t)
  PROVE  \E l : Goto(t, l) /\ IF t = Loop THEN l \in {"stats", "get"}
                              ELSE l = IF t[1] = "handler" THEN "select" ELSE "end"
BY DEF DispatchReturn, NextQueue

LEMMA RowsChoose ==
  ASSUME IInv, RInv, NEW t \in Threads, NEW c, Choose(t, c), pc[t] \in {"get", "scan"}, Works \/ Fails,
         UNCHANGED <<rows, memory, depth, ahead, resp, victim, crashes>>
  PROVE  RInv'
<1>1. CASE DispatchReturn(t) /\ UNCHANGED pick
  BY <1>1, ReturnMoves, RowsDispatchMove
<1>2. ASSUME NEW r \in waiters, NEW m, NEW k, IsHead(r, cur[t]), Goto(t, "commit"),
             pick' = [pick EXCEPT ![t] = [r |-> r, model |-> m, cap |-> k]]
      PROVE  RInv'
  <2>1. pick'[t].r = r /\ \A u \in Threads \ {t} : pick'[u] = pick[u]
    BY <1>2 DEF IInv, TypeInv, TypeOK, LocalType
  <2> QED BY <1>2, <2>1, RowsPick
<1> QED BY <1>1, <1>2 DEF Choose

LEMMA RowsLook ==
  ASSUME IInv, RInv, NEW t \in Threads, GetQueue(t) \/ Scan(t) PROVE RInv'
<1>1. /\ pc[t] \in {"get", "scan"}
      /\ UNCHANGED <<rows, memory, depth, ahead, resp, victim, crashes>>
  BY DEF GetQueue, Scan, client, purge, env
<1>2. Works \/ Fails
  BY DEF GetQueue, Scan, Works
<1>3. (\E c : Choose(t, c)) \/ (DispatchReturn(t) /\ UNCHANGED pick)
  BY DEF GetQueue, Scan
<1>4. CASE DispatchReturn(t) /\ UNCHANGED pick
  BY <1>1, <1>2, <1>4, ReturnMoves, RowsDispatchMove
<1> QED BY <1>1, <1>2, <1>3, <1>4, RowsChoose

\* The second critical section: a waiting job becomes a running one.
LEMMA RowsCommit ==
  ASSUME IInv, RInv, NEW t \in Threads, Commit(t) PROVE RInv'
<1>0. /\ pc[t] = "commit" /\ Works
      /\ UNCHANGED <<rows, waiters, done, depth, ahead, resp, victim, crashes>>
  BY DEF Commit, client, purge, env, Works
<1>1. CASE ~Stands(pick[t])
  <2>1. Goto(t, "scan") /\ UNCHANGED <<inflight, job>> /\ pick' = [pick EXCEPT ![t] = NoPick]
    BY <1>1 DEF Commit
  <2>2. \A u \in Threads \ {t} : pick'[u] = pick[u]
    BY <2>1 DEF IInv, TypeInv, TypeOK, LocalType
  <2> QED BY <1>0, <2>1, <2>2, RowsDispatchMove DEF memory
<1>2. CASE Stands(pick[t])
  <2>1. PICK r \in Requests : r = pick[t].r
    BY <1>0 DEF IInv, Core, PickSound
  <2>2. /\ Goto(t, "launch") /\ UNCHANGED pick
        /\ job' = [job EXCEPT ![r].status = "running", ![r].model = pick[t].model]
    BY <1>2, <2>1 DEF Commit
  <2>3. /\ job'[r].status = "running" /\ job'[r].depth = job[r].depth
        /\ job'[r].queue = job[r].queue /\ job'[r].seq = job[r].seq
        /\ \A s \in Requests \ {r} : job'[s] = job[s]
        /\ job[r].status = "waiting"
    BY <1>2, <2>1, <2>2 DEF Stands, IInv, TypeInv, TypeOK, MemoryType, Job
  <2>4. \A u \in Threads : pc'[u] = IF u = t THEN "launch" ELSE pc[u]
    BY <2>2 DEF Goto, IInv, TypeInv, TypeOK, PcType
  <2>5. \A s \in Requests : /\ pc'[Handler(s)] \in Early => pc'[Handler(s)] = pc[Handler(s)]
                            /\ pc[Handler(s)] \in Early => pc'[Handler(s)] = pc[Handler(s)]
                            /\ pc'[Handler(s)] \in Late <=> pc[Handler(s)] \in Late
                            /\ pc'[Handler(s)] \in Waits <=> pc[Handler(s)] \in Waits
                            /\ pc'[Runner(s)] \in {"off", "forward", "finish", "store"}
                                 <=> pc[Runner(s)] \in {"off", "forward", "finish", "store"}
                            /\ pc[Runner(s)] \in {"off", "forward", "finish", "store"} => pc'[Runner(s)] = pc[Runner(s)]
                            /\ pc[Handler(s)] \in {"lost", "direct", "insert", "register", "returned", "unwind"}
                                 => pc'[Handler(s)] = pc[Handler(s)]
                            /\ pc'[Handler(s)] \in {"lost", "direct", "insert", "register", "returned", "unwind"}
                                 => pc'[Handler(s)] = pc[Handler(s)]
    BY <1>0, <2>4, ThreadFacts DEF Early, Late, Waits
  <2>6. \A u \in Threads : /\ pc'[u] \in {"commit"} \cup Dropping => u # t /\ pc'[u] = pc[u]
                           /\ pc[u] \in {"launch"} \cup Dropping => u # t /\ pc'[u] = pc[u]
    BY <1>0, <2>4 DEF Dropping
  <2>7. pc[Runner(r)] \in {"off", "forward"} /\ r \notin done
    BY <2>3 DEF RInv, Life, DoneFinal, Final
  <2>8. \A s \in Requests : /\ job'[s].depth = job[s].depth /\ job'[s].queue = job[s].queue
                            /\ job'[s].seq = job[s].seq
                            /\ job'[s].status = "waiting" => job[s].status = "waiting" /\ s # r
                            /\ job'[s].status # "running" => job'[s].status = job[s].status
                            /\ job[s].status \in Final => job'[s].status = job[s].status
    BY <2>3 DEF Final
  <2>9. Life'
    <3>1. WaitersLive'
      <4>1. waiters \subseteq Requests
        BY DEF IInv, TypeInv, TypeOK, MemoryType
      <4> QED BY <1>0, <2>5, <4>1 DEF RInv, Life, WaitersLive, Busy
    <3>2. VictimGone'
      <4> SUFFICES ASSUME NEW u \in Threads, pc'[u] \in Dropping
                   PROVE  /\ victim[u] \notin waiters /\ pc'[Handler(victim[u])] \notin Early
                          /\ pc'[u] \in {"tmark", "tsave"} => u = Handler(victim[u])
                          /\ pc'[u] \in {"save", "tsave"} => job'[victim[u]].status \in Final
        BY <1>0 DEF VictimGone
      <4>1. pc[u] \in Dropping /\ pc'[u] = pc[u] /\ victim[u] \in Requests
        BY <2>6 DEF IInv, TypeInv, VictimSound, Dropping
      <4>2. pc'[Handler(victim[u])] \notin Early
        BY <2>5, <4>1 DEF RInv, Life, VictimGone
      <4> QED BY <2>8, <4>1, <4>2 DEF RInv, Life, VictimGone
    <3>3. DoneFinal'
      <4> SUFFICES ASSUME NEW s \in Requests
                   PROVE  /\ s \in done => pc'[Handler(s)] \notin Early /\ job'[s].status \in Final
                          /\ pc'[Runner(s)] \notin {"off", "forward"} => job'[s].status \in Final
        BY <1>0 DEF DoneFinal
      <4>1. s \in done => pc'[Handler(s)] \notin Early /\ job'[s].status \in Final
        BY <2>5, <2>8 DEF RInv, Life, DoneFinal
      <4>2. pc'[Runner(s)] \notin {"off", "forward"} => job'[s].status \in Final
        BY <2>5, <2>8 DEF RInv, Life, DoneFinal
      <4> QED BY <4>1, <4>2
    <3>4. JobDepth'
      BY <1>0, <2>5, <2>8 DEF RInv, Life, JobDepth
    <3> QED BY <3>1, <3>2, <3>3, <3>4 DEF Life
  <2>10. ActiveSound'
    <3>1. \A s \in Requests : Own(s) => Own(s)'
      BY <1>0, <2>2, <2>5, <2>6 DEF Own
    <3> QED BY <1>0, <2>5, <2>8, <3>1, FaultFacts DEF RInv, ActiveSound
  <2>11. WaitRow'
    BY <1>0, <2>5, <2>8 DEF RInv, WaitRow
  <2>12. AheadSound'
    <3>1. \A p : WaitingOf(p)' \subseteq WaitingOf(p)
      BY <1>0, <2>8 DEF WaitingOf, IInv, TypeInv, TypeOK, MemoryType
    <3> SUFFICES ASSUME NEW s \in Requests, NEW x \in ahead[s]
                 PROVE  /\ pc'[Handler(x)] \notin Early
                        /\ job'[s].status = "waiting" /\ x \in WaitingOf(job[s].queue)' => job'[x].seq < job'[s].seq
                        /\ \A u \in Threads : pc'[u] = "commit" /\ pick[u].r = s => x \notin WaitingOf(job[s].queue)'
      BY <1>0, <2>2 DEF AheadSound
    <3>2. x \in Requests
      BY DEF IInv, TypeInv, TypeOK, ClientType
    <3>3. x \in WaitingOf(job[s].queue)' => x \in WaitingOf(job[s].queue)
      BY <1>0, <2>8, <3>2 DEF WaitingOf
    <3> QED BY <2>5, <2>6, <2>8, <3>2, <3>3 DEF RInv, AheadSound
  <2>13. OverflowSound'
    <3>1. OverflowKept
      BY <1>0, <2>5 DEF OverflowKept, NoneOpened, RInv, OverflowSound
    <3> QED BY <1>0, <3>1, OverflowFrame DEF RInv
  <2>14. AnswerSound'
    <3>1. \A s \in Requests : Startable(s)' => Startable(s)
      <4> SUFFICES ASSUME NEW s \in Requests, Startable(s)' PROVE Startable(s)
        OBVIOUS
      <4>1. CASE s = r
        BY <1>0, <2>1, <2>3, <4>1 DEF Startable, PickedBy
      <4>2. CASE s # r
        <5>1. \A u \in Threads : pc'[u] \in {"commit", "launch"} /\ pick[u].r = s => u # t /\ pc'[u] = pc[u]
          BY <2>1, <2>4, <4>2
        <5>2. job'[s] = job[s] /\ (pc'[Runner(s)] = "forward" => pc[Runner(s)] = "forward")
          BY <2>3, <2>5, <4>2
        <5> QED BY <1>0, <2>2, <5>1, <5>2 DEF Startable, PickedBy
      <4> QED BY <4>1, <4>2
    <3>2. AnswerKept
      BY <1>0, <2>3, <2>5, <2>8, <3>1 DEF AnswerKept, Final
    <3> QED BY <3>2, AnswerFrame DEF RInv
  <2> QED BY <2>9, <2>10, <2>11, <2>12, <2>13, <2>14 DEF RInv
<1> QED BY <1>1, <1>2

LEMMA RowsLaunch ==
  ASSUME IInv, RInv, NEW t \in Threads, Launch(t) PROVE RInv'
<1>1. /\ pc[t] = "launch"
      /\ UNCHANGED <<waiters, done, job, depth, ahead, resp, victim, crashes>>
  BY DEF Launch, memory, client, purge, env
<1>2. PICK r \in Requests : r = pick[t].r
  BY <1>1 DEF IInv, Core, PickSound
<1>3. /\ pc' = [pc EXCEPT ![t] = "scan", ![Runner(r)] = "forward"]
      /\ pick' = [pick EXCEPT ![t] = NoPick]
      /\ UpdateQueueJob(<<r, job[r].depth>>, "running", FALSE)
  BY <1>2 DEF Launch
<1>4. /\ job[r].status # "waiting" /\ pc[Runner(r)] = "off" /\ pc[Handler(r)] \notin Early
      /\ \A u \in Threads : pc[u] = "launch" /\ pick[u].r = r => u = t
  BY <1>1, <1>2 DEF IInv, Core, LaunchSound, EarlyHidden, PickedBy
<1>5. Runner(r) # t
  BY <1>1, <1>4
<1>6. \A u \in Threads : pc'[u] = IF u = t THEN "scan" ELSE IF u = Runner(r) THEN "forward" ELSE pc[u]
  BY <1>3, <1>5, ThreadFacts DEF IInv, TypeInv, TypeOK, PcType
<1>7. \A s \in Requests : /\ pc'[Handler(s)] \in Early => pc'[Handler(s)] = pc[Handler(s)]
                          /\ pc[Handler(s)] \in Early => pc'[Handler(s)] = pc[Handler(s)]
                          /\ pc'[Handler(s)] \in Late <=> pc[Handler(s)] \in Late
                          /\ pc'[Handler(s)] \in Waits <=> pc[Handler(s)] \in Waits
                          /\ s # r => (pc'[Runner(s)] \in {"off", "forward", "finish", "store"}
                                         <=> pc[Runner(s)] \in {"off", "forward", "finish", "store"})
                          /\ s # r /\ pc[Runner(s)] \in {"off", "forward", "finish", "store"}
                               => pc'[Runner(s)] = pc[Runner(s)]
                          /\ pc[Handler(s)] \in {"lost", "direct", "insert", "register", "returned", "unwind"}
                               => pc'[Handler(s)] = pc[Handler(s)]
                          /\ pc'[Handler(s)] \in {"lost", "direct", "insert", "register", "returned", "unwind"}
                               => pc'[Handler(s)] = pc[Handler(s)]
  BY <1>1, <1>6, ThreadFacts DEF Early, Late, Waits
<1>8. pc'[Runner(r)] = "forward"
  BY <1>5, <1>6, ThreadFacts
<1>9. /\ \A u \in Threads \ {t} : pick'[u] = pick[u]
      /\ \A u \in Threads : /\ pc'[u] \in {"commit", "launch"} \cup Dropping => u # t /\ pc'[u] = pc[u]
                            /\ pc[u] \in {"launch"} \cup Dropping /\ u # t => pc'[u] = pc[u]
  <2>1. \A u \in Threads \ {t} : pick'[u] = pick[u]
    BY <1>3 DEF IInv, TypeInv, TypeOK, LocalType
  <2>2. \A u \in Threads : pc'[u] \in {"commit", "launch"} \cup Dropping => u # t /\ pc'[u] = pc[u]
    BY <1>6 DEF Dropping
  <2>3. \A u \in Threads : pc[u] \in {"launch"} \cup Dropping /\ u # t => pc'[u] = pc[u]
    BY <1>4, <1>6 DEF Dropping
  <2> QED BY <2>1, <2>2, <2>3
<1>10. PICK e \in Depths : e = job[r].depth
  BY DEF IInv, TypeInv, TypeOK, MemoryType, Job
<1>11. /\ Works \/ Fails
       /\ \A s \in Requests, d \in Depths : s # r \/ d # e => rows'[<<s, d>>] = rows[<<s, d>>]
       /\ rows'[<<r, e>>] = rows[<<r, e>>] \/ rows'[<<r, e>>].status = "running"
  <2>1. <<r, e>> \in JobIds /\ UpdateQueueJob(<<r, e>>, "running", FALSE)
    BY <1>3, <1>10, RowIds
  <2>2. /\ Works \/ Fails
        /\ \A x \in JobIds : x # <<r, e>> => rows'[x] = rows[x]
        /\ rows'[<<r, e>>] = rows[<<r, e>>] \/ rows'[<<r, e>>].status = "running"
    BY <2>1, UpdateRows
  <2> QED BY <2>2, RowIds
<1>12. Life'
  <2>1. WaitersLive'
    <3>1. waiters \subseteq Requests
      BY DEF IInv, TypeInv, TypeOK, MemoryType
    <3> QED BY <1>1, <1>7, <1>8, <3>1 DEF RInv, Life, WaitersLive, Busy
  <2>2. VictimGone'
    <3> SUFFICES ASSUME NEW u \in Threads, pc'[u] \in Dropping
                 PROVE  /\ victim[u] \notin waiters /\ pc'[Handler(victim[u])] \notin Early
                        /\ pc'[u] \in {"tmark", "tsave"} => u = Handler(victim[u])
                        /\ pc'[u] \in {"save", "tsave"} => job[victim[u]].status \in Final
      BY <1>1 DEF VictimGone
    <3>1. pc[u] \in Dropping /\ pc'[u] = pc[u] /\ victim[u] \in Requests
      BY <1>9 DEF IInv, TypeInv, VictimSound, Dropping
    <3> QED BY <1>7, <3>1 DEF RInv, Life, VictimGone
  <2>3. DoneFinal' /\ JobDepth'
    BY <1>1, <1>7, <1>8 DEF RInv, Life, DoneFinal, JobDepth
  <2> QED BY <2>1, <2>2, <2>3 DEF Life
<1>13. ActiveSound'
  <2> SUFFICES ASSUME faults' = 0, NEW s \in Requests, NEW d \in Depths,
                      rows'[<<s, d>>].status \in Active
               PROVE  /\ d = job[s].depth /\ Own(s)'
                      /\ pc'[Handler(s)] \in Early => pc'[Handler(s)] = "register"
    BY <1>1 DEF ActiveSound
  <2>1. CASE s = r /\ d = e
    BY <1>4, <1>7, <1>8, <1>10, <2>1 DEF Own
  <2>2. CASE s # r \/ d # e
    <3>1. faults = 0 /\ rows[<<s, d>>].status \in Active
      BY <1>11, <2>2, FaultFacts
    <3>2. d = job[s].depth /\ Own(s) /\ (pc[Handler(s)] \in Early => pc[Handler(s)] = "register")
      BY <3>1 DEF RInv, ActiveSound
    <3>3. s # r
      BY <1>10, <2>2, <3>2
    <3>4. Own(s)'
      <4>1. ASSUME NEW u \in Threads, \/ pc[u] = "launch" /\ pick[u].r = s
                                      \/ pc[u] \in Dropping /\ victim[u] = s
            PROVE  Own(s)'
        <5>1. u # t
          BY <1>1, <1>2, <3>3, <4>1 DEF Dropping
        <5> QED BY <1>1, <1>9, <4>1, <5>1 DEF Own
      <4> QED BY <1>1, <1>7, <3>2, <3>3, <4>1 DEF Own
    <3> QED BY <1>7, <3>2, <3>4
  <2> QED BY <2>1, <2>2
<1>14. WaitRow'
  <2> SUFFICES ASSUME NEW s \in Requests,
                      pc'[Handler(s)] = "register" \/ (s \in waiters /\ job[s].status = "waiting")
               PROVE  /\ rows'[<<s, job[s].depth>>].status = "waiting"
                      /\ rows'[<<s, job[s].depth>>].queue = job[s].queue
                      /\ rows'[<<s, job[s].depth>>].seq = job[s].seq
    BY <1>1 DEF WaitRow
  <2>1. s # r
    BY <1>4, <1>7 DEF Early
  <2>2. PICK d \in Depths : d = job[s].depth
    BY DEF IInv, TypeInv, TypeOK, MemoryType, Job
  <2>3. rows'[<<s, d>>] = rows[<<s, d>>]
    BY <1>11, <2>1
  <2> QED BY <1>7, <2>2, <2>3 DEF RInv, WaitRow
<1>15. AheadSound'
  <2>1. \A q : WaitingOf(q)' = WaitingOf(q)
    BY <1>1 DEF WaitingOf
  <2>2. \A s \in Requests : ahead[s] \subseteq Requests
    BY DEF IInv, TypeInv, TypeOK, ClientType
  <2> QED BY <1>1, <1>7, <1>9, <2>1, <2>2 DEF RInv, AheadSound
<1>16. OverflowSound'
  <2>1. NoneOpened
    BY <1>11 DEF NoneOpened
  <2>2. OverflowKept
    BY <1>1, <1>7, <2>1 DEF OverflowKept, RInv, OverflowSound
  <2> QED BY <1>11, <2>2, OverflowFrame DEF RInv
<1>17. AnswerSound'
  <2>1. \A s \in Requests : Startable(s)' => Startable(s)
    <3> SUFFICES ASSUME NEW s \in Requests, Startable(s)' PROVE Startable(s)
      OBVIOUS
    <3>1. CASE s = r
      BY <1>1, <1>2, <3>1 DEF Startable
    <3>2. CASE s # r
      BY <1>1, <1>7, <1>9, <3>2 DEF Startable, PickedBy
    <3> QED BY <3>1, <3>2
  <2>2. AnswerKept
    BY <1>1, <1>7, <2>1 DEF AnswerKept
  <2> QED BY <2>2, AnswerFrame DEF RInv
<1> QED BY <1>12, <1>13, <1>14, <1>15, <1>16, <1>17 DEF RInv

(***************************************************************************)
(* run and finish.                                                         *)
(***************************************************************************)
\* What a runner's own step leaves alone.
LEMMA RunnerFrame ==
  ASSUME IInv, NEW r \in Requests, NEW l \in {"finish", "store"}, Goto(Runner(r), l),
         pc[Runner(r)] \in {"forward", "finish"}
  PROVE  /\ \A s \in Requests : /\ pc'[Handler(s)] = pc[Handler(s)]
                                /\ pc'[Runner(s)] = IF s = r THEN l ELSE pc[Runner(s)]
         /\ \A u \in Threads : /\ pc'[u] \in {"commit", "launch"} \cup Dropping <=> pc[u] \in {"commit", "launch"} \cup Dropping
                               /\ pc[u] \in {"commit", "launch"} \cup Dropping => pc'[u] = pc[u]
         /\ pc[Handler(r)] \notin Early
         /\ \A u \in Threads : ~(pc[u] = "launch" /\ pick[u].r = r)
<1>1. \A u \in Threads : pc'[u] = IF u = Runner(r) THEN l ELSE pc[u]
  BY DEF Goto, IInv, TypeInv, TypeOK, PcType
<1>2. \A s \in Requests : /\ pc'[Handler(s)] = pc[Handler(s)]
                          /\ pc'[Runner(s)] = IF s = r THEN l ELSE pc[Runner(s)]
  BY <1>1, ThreadFacts
<1>3. \A u \in Threads : /\ pc'[u] \in {"commit", "launch"} \cup Dropping <=> pc[u] \in {"commit", "launch"} \cup Dropping
                         /\ pc[u] \in {"commit", "launch"} \cup Dropping => pc'[u] = pc[u]
  BY <1>1 DEF Dropping
<1>4. pc[Handler(r)] \notin Early /\ \A u \in Threads : ~(pc[u] = "launch" /\ pick[u].r = r)
  BY DEF IInv, Core, EarlyHidden, LaunchSound
<1> QED BY <1>2, <1>3, <1>4

LEMMA RowsRun ==
  ASSUME IInv, RInv, NEW r \in Requests, Run(r) PROVE RInv'
<1>1. /\ pc[Runner(r)] = "forward" /\ Goto(Runner(r), "finish") /\ Write(r, "reply")
      /\ job' = [job EXCEPT ![r].status = "ended"]
      /\ UNCHANGED <<rows, waiters, done, depth, ahead, victim, pick, crashes, faults>>
  BY DEF Run, purge, local, env
<1>2. /\ job'[r].status = "ended" /\ job'[r].depth = job[r].depth
      /\ job'[r].queue = job[r].queue /\ job'[r].seq = job[r].seq
      /\ \A s \in Requests \ {r} : job'[s] = job[s]
  BY <1>1 DEF IInv, TypeInv, TypeOK, MemoryType, Job
<1>3. /\ \A s \in Requests : /\ pc'[Handler(s)] = pc[Handler(s)]
                             /\ pc'[Runner(s)] = IF s = r THEN "finish" ELSE pc[Runner(s)]
      /\ \A u \in Threads : /\ pc'[u] \in {"commit", "launch"} \cup Dropping <=> pc[u] \in {"commit", "launch"} \cup Dropping
                            /\ pc[u] \in {"commit", "launch"} \cup Dropping => pc'[u] = pc[u]
      /\ pc[Handler(r)] \notin Early
      /\ \A u \in Threads : ~(pc[u] = "launch" /\ pick[u].r = r)
  BY <1>1, RunnerFrame
<1>4. waiters \subseteq Requests
  BY DEF IInv, TypeInv, TypeOK, MemoryType
<1>5. \A s \in Requests : /\ job'[s].depth = job[s].depth /\ job'[s].queue = job[s].queue
                          /\ job'[s].seq = job[s].seq
                          /\ job'[s].status = "waiting" => job[s].status = "waiting" /\ s # r
                          /\ job[s].status \in Final => job'[s].status \in Final
  BY <1>2 DEF Final
<1>6. Life'
  <2>1. WaitersLive'
    BY <1>1, <1>3, <1>4 DEF RInv, Life, WaitersLive, Busy
  <2>2. VictimGone'
    <3> SUFFICES ASSUME NEW u \in Threads, pc'[u] \in Dropping
                 PROVE  /\ victim[u] \notin waiters /\ pc'[Handler(victim[u])] \notin Early
                        /\ pc'[u] \in {"tmark", "tsave"} => u = Handler(victim[u])
                        /\ pc'[u] \in {"save", "tsave"} => job'[victim[u]].status \in Final
      BY <1>1 DEF VictimGone
    <3>1. pc[u] \in Dropping /\ pc'[u] = pc[u]
      BY <1>3 DEF Dropping
    <3>2. victim[u] \in Requests
      BY <3>1 DEF IInv, TypeInv, VictimSound, Dropping
    <3> QED BY <1>3, <1>5, <3>1, <3>2 DEF RInv, Life, VictimGone
  <2>3. DoneFinal' /\ JobDepth'
    BY <1>1, <1>2, <1>3, <1>5 DEF RInv, Life, DoneFinal, JobDepth, Final
  <2> QED BY <2>1, <2>2, <2>3 DEF Life
<1>7. ActiveSound'
  <2>1. \A s \in Requests : Own(s) => Own(s)'
    BY <1>1, <1>3 DEF Own, Dropping
  <2> QED BY <1>1, <1>3, <1>5, <2>1 DEF RInv, ActiveSound
<1>8. WaitRow'
  BY <1>1, <1>3, <1>5 DEF RInv, WaitRow
<1>9. AheadSound'
  <2> SUFFICES ASSUME NEW s \in Requests, NEW x \in ahead[s]
               PROVE  /\ pc'[Handler(x)] \notin Early
                      /\ job'[s].status = "waiting" /\ x \in WaitingOf(job[s].queue)' => job'[x].seq < job'[s].seq
                      /\ \A u \in Threads : pc'[u] = "commit" /\ pick[u].r = s => x \notin WaitingOf(job[s].queue)'
    BY <1>1 DEF AheadSound
  <2>1. x \in Requests
    BY DEF IInv, TypeInv, TypeOK, ClientType
  <2>2. x \in WaitingOf(job[s].queue)' => x \in WaitingOf(job[s].queue)
    BY <1>1, <1>5, <2>1 DEF WaitingOf
  <2> QED BY <1>3, <1>5, <2>1, <2>2 DEF RInv, AheadSound
<1>10. OverflowSound'
  <2>1. OverflowKept
    BY <1>1, <1>3 DEF OverflowKept, NoneOpened, RInv, OverflowSound
  <2> QED BY <1>1, <2>1, OverflowFrame DEF RInv, Works
<1>11. AnswerSound'
  <2>1. /\ \A s \in Requests \ {r} : resp'[s] = resp[s]
        /\ resp'[r] = Append(resp[r], "reply")
    BY <1>1 DEF Write, IInv, TypeInv, TypeOK, ClientType
  <2>2. \A s \in Requests \ {r} : Startable(s)' => Startable(s)
    BY <1>1, <1>2, <1>3 DEF Startable, PickedBy
  <2>3. ~Startable(r)'
    BY <1>1, <1>2, <1>3 DEF Startable
  <2>4. resp[r] \in {<< >>, <<"504">>}
    BY <1>1 DEF RInv, AnswerSound, Startable
  <2>5. /\ resp'[r] \in Replies /\ resp'[r] # << >>
        /\ pc'[Handler(r)] \in Late => resp'[r] \in {<< >>, <<"reply">>}
    <3>1. CASE resp[r] = << >>
      BY <2>1, <3>1, ReplyFacts
    <3>2. CASE resp[r] = <<"504">>
      <4>1. resp'[r] \in Twice
        BY <2>1, <3>2 DEF Twice
      <4>2. pc[Handler(r)] \notin Late
        BY <3>2, ReplyFacts DEF RInv, AnswerSound
      <4> QED BY <1>3, <4>1, <4>2, ReplyFacts
    <3> QED BY <2>4, <3>1, <3>2
  <2>6. \A s \in Requests \ {r} :
          /\ resp'[s] \in Replies
          /\ pc'[Handler(s)] \in Early => resp'[s] = << >>
          /\ pc'[Handler(s)] \in Late => resp'[s] \in {<< >>, <<"reply">>}
          /\ Startable(s)' => resp'[s] \in {<< >>, <<"504">>}
          /\ job'[s].status = "ended" => resp'[s] # << >>
          /\ pc'[Handler(s)] \in {"returned", "unwind"} /\ resp'[s] = << >>
               => job'[s].status = "dropped" \/ crashes' > 0
    BY <1>1, <1>2, <1>3, <2>1, <2>2 DEF RInv, AnswerSound
  <2> QED BY <1>3, <2>3, <2>5, <2>6 DEF AnswerSound, Replies
<1> QED BY <1>6, <1>7, <1>8, <1>9, <1>10, <1>11 DEF RInv

LEMMA RowsFinish ==
  ASSUME IInv, RInv, NEW r \in Requests, Finish(r) PROVE RInv'
<1>1. /\ pc[Runner(r)] = "finish" /\ Goto(Runner(r), "store") /\ waiters' = waiters \ {r}
      /\ UNCHANGED <<rows, job, done, depth, ahead, resp, victim, pick, crashes, faults>>
  BY DEF Finish, client, purge, local, env
<1>2. /\ \A s \in Requests : /\ pc'[Handler(s)] = pc[Handler(s)]
                             /\ pc'[Runner(s)] = IF s = r THEN "store" ELSE pc[Runner(s)]
      /\ \A u \in Threads : /\ pc'[u] \in {"commit", "launch"} \cup Dropping <=> pc[u] \in {"commit", "launch"} \cup Dropping
                            /\ pc[u] \in {"commit", "launch"} \cup Dropping => pc'[u] = pc[u]
      /\ pc[Handler(r)] \notin Early
  BY <1>1, RunnerFrame
<1>3. waiters \subseteq Requests
  BY DEF IInv, TypeInv, TypeOK, MemoryType
<1>4. Life'
  <2>1. WaitersLive'
    BY <1>1, <1>2, <1>3 DEF RInv, Life, WaitersLive
  <2>2. VictimGone'
    <3> SUFFICES ASSUME NEW u \in Threads, pc'[u] \in Dropping
                 PROVE  /\ victim[u] \notin waiters /\ pc'[Handler(victim[u])] \notin Early
                        /\ pc'[u] \in {"tmark", "tsave"} => u = Handler(victim[u])
                        /\ pc'[u] \in {"save", "tsave"} => job[victim[u]].status \in Final
      BY <1>1 DEF VictimGone
    <3>1. pc[u] \in Dropping /\ pc'[u] = pc[u]
      BY <1>2 DEF Dropping
    <3>2. victim[u] \in Requests
      BY <3>1 DEF IInv, TypeInv, VictimSound, Dropping
    <3> QED BY <1>2, <3>1, <3>2 DEF RInv, Life, VictimGone
  <2>3. DoneFinal' /\ JobDepth'
    BY <1>1, <1>2 DEF RInv, Life, DoneFinal, JobDepth
  <2> QED BY <2>1, <2>2, <2>3 DEF Life
<1>5. ActiveSound'
  <2>1. \A s \in Requests : Own(s) => Own(s)'
    BY <1>1, <1>2 DEF Own, Dropping
  <2> QED BY <1>1, <1>2, <2>1 DEF RInv, ActiveSound
<1>6. WaitRow'
  BY <1>1, <1>2 DEF RInv, WaitRow
<1>7. AheadSound'
  <2>1. \A q : WaitingOf(q)' \subseteq WaitingOf(q)
    BY <1>1 DEF WaitingOf
  <2>2. \A s \in Requests : ahead[s] \subseteq Requests
    BY DEF IInv, TypeInv, TypeOK, ClientType
  <2> QED BY <1>1, <1>2, <2>1, <2>2 DEF RInv, AheadSound
<1>8. OverflowSound'
  <2>1. OverflowKept
    BY <1>1, <1>2 DEF OverflowKept, NoneOpened, RInv, OverflowSound
  <2> QED BY <1>1, <2>1, OverflowFrame DEF RInv, Works
<1>9. AnswerSound'
  <2>1. \A s \in Requests : Startable(s)' => Startable(s)
    BY <1>1, <1>2 DEF Startable, PickedBy
  <2>2. AnswerKept
    BY <1>1, <1>2, <2>1 DEF AnswerKept
  <2> QED BY <2>2, AnswerFrame DEF RInv
<1> QED BY <1>4, <1>5, <1>6, <1>7, <1>8, <1>9 DEF RInv

LEMMA RowsFinishSave ==
  ASSUME IInv, RInv, NEW r \in Requests, FinishSave(r) PROVE RInv'
<1>1. /\ pc[Runner(r)] = "store" /\ Goto(Runner(r), "get")
      /\ UpdateQueueJob(<<r, job[r].depth>>, job[r].status, TRUE) /\ done' = done \cup {r}
      /\ UNCHANGED <<waiters, job, depth, ahead, resp, victim, pick, crashes>>
  BY DEF FinishSave, Complete, client, purge, env
<1>2. Runner(r) \in Threads
  BY ThreadFacts
<1> QED BY <1>1, <1>2, RowsFinal

LEMMA RowsListQueues ==
  ASSUME IInv, RInv, ListQueues PROVE RInv'
<1>1. /\ pc[Loop] = "list"
      /\ Works \/ Fails
      /\ UNCHANGED <<rows, memory, resp, depth, ahead, victim, pick, crashes>>
  BY DEF ListQueues, client, purge, env
<1>2. PICK l \in {"stats", "get"} : Goto(Loop, l)
  BY DEF ListQueues, NextQueue
<1> QED BY <1>1, <1>2, RowsSame, RowsLoop

-----------------------------------------------------------------------------
(***************************************************************************)
(* What changes neither rows nor goroutines, and the restart.              *)
(***************************************************************************)
LEMMA RowsStill ==
  ASSUME IInv, RInv, Works \/ Fails,
         UNCHANGED <<rows, memory, client, victim, pick, pc, crashes>>
  PROVE  RInv'
<1>1. UNCHANGED <<rows, waiters, job, done, depth, resp, ahead, victim, pick, pc, crashes>>
  BY DEF memory, client
<1>2. Life'
  BY <1>1 DEF RInv, Life, WaitersLive, VictimGone, DoneFinal, JobDepth
<1>3. \A s \in Requests : (Own(s)' <=> Own(s)) /\ (Startable(s)' <=> Startable(s))
  BY <1>1 DEF Own, Startable, PickedBy
<1>4. ActiveSound'
  BY <1>1, <1>3, FaultFacts DEF RInv, ActiveSound
<1>5. WaitRow'
  BY <1>1 DEF RInv, WaitRow
<1>6. AheadSound'
  BY <1>1 DEF RInv, AheadSound, WaitingOf
<1>7. OverflowSound'
  <2>1. \A s \in Requests : pc[Handler(s)] = "returned" => depth[s] = 0
    BY DEF RInv, OverflowSound
  <2>2. OverflowKept
    BY <1>1, <2>1 DEF OverflowKept, NoneOpened
  <2> QED BY <2>2, OverflowFrame DEF RInv
<1>8. AnswerSound'
  <2>1. AnswerKept
    BY <1>1, <1>3 DEF AnswerKept
  <2> QED BY <2>1, AnswerFrame DEF RInv
<1> QED BY <1>2, <1>4, <1>5, <1>6, <1>7, <1>8 DEF RInv

LEMMA RowsAdmin ==
  ASSUME IInv, RInv, AdminStep \/ (\E m \in Models : Health(m)) \/ UNCHANGED vars
  PROVE  RInv'
<1>1. UNCHANGED <<rows, memory, client, victim, pick, pc, crashes>>
  BY DEF AdminStep, SaveStep, SaveQueue, DeleteQueue, Health, vars, purge, local, env
<1>2. Works \/ Fails
  BY DEF AdminStep, SaveStep, SaveQueue, DeleteQueue, Health, vars, Works
<1> QED BY <1>1, <1>2, RowsStill

LEMMA RowsRestart ==
  ASSUME IInv, RInv, Restart PROVE RInv'
<1>1. /\ UNCHANGED <<depth, resp, ahead>> /\ waiters' = {} /\ done' = {}
      /\ crashes' = crashes + 1 /\ crashes \in Nat /\ MaxFaults \in Nat
  BY BoundsAssumption DEF Restart, client, IInv, TypeInv, TypeOK, EnvType
<1>2. \A r \in Requests : /\ pc'[Runner(r)] = "off"
                          /\ pc'[Handler(r)] \in {"arrive", "returned", "lost"}
                          /\ pc'[Handler(r)] # "lost" => pc'[Handler(r)] = pc[Handler(r)]
  BY ThreadFacts DEF Restart
<1>3. \A t \in Threads : pc'[t] \in {"arrive", "returned", "lost", "off", "stats"}
  BY ThreadFacts DEF Restart
<1>4. \A r \in Requests : job'[r].status = "none"
  BY DEF Restart, IInv, TypeInv, TypeOK, MemoryType, Job
<1>5. \A r \in Requests : pc'[Handler(r)] \in Early => pc[Handler(r)] \in Early
  BY <1>2 DEF Early
<1>6. Life'
  BY <1>1, <1>2, <1>3 DEF Life, WaitersLive, VictimGone, DoneFinal, JobDepth, Dropping
<1>7. \/ ResetStaleQueueJobs /\ faults' = 0
      \/ MaxFaults > 0 /\ faults' = 1 /\ UNCHANGED rows
  BY DEF Restart
<1>8. ASSUME NEW s \in Requests, NEW d \in Depths, ResetStaleQueueJobs
      PROVE  /\ rows'[<<s, d>>].status \notin Active
             /\ rows'[<<s, d>>].status = "overflow" => rows'[<<s, d>>] = rows[<<s, d>>]
  <2>1. <<s, d>> \in JobIds /\ rows[<<s, d>>] \in Row
    BY RowIds DEF JobIds, IInv, TypeInv, TypeOK, RowsType
  <2>2. rows'[<<s, d>>] = IF rows[<<s, d>>].status \in Active
                          THEN [rows[<<s, d>>] EXCEPT !.status = "dropped", !.fin = TRUE]
                          ELSE rows[<<s, d>>]
    BY <1>8, <2>1 DEF ResetStaleQueueJobs
  <2> QED BY <2>1, <2>2 DEF Row, Active
<1>9. ActiveSound'
  BY <1>7, <1>8 DEF ActiveSound
<1>10. WaitRow'
  BY <1>1, <1>2 DEF WaitRow
<1>11. AheadSound'
  <2>1. \A r \in Requests : ahead[r] \subseteq Requests
    BY DEF IInv, TypeInv, TypeOK, ClientType
  <2> QED BY <1>1, <1>3, <1>4, <1>5, <2>1 DEF RInv, AheadSound
<1>12. OverflowSound'
  <2>1. MaxFaults = 0 => faults' = 0 /\ ResetStaleQueueJobs
    BY <1>7
  <2>2. \A r \in Requests : pc'[Handler(r)] = "returned" => depth'[r] = 0
    BY <1>1, <1>2 DEF RInv, OverflowSound
  <2>3. ASSUME NoFaultEver', NEW r \in Requests, NEW d \in Depths,
               rows'[<<r, d>>].status = "overflow", ~rows'[<<r, d>>].fin
        PROVE  pc'[Handler(r)] = "lost" \/ d < depth'[r]
    <3>1. MaxFaults = 0
      BY <1>1, <2>3 DEF NoFaultEver
    <3>2. NoFaultEver
      BY <3>1 DEF RInv, OverflowSound, NoFaultEver
    <3>3. rows[<<r, d>>].status = "overflow" /\ ~rows[<<r, d>>].fin
      BY <1>8, <2>1, <2>3, <3>1
    <3>4. \/ pc[Handler(r)] = "lost" \/ d < depth[r] \/ pc[Handler(r)] = "direct"
      BY <3>2, <3>3 DEF RInv, OverflowSound
    <3> QED BY <1>1, <1>2, <3>4
  <2> QED BY <2>1, <2>2, <2>3 DEF OverflowSound
<1>13. AnswerSound'
  <2>1. \A s \in Requests : ~Startable(s)'
    BY <1>1, <1>2, <1>3, <1>4 DEF Startable, PickedBy
  <2>2. \A s \in Requests : pc'[Handler(s)] \notin Late
    BY <1>2 DEF Late, Waits
  <2>3. crashes' \in {crashes, crashes + 1} /\ crashes' > 0
    BY <1>1
  <2>4. AnswerKept
    BY <1>1, <1>4, <1>5, <2>1, <2>2, <2>3 DEF AnswerKept
  <2> QED BY <2>4, AnswerFrame DEF RInv
<1> QED BY <1>6, <1>9, <1>10, <1>11, <1>12, <1>13 DEF RInv

-----------------------------------------------------------------------------
LEMMA InitRows == Init => RInv
<1> SUFFICES ASSUME Init PROVE RInv
  OBVIOUS
<1>1. /\ \A r \in Requests : pc[Handler(r)] = "arrive" /\ pc[Runner(r)] = "off"
      /\ \A t \in Threads : pc[t] \in {"arrive", "off", "stats"}
  BY ThreadFacts DEF Init
<1>2. /\ \A r \in Requests : job[r].status = "none" /\ resp[r] = << >> /\ ahead[r] = {}
      /\ waiters = {} /\ done = {} /\ faults = 0
  BY DEF Init
<1>3. \A r \in Requests, d \in Depths : rows[<<r, d>>].status = "none"
  BY RowIds DEF Init, NewRow, JobIds
<1>4. Life
  BY <1>1, <1>2 DEF Life, WaitersLive, VictimGone, DoneFinal, JobDepth, Dropping
<1>5. ActiveSound /\ WaitRow /\ AheadSound /\ OverflowSound
  BY <1>1, <1>2, <1>3 DEF ActiveSound, WaitRow, AheadSound, OverflowSound, Active
<1>6. AnswerSound
  BY <1>1, <1>2 DEF AnswerSound, Replies
<1> QED BY <1>4, <1>5, <1>6 DEF RInv

LEMMA RowsStep == IInv /\ RInv /\ [Next]_vars => RInv'
<1> SUFFICES ASSUME IInv, RInv, [Next]_vars PROVE RInv'
  OBVIOUS
<1>1. ASSUME NEW t \in Threads, DispatchStep(t) PROVE RInv'
  BY <1>1, RowsLook, RowsCommit, RowsLaunch DEF DispatchStep
<1>2. ASSUME NEW r \in Requests, HandlerStep(r) \/ Timeout(r) PROVE RInv'
  <2>1. Handler(r) \in Threads /\ Handler(r) \in Purgers
    BY ThreadFacts DEF Purgers
  <2>2. CASE Enter(r) \/ PurgeStep(Handler(r)) \/ Counts(r)
    BY <2>1, <2>2, RowsEnter, RowsPurge, RowsCounts
  <2>3. CASE Overflow(r) \/ Direct(r) \/ Unwind(r)
    BY <2>3, RowsOverflow, RowsDirect, RowsUnwind
  <2>4. CASE ReadSeq(r) \/ Insert(r) \/ Register(r) \/ DispatchStep(Handler(r))
    BY <1>1, <2>1, <2>4, RowsReadSeq, RowsInsert, RowsRegister
  <2>5. CASE TimeoutDrop(r) \/ TimeoutMark(r) \/ TimeoutSave(r)
    BY <2>5, RowsTimeout
  <2>6. CASE WakeUp(r) \/ Timeout(r) \/ TimeoutReply(r)
    BY <2>6, RowsWait
  <2> QED BY <1>2, <2>2, <2>3, <2>4, <2>5, <2>6 DEF HandlerStep
<1>3. ASSUME NEW r \in Requests, RunnerStep(r) PROVE RInv'
  BY <1>1, <1>3, RowsRun, RowsFinish, RowsFinishSave, ThreadFacts DEF RunnerStep
<1>4. CASE LoopStep
  <2>1. Loop \in Threads /\ Loop \in Purgers
    BY ThreadFacts DEF Purgers
  <2> QED BY <1>1, <1>4, <2>1, RowsPurge, RowsListQueues DEF LoopStep
<1> QED BY <1>2, <1>3, <1>4, RowsAdmin, RowsRestart DEF Next

LEMMA Rows == Spec => [](IInv /\ RInv)
<1>1. Init => IInv /\ RInv
  BY InitSafe, InitRows
<1>2. IInv /\ RInv /\ [Next]_vars => (IInv /\ RInv)'
  BY SafeStep, RowsStep
<1> QED BY <1>1, <1>2, PTL DEF Spec

\* A queue_jobs row that says waiting or running always belongs to a request
\* somebody still works on: a purge, a deadline, dispatch's late "running" and a
\* restart leave none behind, as long as no statement failed.
THEOREM NoStaleRows == Spec => []ActiveRowOwned
<1>1. ASSUME IInv, RInv PROVE ActiveRowOwned
  <2> SUFFICES ASSUME faults = 0, NEW id \in ActiveRows PROVE Owned(id[1])
    BY DEF ActiveRowOwned
  <2>1. PICK r \in Requests, d \in Depths : id = <<r, d>>
    BY DEF ActiveRows, JobIds
  <2>2. rows[<<r, d>>].status \in Active /\ id[1] = r
    BY <2>1 DEF ActiveRows
  <2>3. Own(r)
    BY <1>1, <2>2 DEF RInv, ActiveSound
  <2>4. CASE r \in waiters
    <3>1. pc[Handler(r)] \in Waits
      BY <1>1, <2>4 DEF RInv, Life, WaitersLive
    <3> QED BY <2>2, <3>1 DEF Owned, Waits
  <2>5. ASSUME NEW t \in Threads, pc[t] \in Dropping, victim[t] = r PROVE Owned(r)
    <3>1. pc[t] \in {"tmark", "tsave"} => t = Handler(r)
      BY <1>1, <2>5 DEF RInv, Life, VictimGone
    <3> QED BY <2>5, <3>1 DEF Owned, Dropping
  <2>6. ASSUME NEW t \in Threads, pc[t] = "launch", pick[t].r = r PROVE Owned(r)
    BY <2>6 DEF Owned
  <2>7. CASE pc[Handler(r)] = "register" \/ pc[Runner(r)] \in {"forward", "finish", "store"}
    BY <2>2, <2>7 DEF Owned
  <2> QED BY <2>2, <2>3, <2>4, <2>5, <2>6, <2>7 DEF Own
<1> QED BY <1>1, Rows, PTL

\* When a handler has returned, every overflow row of its request is finished,
\* however deep the overflow went, unless some statement has failed.
THEOREM OverflowRowsClose == Spec => []OverflowRowClosed
<1>1. ASSUME IInv, RInv PROVE OverflowRowClosed
  <2> SUFFICES ASSUME NoFaultEver, NEW r \in Requests, NEW d \in Depths,
                      pc[Handler(r)] = "returned", rows[<<r, d>>].status = "overflow",
                      ~rows[<<r, d>>].fin
               PROVE  FALSE
    BY DEF OverflowRowClosed
  <2>1. depth[r] = 0 /\ d < depth[r]
    BY <1>1 DEF RInv, OverflowSound
  <2> QED BY <2>1 DEF Depths
<1> QED BY <1>1, Rows, PTL

-----------------------------------------------------------------------------
(***************************************************************************)
(* First come, first started: only dispatch's second critical section      *)
(* starts a job.                                                           *)
(***************************************************************************)
LEMMA OnlyCommitStarts ==
  ASSUME IInv, [Next]_vars, NEW r \in Requests,
         job[r].status = "waiting", job'[r].status = "running"
  PROVE  \E t \in Threads : pc[t] = "commit" /\ pick[t].r = r
<1>1. job \in [Requests -> Job]
  BY DEF IInv, TypeInv, TypeOK, MemoryType
<1>2. job' # job
  OBVIOUS
<1>3. ASSUME NEW t \in Threads, DispatchStep(t) PROVE pc[t] = "commit" /\ pick[t].r = r
  <2>1. Commit(t)
    BY <1>2, <1>3 DEF DispatchStep, GetQueue, Scan, Launch, memory
  <2>2. pc[t] = "commit" /\ job' = [job EXCEPT ![pick[t].r].status = "running",
                                               ![pick[t].r].model = pick[t].model]
    BY <1>2, <2>1 DEF Commit
  <2>3. pick[t].r # r => job'[r] = job[r]
    BY <1>1, <2>2
  <2> QED BY <2>2, <2>3
<1>4. ASSUME NEW t \in Threads, PurgeStep(t) PROVE FALSE
  <2>1. job' = [job EXCEPT ![victim[t]].status = "dropped"]
    BY <1>2, <1>4 DEF PurgeStep, WaitingStats, OldestWaiting, PurgeTake, PurgeMark, Mark, PurgeSave, memory
  <2> QED BY <1>1, <2>1 DEF Job
<1>5. ASSUME NEW s \in Requests, HandlerStep(s) \/ Timeout(s), ~DispatchStep(Handler(s)) PROVE FALSE
  <2>1. CASE TimeoutMark(s)
    BY <1>1, <2>1 DEF TimeoutMark, Mark, Job
  <2>2. CASE ReadSeq(s)
    BY <1>1, <2>2 DEF ReadSeq
  <2>3. CASE PurgeStep(Handler(s))
    BY <1>4, <2>3, ThreadFacts
  <2> QED BY <1>2, <1>5, <2>1, <2>2, <2>3 DEF HandlerStep, Enter, Counts, Overflow, Direct, Unwind,
       Insert, Register, WakeUp, Timeout, TimeoutDrop, TimeoutSave, TimeoutReply, memory
<1>6. ASSUME NEW s \in Requests, Run(s) \/ Finish(s) \/ FinishSave(s) PROVE FALSE
  <2>1. job' = [job EXCEPT ![s].status = "ended"]
    BY <1>2, <1>6 DEF Run, Finish, FinishSave
  <2> QED BY <1>1, <2>1 DEF Job
<1>7. ASSUME Restart PROVE FALSE
  BY <1>1, <1>7 DEF Restart, Job
<1>8. ~AdminStep /\ (\A m \in Models : ~Health(m)) /\ ~UNCHANGED vars /\ ~ListQueues
  BY <1>2 DEF AdminStep, SaveStep, SaveQueue, DeleteQueue, Health, vars, ListQueues, memory
<1> QED BY <1>3, <1>4, <1>5, <1>6, <1>7, <1>8, ThreadFacts DEF Next, RunnerStep, LoopStep

\* First come, first started, for any number of dispatching goroutines: the head
\* chosen under the first lock is still the head when the second lock starts it.
THEOREM FirstComeFirstStarted == Spec => FifoStart
<1>1. ASSUME IInv, RInv, [Next]_vars, NEW r \in Requests,
             job[r].status = "waiting", job'[r].status = "running"
      PROVE  ahead[r] \cap WaitingOf(job[r].queue) = {}
  <2>1. PICK t \in Threads : pc[t] = "commit" /\ pick[t].r = r
    BY <1>1, OnlyCommitStarts
  <2> QED BY <1>1, <2>1 DEF RInv, AheadSound
<1>2. IInv /\ RInv /\ [Next]_vars =>
        [\A r \in Requests : job[r].status = "waiting" /\ job'[r].status = "running"
           => ahead[r] \cap WaitingOf(job[r].queue) = {}]_vars
  BY <1>1
<1> QED BY <1>2, Rows, PTL DEF Spec, FifoStart

\* What a client sees: an answer is never written three times, twice only when a
\* deadline's 504 met the reply, and a handler that returns in silence is one
\* whose waiter was dropped (by a purge), or has outlived a crash.
AnswersBounded ==
  \A r \in Requests :
    /\ Len(resp[r]) > 1 => resp[r] \in Twice
    /\ pc[Handler(r)] = "returned" /\ resp[r] = << >> => job[r].status = "dropped" \/ crashes > 0
THEOREM AnswersAreBounded == Spec => []AnswersBounded
<1>1. ASSUME IInv, RInv PROVE AnswersBounded
  <2> SUFFICES ASSUME NEW r \in Requests
               PROVE  /\ Len(resp[r]) > 1 => resp[r] \in Twice
                      /\ pc[Handler(r)] = "returned" /\ resp[r] = << >>
                           => job[r].status = "dropped" \/ crashes > 0
    BY DEF AnswersBounded
  <2>1. resp[r] \in Replies
    BY <1>1 DEF RInv, AnswerSound
  <2> QED BY <1>1, <2>1, TwiceOnly DEF RInv, AnswerSound
<1> QED BY <1>1, Rows, PTL

-----------------------------------------------------------------------------
(***************************************************************************)
(* Sums.  What SumFunctionOnSet computes, by minimal counterexample: the   *)
(* recursive function inside it exists, its order does not matter, and a   *)
(* sum over fewer places is no larger.                                     *)
(***************************************************************************)
LEMMA LeastNumber ==
  ASSUME NEW S \in SUBSET Nat, S # {}
  PROVE  \E n \in S : \A k \in S : n <= k
<1> DEFINE R == OpToRel(<, Nat)
<1>1. IsWellFoundedOn(R, Nat)
  BY NatLessThanWellFounded
<1>2. \A i, j \in Nat : i < j => <<i, j>> \in R
  BY DEF OpToRel
<1> HIDE DEF R
<1>3. PICK n \in S : \A k \in S : ~(<<k, n>> \in R)
  BY <1>1, WFMin
<1>4. \A k \in S : ~(k < n)
  BY <1>2, <1>3
<1> QED BY <1>4

\* The recursive function inside SumFunctionOnSet.
First(s) == CHOOSE x \in s : TRUE
Adds(g, w, s) == IF s = {} THEN 0 ELSE w[First(s)] + g[s \ {First(s)}]
IsPile(g, w, S) == g = [s \in SUBSET S |-> Adds(g, w, s)]
Pile(w, S) == CHOOSE g : IsPile(g, w, S)

LEMMA SumIsPile ==
  ASSUME NEW w, NEW S
  PROVE  SumFunctionOnSet(w, S) = Pile(w, S)[S]
BY Zenon DEF SumFunctionOnSet, FoldFunctionOnSet, MapThenFoldSet, Pile, IsPile, Adds, First

LEMMA FirstIn == ASSUME NEW s, s # {} PROVE First(s) \in s
BY DEF First

LEMMA PileExists ==
  ASSUME NEW S, IsFiniteSet(S), NEW w, \A x \in S : w[x] \in Nat
  PROVE  \E g : IsPile(g, w, S)
<1> DEFINE Small(n) == {s \in SUBSET S : Cardinality(s) <= n}
           Good(n)  == \E g \in [Small(n) -> Nat] : g = [s \in Small(n) |-> Adds(g, w, s)]
           Bad      == {n \in Nat : ~Good(n)}
<1>1. \A s \in SUBSET S : IsFiniteSet(s) /\ Cardinality(s) \in Nat /\ Cardinality(s) <= Cardinality(S)
  BY FS_Subset, FS_CardinalityType
<1>2. Bad = {}
  <2> SUFFICES ASSUME Bad # {} PROVE FALSE
    OBVIOUS
  <2>1. PICK n \in Bad : \A k \in Bad : n <= k
    BY LeastNumber
  <2>2. CASE n = 0
    <3> DEFINE g == [s \in Small(0) |-> 0]
    <3>1. \A s \in Small(0) : s = {}
      BY <1>1, FS_EmptySet
    <3>2. g = [s \in Small(0) |-> Adds(g, w, s)]
      BY <3>1 DEF Adds
    <3>3. g \in [Small(0) -> Nat]
      OBVIOUS
    <3> QED BY <2>1, <2>2, <3>2, <3>3
  <2>3. CASE n # 0
    <3>1. n - 1 \in Nat /\ Good(n - 1)
      <4>1. n \in Nat /\ n - 1 \in Nat
        BY <2>3
      <4>2. n - 1 \notin Bad
        <5> HIDE DEF Bad
        <5> QED BY <2>1, <4>1
      <4> QED BY <4>1, <4>2
    <3>2. PICK g \in [Small(n - 1) -> Nat] : g = [s \in Small(n - 1) |-> Adds(g, w, s)]
      BY <3>1
    <3> DEFINE h == [s \in Small(n) |-> Adds(g, w, s)]
    <3>3. ASSUME NEW s \in Small(n), s # {}
          PROVE  s \ {First(s)} \in Small(n - 1) /\ First(s) \in S
      <4>1. First(s) \in s
        BY <3>3, FirstIn
      <4>2. Cardinality(s \ {First(s)}) = Cardinality(s) - 1
        BY <1>1, <4>1, FS_RemoveElement
      <4>3. Cardinality(s) <= n /\ n \in Nat /\ Cardinality(s) \in Nat
        BY <1>1, <2>1
      <4> QED BY <4>1, <4>2, <4>3
    <3>4. Small(n - 1) \subseteq Small(n)
      BY <1>1, <2>1, <3>1
    <3> HIDE DEF Small
    <3>5. \A s \in Small(n - 1) : h[s] = g[s]
      BY <3>2, <3>4
    <3>6. ASSUME NEW s \in Small(n) PROVE Adds(g, w, s) = Adds(h, w, s) /\ Adds(g, w, s) \in Nat
      <4> HIDE DEF h, Good, Bad
      <4>1. CASE s = {}
        BY <4>1 DEF Adds
      <4>2. CASE s # {}
        <5>1. s \ {First(s)} \in Small(n - 1) /\ First(s) \in S
          BY <3>3, <4>2
        <5>2. h[s \ {First(s)}] = g[s \ {First(s)}] /\ g[s \ {First(s)}] \in Nat /\ w[First(s)] \in Nat
          BY <3>5, <5>1
        <5> QED BY <4>2, <5>2 DEF Adds
      <4> QED BY <4>1, <4>2
    <3>7. h = [s \in Small(n) |-> Adds(h, w, s)] /\ h \in [Small(n) -> Nat]
      BY <3>6
    <3> QED BY <2>1, <3>7
  <2> QED BY <2>2, <2>3
<1>3. Good(Cardinality(S))
  BY <1>2, FS_CardinalityType
<1>4. Small(Cardinality(S)) = SUBSET S
  BY <1>1
<1> QED BY <1>3, <1>4 DEF IsPile

LEMMA PileIs ==
  ASSUME NEW S, IsFiniteSet(S), NEW w, \A x \in S : w[x] \in Nat
  PROVE  Pile(w, S) = [s \in SUBSET S |-> Adds(Pile(w, S), w, s)]
<1>1. IsPile(Pile(w, S), w, S)
  BY PileExists, Zenon DEF Pile
<1> QED BY <1>1 DEF IsPile

LEMMA PileFacts ==
  ASSUME NEW S, IsFiniteSet(S), NEW w, \A x \in S : w[x] \in Nat
  PROVE  /\ \A s \in SUBSET S : Pile(w, S)[s] \in Nat
         /\ Pile(w, S)[{}] = 0
         /\ \A s \in SUBSET S : s # {} =>
              Pile(w, S)[s] = w[First(s)] + Pile(w, S)[s \ {First(s)}]
<1> DEFINE P == Pile(w, S)
           Bad == {n \in Nat : \E s \in SUBSET S : Cardinality(s) = n /\ P[s] \notin Nat}
<1>1. P = [s \in SUBSET S |-> Adds(P, w, s)]
  BY PileIs
<1> HIDE DEF P
<1>2. \A s \in SUBSET S : s # {} => P[s] = w[First(s)] + P[s \ {First(s)}]
  BY <1>1 DEF Adds
<1>3. P[{}] = 0
  BY <1>1 DEF Adds
<1>4. \A s \in SUBSET S : IsFiniteSet(s) /\ Cardinality(s) \in Nat
  BY FS_Subset, FS_CardinalityType
<1>5. ASSUME NEW n \in Bad, \A k \in Bad : n <= k PROVE FALSE
  <2>1. PICK s \in SUBSET S : Cardinality(s) = n /\ P[s] \notin Nat
    OBVIOUS
  <2>2. s # {}
    BY <1>3, <2>1
  <2>3. First(s) \in s /\ First(s) \in S /\ w[First(s)] \in Nat
    BY <2>2, FirstIn
  <2>4. Cardinality(s \ {First(s)}) = n - 1 /\ n \in Nat /\ n - 1 \in Nat
    <3>1. Cardinality(s \ {First(s)}) = n - 1 /\ IsFiniteSet(s \ {First(s)})
      BY <1>4, <2>1, <2>3, FS_RemoveElement
    <3> QED BY <3>1, FS_CardinalityType
  <2>5. P[s \ {First(s)}] \in Nat
    BY <1>5, <2>4
  <2>6. P[s] = w[First(s)] + P[s \ {First(s)}]
    BY <1>2, <2>2
  <2>7. w[First(s)] + P[s \ {First(s)}] \in Nat
    <3> HIDE DEF Bad
    <3> QED BY <2>3, <2>5
  <2> QED BY <2>1, <2>6, <2>7
<1>6. Bad = {}
  <2> HIDE DEF Bad
  <2>1. Bad \in SUBSET Nat
    BY DEF Bad
  <2> QED BY <1>5, <2>1, LeastNumber
<1>7. \A s \in SUBSET S : P[s] \in Nat
  BY <1>4, <1>6
<1> QED BY <1>2, <1>3, <1>7 DEF P

\* The order of the additions does not matter.
LEMMA PileTakes ==
  ASSUME NEW S, IsFiniteSet(S), NEW w, \A x \in S : w[x] \in Nat, NEW s0 \in SUBSET S, NEW x0 \in s0
  PROVE  Pile(w, S)[s0] = w[x0] + Pile(w, S)[s0 \ {x0}]
<1> DEFINE P == Pile(w, S)
           Bad == {n \in Nat : \E s \in SUBSET S : \E x \in s :
                                 Cardinality(s) = n /\ P[s] # w[x] + P[s \ {x}]}
<1>1. \A s \in SUBSET S : P[s] \in Nat
  BY PileFacts
<1>2. \A s \in SUBSET S : s # {} => P[s] = w[First(s)] + P[s \ {First(s)}]
  BY PileFacts
<1> HIDE DEF P
<1>3. \A s \in SUBSET S : IsFiniteSet(s) /\ Cardinality(s) \in Nat
  BY FS_Subset, FS_CardinalityType
<1>4. ASSUME NEW n \in Bad, \A k \in Bad : n <= k PROVE FALSE
  <2>0. PICK s \in SUBSET S : \E x \in s : Cardinality(s) = n /\ P[s] # w[x] + P[s \ {x}]
    OBVIOUS
  <2>1. PICK x \in s : Cardinality(s) = n /\ P[s] # w[x] + P[s \ {x}]
    BY <2>0
  <2> DEFINE c == First(s)
  <2>2. c \in s /\ P[s] = w[c] + P[s \ {c}]
    BY <1>2, FirstIn
  <2> HIDE DEF c
  <2>3. c # x
    BY <2>1, <2>2
  <2>4. n \in Nat /\ n - 1 \in Nat /\ \A y \in s : Cardinality(s \ {y}) = n - 1
    <3>1. \A y \in s : Cardinality(s \ {y}) = n - 1 /\ IsFiniteSet(s \ {y})
      BY <1>3, <2>1, FS_RemoveElement
    <3> QED BY <2>2, <3>1, FS_CardinalityType
  <2>5. n - 1 \notin Bad
    <3> HIDE DEF Bad
    <3> QED BY <1>4, <2>4
  <2>6. \A y \in s : \A z \in s \ {y} : P[s \ {y}] = w[z] + P[(s \ {y}) \ {z}]
    BY <2>4, <2>5
  <2>7. P[s \ {c}] = w[x] + P[(s \ {c}) \ {x}] /\ P[s \ {x}] = w[c] + P[(s \ {x}) \ {c}]
    BY <2>2, <2>3, <2>6
  <2>8. (s \ {c}) \ {x} = (s \ {x}) \ {c}
    OBVIOUS
  <2>9. w[x] \in Nat /\ w[c] \in Nat /\ P[(s \ {x}) \ {c}] \in Nat
    BY <1>1, <2>2
  <2> HIDE DEF Bad
  <2>10. P[s] = w[c] + (w[x] + P[(s \ {x}) \ {c}])
    BY <2>2, <2>7, <2>8
  <2>11. P[s] # w[x] + (w[c] + P[(s \ {x}) \ {c}])
    BY <2>1, <2>7
  <2> QED BY <2>9, <2>10, <2>11
<1>5. Bad = {}
  <2> HIDE DEF Bad
  <2>1. Bad \in SUBSET Nat
    BY DEF Bad
  <2> QED BY <1>4, <2>1, LeastNumber
<1>6. P[s0] = w[x0] + P[s0 \ {x0}]
  BY <1>3, <1>5
<1> QED BY <1>6 DEF P

\* A sum over fewer places is no larger, also when the places have other names.
LEMMA SumsCompare ==
  ASSUME NEW A, IsFiniteSet(A), NEW v, \A x \in A : v[x] \in Nat,
         NEW B, IsFiniteSet(B), NEW w, \A x \in B : w[x] \in Nat,
         NEW f \in [A -> B], \A a \in A : v[a] = w[f[a]],
         \A a, b \in A : f[a] = f[b] => a = b
  PROVE  /\ SumFunctionOnSet(v, A) <= SumFunctionOnSet(w, B)
         /\ SumFunctionOnSet(v, A) \in Nat /\ SumFunctionOnSet(w, B) \in Nat
<1> DEFINE P == Pile(v, A)
           Q == Pile(w, B)
           Worse(s, t) == (\A a \in s : f[a] \in t) /\ P[s] > Q[t]
           Bad == {n \in Nat : \E s \in SUBSET A, t \in SUBSET B : Cardinality(t) = n /\ Worse(s, t)}
<1>1. /\ \A s \in SUBSET A : P[s] \in Nat
      /\ \A t \in SUBSET B : Q[t] \in Nat
      /\ P[{}] = 0
  BY PileFacts
<1>2. ASSUME NEW s \in SUBSET A, NEW x \in s PROVE P[s] = v[x] + P[s \ {x}]
  BY PileTakes
<1>20. ASSUME NEW t \in SUBSET B, NEW x \in t PROVE Q[t] = w[x] + Q[t \ {x}]
  BY PileTakes
<1> HIDE DEF P, Q
<1>3. \A t \in SUBSET B : IsFiniteSet(t) /\ Cardinality(t) \in Nat
  BY FS_Subset, FS_CardinalityType
<1>4. ASSUME NEW n \in Bad, \A k \in Bad : n <= k PROVE FALSE
  <2>1. PICK s \in SUBSET A, t \in SUBSET B : Cardinality(t) = n /\ Worse(s, t)
    OBVIOUS
  <2>2. s # {}
    <3>1. P[s] > Q[t] /\ Q[t] \in Nat
      BY <1>1, <2>1
    <3>2. ASSUME s = {} PROVE FALSE
      <4>1. P[s] = 0
        BY <1>1, <3>2
      <4> QED BY <3>1, <4>1
    <3> QED BY <3>2
  <2>3. PICK a \in s : TRUE
    BY <2>2
  <2> DEFINE b == f[a]
  <2>4. b \in t /\ v[a] = w[b] /\ w[b] \in Nat
    BY <2>1
  <2>5. n - 1 \in Nat /\ Cardinality(t \ {b}) = n - 1
    <3>1. Cardinality(t \ {b}) = n - 1 /\ IsFiniteSet(t \ {b})
      BY <1>3, <2>1, <2>4, FS_RemoveElement
    <3> QED BY <3>1, FS_CardinalityType
  <2>6. n - 1 \notin Bad
    <3> HIDE DEF Bad
    <3>1. n \in Nat
      BY DEF Bad
    <3> QED BY <1>4, <2>5, <3>1
  <2>7. \A x \in s \ {a} : f[x] \in t \ {b}
    BY <2>1
  <2>8. P[s \ {a}] <= Q[t \ {b}]
    <3>1. ~Worse(s \ {a}, t \ {b})
      <4> HIDE DEF Worse
      <4> QED BY <2>5, <2>6
    <3>2. P[s \ {a}] \in Nat /\ Q[t \ {b}] \in Nat
      BY <1>1
    <3> QED BY <2>7, <3>1, <3>2
  <2>9. P[s] = v[a] + P[s \ {a}] /\ Q[t] = w[b] + Q[t \ {b}]
    BY <1>2, <1>20, <2>4
  <2>10. P[s] > Q[t]
    BY <2>1
  <2>11. P[s \ {a}] \in Nat /\ Q[t \ {b}] \in Nat
    BY <1>1
  <2> HIDE DEF Worse, b, Bad
  <2> QED BY <2>4, <2>8, <2>9, <2>10, <2>11
<1>5. Bad = {}
  <2> HIDE DEF Bad
  <2>1. Bad \in SUBSET Nat
    BY DEF Bad
  <2> QED BY <1>4, <2>1, LeastNumber
<1>6. P[A] <= Q[B]
  <2>1. ~Worse(A, B)
    <3> HIDE DEF Worse
    <3> QED BY <1>3, <1>5
  <2>2. P[A] \in Nat /\ Q[B] \in Nat
    BY <1>1
  <2> QED BY <2>1, <2>2
<1>7. P[A] \in Nat /\ Q[B] \in Nat
  BY <1>1
<1> QED BY <1>6, <1>7, SumIsPile DEF P, Q

-----------------------------------------------------------------------------
(***************************************************************************)
(* Answers.  When the table cannot fill up no purge drops anybody: a       *)
(* request has one active row at most, so the totals WaitingStats reads    *)
(* are those of some admitted requests.                                    *)
(***************************************************************************)
Purging == {"oldest", "take", "mark", "save"}
Weighed == Early \ {"arrive", "enter"}
Leaving == {"tsave", "t504", "returned", "unwind", "lost"}
Known(r) == job[r].status = "waiting" \/ job[r].model # NoModel

SizeChecked ==
  \A r \in Requests : pc[Handler(r)] \in Weighed \/ Known(r) => Size[r] <= MaxBytes
OneRow ==
  \A r \in Requests, d \in Depths : rows[<<r, d>>].status \in Active =>
    /\ d = job[r].depth /\ Size[r] <= MaxBytes
    /\ pc[Handler(r)] \in Early => pc[Handler(r)] = "register"
NoPurge == CannotFill =>
  /\ \A t \in Threads : pc[t] \notin Purging
  /\ \A r \in Requests :
       /\ job[r].status = "dropped" => pc[Handler(r)] \in Leaving
       /\ pc[Handler(r)] \in {"returned", "unwind"} => resp[r] # << >>

AInv == SizeChecked /\ OneRow /\ NoPurge

\* No row becomes active, no job is dropped, no answer is taken back.
NoneActivated ==
  \A s \in Requests, d \in Depths : rows'[<<s, d>>].status \in Active => rows[<<s, d>>].status \in Active
NothingLost ==
  /\ NoneActivated
  /\ \A s \in Requests : /\ job'[s].depth = job[s].depth /\ (Known(s)' => Known(s))
                         /\ job'[s].status = "dropped" => job[s].status = "dropped"
                         /\ resp[s] # << >> => resp'[s] # << >>

\* A goroutine moves and nobody leaves in silence.
LEMMA Calm ==
  ASSUME IInv, RInv, AInv, NEW t \in Threads, NEW l, Goto(t, l),
         NothingLost,
         l \in Purging => pc[t] \in Purging \/ ~CannotFill,
         \A s \in Requests : t = Handler(s) =>
           /\ l \in Weighed => pc[t] \in Weighed \/ Size[s] <= MaxBytes
           /\ l \in Early => pc[t] \in Early \ {"register"}
           /\ pc[t] \in Leaving => l \in Leaving
           /\ CannotFill /\ l \in {"returned", "unwind"} => resp'[s] # << >> \/ pc[t] = "unwind"
  PROVE  AInv'
<1>1. \A u \in Threads : pc'[u] = IF u = t THEN l ELSE pc[u]
  BY DEF Goto, IInv, TypeInv, TypeOK, PcType
<1>2. \A s \in Requests : Handler(s) \in Threads
  BY ThreadFacts
<1>3. SizeChecked'
  <2> SUFFICES ASSUME NEW s \in Requests, pc'[Handler(s)] \in Weighed \/ Known(s)' PROVE Size[s] <= MaxBytes
    BY DEF SizeChecked
  <2>1. CASE Known(s)'
    BY <2>1 DEF AInv, SizeChecked, NothingLost
  <2>2. CASE pc'[Handler(s)] \in Weighed
    BY <1>1, <1>2, <2>2 DEF AInv, SizeChecked
  <2> QED BY <2>1, <2>2
<1>4. OneRow'
  <2> SUFFICES ASSUME NEW s \in Requests, NEW d \in Depths, rows'[<<s, d>>].status \in Active
               PROVE  /\ d = job'[s].depth /\ Size[s] <= MaxBytes
                      /\ pc'[Handler(s)] \in Early => pc'[Handler(s)] = "register"
    BY DEF OneRow
  <2>1. rows[<<s, d>>].status \in Active
    BY DEF NothingLost, NoneActivated
  <2>2. /\ d = job[s].depth /\ Size[s] <= MaxBytes
        /\ pc[Handler(s)] \in Early => pc[Handler(s)] = "register"
    BY <2>1 DEF AInv, OneRow
  <2>3. job'[s].depth = job[s].depth
    BY DEF NothingLost
  <2>4. pc'[Handler(s)] \in Early => pc'[Handler(s)] = "register"
    BY <1>1, <1>2, <2>2
  <2> QED BY <2>2, <2>3, <2>4
<1>5. NoPurge'
  <2> SUFFICES ASSUME CannotFill PROVE
        /\ \A u \in Threads : pc'[u] \notin Purging
        /\ \A r \in Requests :
             /\ job'[r].status = "dropped" => pc'[Handler(r)] \in Leaving
             /\ pc'[Handler(r)] \in {"returned", "unwind"} => resp'[r] # << >>
    BY DEF NoPurge, CannotFill
  <2>1. \A u \in Threads : pc[u] \notin Purging
    BY DEF AInv, NoPurge
  <2>2. \A u \in Threads : pc'[u] \notin Purging
    BY <1>1, <2>1
  <2>3. ASSUME NEW r \in Requests, job'[r].status = "dropped" PROVE pc'[Handler(r)] \in Leaving
    <3>1. pc[Handler(r)] \in Leaving
      BY <2>3 DEF AInv, NoPurge, NothingLost
    <3> QED BY <1>1, <1>2, <3>1
  <2>4. ASSUME NEW r \in Requests, pc'[Handler(r)] \in {"returned", "unwind"} PROVE resp'[r] # << >>
    <3>1. pc[Handler(r)] \in {"returned", "unwind"} => resp[r] # << >>
      BY DEF AInv, NoPurge
    <3>2. CASE t = Handler(r)
      BY <1>1, <1>2, <2>4, <3>1, <3>2 DEF NothingLost
    <3>3. CASE t # Handler(r)
      BY <1>1, <1>2, <2>4, <3>1, <3>3 DEF NothingLost
    <3> QED BY <3>2, <3>3
  <2> QED BY <2>2, <2>3, <2>4
<1> QED BY <1>3, <1>4, <1>5 DEF AInv

LEMMA NothingWritten ==
  ASSUME UNCHANGED <<job, resp>>, NoneActivated \/ UNCHANGED rows
  PROVE  NothingLost
BY DEF NothingLost, NoneActivated, Known

LEMMA AnswerWritten ==
  ASSUME IInv, NEW r \in Requests, NEW code \in Codes, Write(r, code)
  PROVE  /\ resp'[r] # << >>
         /\ \A s \in Requests : resp[s] # << >> => resp'[s] # << >>
<1>1. resp \in [Requests -> Seq(Codes)]
  BY DEF IInv, TypeInv, TypeOK, ClientType
<1>2. /\ resp'[r] = Append(resp[r], code)
      /\ \A s \in Requests : s # r => resp'[s] = resp[s]
  BY <1>1 DEF Write
<1>3. resp'[r] # << >>
  <2>1. resp[r] \in Seq(Codes)
    BY <1>1
  <2>2. Len(resp'[r]) = Len(resp[r]) + 1 /\ Len(resp[r]) \in Nat
    BY <1>2, <2>1
  <2>3. Len(<< >>) = 0
    OBVIOUS
  <2> QED BY <2>2, <2>3
<1> QED BY <1>2, <1>3

\* A statement on queue_jobs that writes a status which is not active.
LEMMA RowNotOpened ==
  ASSUME IInv, NEW r \in Requests, NEW d \in Depths, NEW status, NEW fin \in BOOLEAN,
         status \notin Active, UpdateQueueJob(<<r, d>>, status, fin)
  PROVE  NoneActivated
<1>1. <<r, d>> \in JobIds
  BY RowIds
<1>2. /\ \A x \in JobIds : x # <<r, d>> => rows'[x] = rows[x]
      /\ rows'[<<r, d>>] = rows[<<r, d>>] \/ rows'[<<r, d>>].status = status
  BY <1>1, UpdateRows
<1> QED BY <1>2, RowIds DEF NoneActivated

\* A handler's step that leaves the jobs alone.
LEMMA CalmHandler ==
  ASSUME IInv, RInv, AInv, NEW r \in Requests, NEW l, Goto(Handler(r), l), NothingLost,
         l \notin Purging,
         l \in Weighed => pc[Handler(r)] \in Weighed \/ Size[r] <= MaxBytes,
         l \in Early => pc[Handler(r)] \in Early \ {"register"},
         pc[Handler(r)] \in Leaving => l \in Leaving,
         CannotFill /\ l \in {"returned", "unwind"} => resp'[r] # << >> \/ pc[Handler(r)] = "unwind"
  PROVE  AInv'
<1>1. Handler(r) \in Threads /\ \A s \in Requests : Handler(r) = Handler(s) => s = r
  BY ThreadFacts
<1> QED BY <1>1, Calm

LEMMA AnsEnter ==
  ASSUME IInv, RInv, AInv, NEW r \in Requests, Enter(r) PROVE AInv'
<1> DEFINE t == Handler(r)
<1>1. pc[t] \in {"arrive", "enter"} /\ UNCHANGED <<rows, job>>
  BY DEF Enter, memory
<1>2. \/ Goto(t, "stats") /\ UNCHANGED resp /\ Size[r] <= MaxBytes
      \/ Return(r) /\ \E code \in Codes : Write(r, code)
  BY DEF Enter, Codes
<1>3. CASE Goto(t, "stats") /\ UNCHANGED resp /\ Size[r] <= MaxBytes
  <2>1. NothingLost
    BY <1>1, <1>3, NothingWritten
  <2>2. pc[t] \in Early \ {"register"} /\ pc[t] \notin Leaving /\ "stats" \notin Purging
    BY <1>1 DEF Early, Leaving, Purging
  <2> QED BY <1>3, <2>1, <2>2, CalmHandler
<1>4. ASSUME NEW code \in Codes, Write(r, code), Return(r) PROVE AInv'
  <2>1. NothingLost /\ resp'[r] # << >>
    BY <1>1, <1>4, AnswerWritten DEF NothingLost, NoneActivated, Known
  <2>2. PICK l \in {"returned", "unwind"} : Goto(t, l)
    BY <1>4, ReturnLabel
  <2>3. l \notin Purging /\ l \notin Early /\ l \notin Weighed /\ pc[t] \notin Leaving
    BY <1>1 DEF Early, Leaving, Purging, Weighed
  <2> QED BY <2>1, <2>2, <2>3, CalmHandler
<1> QED BY <1>2, <1>3, <1>4

\* A handler answers and returns.
LEMMA AnsReturn ==
  ASSUME IInv, RInv, AInv, NEW r \in Requests, Return(r), NothingLost,
         CannotFill => resp'[r] # << >>
  PROVE  AInv'
<1>1. PICK l \in {"returned", "unwind"} : Goto(Handler(r), l)
  BY ReturnLabel
<1>2. l \notin Purging /\ l \notin Early /\ l \notin Weighed /\ l \in Leaving
  BY DEF Early, Leaving, Purging, Weighed
<1> QED BY <1>1, <1>2, CalmHandler

LEMMA AnsCounts ==
  ASSUME IInv, RInv, AInv, NEW r \in Requests, Counts(r) PROVE AInv'
<1> DEFINE t == Handler(r)
<1>1. pc[t] = "counts" /\ UNCHANGED <<rows, job>>
  BY DEF Counts, memory
<1>2. \/ \E l \in {"overflow", "seq"} : Goto(t, l) /\ UNCHANGED resp
      \/ Return(r) /\ \E code \in Codes : Write(r, code)
  BY DEF Counts, Codes
<1>3. ASSUME NEW l \in {"overflow", "seq"}, Goto(t, l), UNCHANGED resp PROVE AInv'
  <2>1. NothingLost
    BY <1>1, <1>3, NothingWritten
  <2>2. /\ pc[t] \in Early \ {"register"} /\ pc[t] \in Weighed /\ pc[t] \notin Leaving
        /\ l \notin Purging /\ l \notin {"returned", "unwind"}
    BY <1>1 DEF Early, Leaving, Purging, Weighed
  <2> QED BY <1>3, <2>1, <2>2, CalmHandler
<1>4. ASSUME NEW code \in Codes, Write(r, code), Return(r) PROVE AInv'
  <2>1. NothingLost /\ resp'[r] # << >>
    BY <1>1, <1>4, AnswerWritten DEF NothingLost, NoneActivated, Known
  <2> QED BY <1>4, <2>1, AnsReturn
<1> QED BY <1>2, <1>3, <1>4

LEMMA AnsOverflow ==
  ASSUME IInv, RInv, AInv, NEW r \in Requests, Overflow(r) PROVE AInv'
<1> DEFINE t == Handler(r)
<1>1. pc[t] = "overflow" /\ UNCHANGED <<job, resp>>
  BY DEF Overflow, memory
<1>2. PICK e \in Depths : e = depth[r]
  BY <1>1 DEF IInv, TypeInv, HandleSound, Admitted
<1>3. PICK l \in {"enter", "direct"} : Goto(t, l)
  BY DEF Overflow
<1>4. UNCHANGED rows \/ \E q, n : rows' = [rows EXCEPT ![<<r, e>>] = NewRow(q, n, "overflow")]
  BY <1>2 DEF Overflow
<1>5. NoneActivated
  <2>1. rows \in [JobIds -> Row]
    BY DEF IInv, TypeInv, TypeOK, RowsType
  <2>2. ASSUME NEW q, NEW n, rows' = [rows EXCEPT ![<<r, e>>] = NewRow(q, n, "overflow")]
        PROVE  /\ rows'[<<r, e>>].status = "overflow"
               /\ \A x \in JobIds : x # <<r, e>> => rows'[x] = rows[x]
    BY <2>1, <2>2, RowIds DEF NewRow
  <2> QED BY <1>4, <2>2, RowIds DEF NoneActivated, Active
<1>6. NothingLost
  BY <1>1, <1>5, NothingWritten
<1>7. /\ pc[t] \in Early \ {"register"} /\ pc[t] \in Weighed /\ pc[t] \notin Leaving
      /\ l \notin Purging /\ l \notin {"returned", "unwind"}
  BY <1>1 DEF Early, Leaving, Purging, Weighed
<1> QED BY <1>3, <1>6, <1>7, CalmHandler

LEMMA AnsUnwinding ==
  ASSUME IInv, RInv, AInv, NEW r \in Requests, Direct(r) \/ Unwind(r) PROVE AInv'
<1> DEFINE t == Handler(r)
<1>1. UNCHANGED job
  BY DEF Direct, Unwind, memory
<1>2. CASE Direct(r)
  <2>1. /\ pc[t] = "direct" /\ Write(r, "reply") /\ Return(r)
        /\ UpdateQueueJob(<<r, depth[r]>>, "ended", TRUE)
    BY <1>2 DEF Direct
  <2>2. depth[r] \in Depths
    BY <2>1 DEF IInv, TypeInv, HandleSound, Admitted
  <2>3. NoneActivated
    <3>1. "ended" \notin Active
      BY DEF Active
    <3> QED BY <2>1, <2>2, <3>1, RowNotOpened
  <2>4. NothingLost /\ resp'[r] # << >>
    BY <1>1, <2>1, <2>3, AnswerWritten DEF NothingLost, Known, Codes
  <2> QED BY <2>1, <2>4, AnsReturn
<1>3. CASE Unwind(r)
  <2>1. /\ pc[t] = "unwind" /\ UNCHANGED resp
        /\ UpdateQueueJob(<<r, depth[r] - 1>>, "overflow", TRUE)
    BY <1>3 DEF Unwind
  <2>2. PICK l \in {"returned", "unwind"} : Goto(t, l)
    BY <1>3 DEF Unwind
  <2>3. depth[r] - 1 \in Depths
    BY <2>1 DEF IInv, TypeInv, HandleSound, Depths, MaxDepth
  <2>4. NoneActivated
    <3>1. "overflow" \notin Active
      BY DEF Active
    <3> QED BY <2>1, <2>3, <3>1, RowNotOpened
  <2>5. NothingLost
    BY <1>1, <2>1, <2>4, NothingWritten
  <2>6. l \notin Purging /\ l \notin Early /\ l \notin Weighed /\ l \in Leaving
    BY DEF Early, Leaving, Purging, Weighed
  <2> QED BY <2>1, <2>2, <2>5, <2>6, CalmHandler
<1> QED BY <1>2, <1>3

LEMMA AnsReadSeq ==
  ASSUME IInv, RInv, AInv, NEW r \in Requests, ReadSeq(r) PROVE AInv'
<1> DEFINE t == Handler(r)
<1>1. pc[t] = "seq" /\ UNCHANGED rows /\ t \in Threads
  BY ThreadFacts DEF ReadSeq
<1>2. ASSUME UNCHANGED job, Write(r, "500"), Return(r) PROVE AInv'
  <2>1. NothingLost /\ resp'[r] # << >>
    BY <1>1, <1>2, AnswerWritten DEF NothingLost, NoneActivated, Known, Codes
  <2> QED BY <1>2, <2>1, AnsReturn
<1>3. ASSUME NEW j, job' = [job EXCEPT ![r] = j], j.status = "waiting", Goto(t, "insert"),
             UNCHANGED resp
      PROVE  AInv'
  <2>1. job \in [Requests -> Job]
    BY DEF IInv, TypeInv, TypeOK, MemoryType
  <2>2. job'[r].status = "waiting" /\ \A s \in Requests : s # r => job'[s] = job[s]
    BY <1>3, <2>1
  <2>3. \A s \in Requests : pc'[Handler(s)] = IF s = r THEN "insert" ELSE pc[Handler(s)]
    BY <1>1, <1>3, ThreadFacts DEF Goto, IInv, TypeInv, TypeOK, PcType
  <2>4. \A u \in Threads : pc'[u] = IF u = t THEN "insert" ELSE pc[u]
    BY <1>1, <1>3 DEF Goto, IInv, TypeInv, TypeOK, PcType
  <2>5. pc[t] \in Weighed /\ pc[t] \in Early /\ pc[t] # "register"
    BY <1>1 DEF Weighed, Early
  <2>6. Size[r] <= MaxBytes /\ \A d \in Depths : rows[<<r, d>>].status \notin Active
    BY <2>5 DEF AInv, SizeChecked, OneRow
  <2>7. SizeChecked'
    BY <2>2, <2>3, <2>6 DEF AInv, SizeChecked, Known
  <2>8. OneRow'
    BY <1>1, <2>2, <2>3, <2>6 DEF AInv, OneRow
  <2>9. NoPurge'
    BY <1>3, <2>2, <2>3, <2>4 DEF AInv, NoPurge, CannotFill, Purging
  <2> QED BY <2>7, <2>8, <2>9 DEF AInv
<1> QED BY <1>2, <1>3 DEF ReadSeq

LEMMA AnsInsert ==
  ASSUME IInv, RInv, AInv, NEW r \in Requests, Insert(r) PROVE AInv'
<1> DEFINE t == Handler(r)
<1>1. pc[t] = "insert" /\ UNCHANGED job /\ t \in Threads
  BY ThreadFacts DEF Insert, memory
<1>2. ASSUME UNCHANGED rows, Write(r, "500"), Return(r) PROVE AInv'
  <2>1. NothingLost /\ resp'[r] # << >>
    BY <1>1, <1>2, AnswerWritten DEF NothingLost, NoneActivated, Known, Codes
  <2> QED BY <1>2, <2>1, AnsReturn
<1>3. PICK e \in Depths : e = depth[r]
  BY <1>1 DEF IInv, TypeInv, HandleSound, Admitted
<1>4. ASSUME NEW x, rows' = [rows EXCEPT ![<<r, e>>] = x], Goto(t, "register"), UNCHANGED resp
      PROVE  AInv'
  <2>1. rows \in [JobIds -> Row]
    BY DEF IInv, TypeInv, TypeOK, RowsType
  <2>2. \A s \in Requests, d \in Depths : s # r \/ d # e => rows'[<<s, d>>] = rows[<<s, d>>]
    BY <1>4, <2>1, RowIds
  <2>3. \A u \in Threads : pc'[u] = IF u = t THEN "register" ELSE pc[u]
    BY <1>1, <1>4 DEF Goto, IInv, TypeInv, TypeOK, PcType
  <2>4. \A s \in Requests : pc'[Handler(s)] = IF s = r THEN "register" ELSE pc[Handler(s)]
    BY <2>3, ThreadFacts
  <2>5. pc[t] \in Weighed /\ pc[t] \in Early /\ pc[t] # "register"
    BY <1>1 DEF Weighed, Early
  <2>6. /\ Size[r] <= MaxBytes /\ e = job[r].depth
        /\ \A d \in Depths : rows[<<r, d>>].status \notin Active
    BY <1>1, <1>3, <2>5 DEF AInv, SizeChecked, OneRow, RInv, Life, JobDepth
  <2>7. SizeChecked'
    BY <1>1, <2>4, <2>6 DEF AInv, SizeChecked, Known
  <2>8. OneRow'
    BY <1>1, <2>2, <2>4, <2>6 DEF AInv, OneRow
  <2>9. NoPurge'
    BY <1>1, <1>4, <2>3, <2>4 DEF AInv, NoPurge, CannotFill, Purging, Leaving
  <2> QED BY <2>7, <2>8, <2>9 DEF AInv
<1> QED BY <1>2, <1>3, <1>4 DEF Insert

LEMMA AnsRegister ==
  ASSUME IInv, RInv, AInv, NEW r \in Requests, Register(r) PROVE AInv'
<1>1. /\ pc[Handler(r)] = "register" /\ Goto(Handler(r), "get")
      /\ UNCHANGED <<rows, job, resp>>
  BY DEF Register, client
<1>2. NothingLost
  BY <1>1, NothingWritten
<1>3. "get" \notin Purging \cup Weighed \cup Early \cup {"returned", "unwind"} /\ "register" \notin Leaving
  BY DEF Purging, Weighed, Early, Leaving
<1> QED BY <1>1, <1>2, <1>3, CalmHandler

-----------------------------------------------------------------------------
(***************************************************************************)
(* The purge.  What WaitingStats counts is at most what CannotFill bounds. *)
(***************************************************************************)
LEMMA NeverOver ==
  ASSUME IInv, AInv, CannotFill
  PROVE  ~Over([jobs |-> Cardinality(ActiveRows), bytes |-> SumFunction([id \in ActiveRows |-> Size[id[1]]])])
<1> DEFINE B == {r \in Requests : Size[r] <= MaxBytes}
           v == [id \in ActiveRows |-> Size[id[1]]]
           f == [id \in ActiveRows |-> id[1]]
<1>1. Cardinality(B) < MaxJobs /\ SumFunctionOnSet(Size, B) < MaxBytes
  BY DEF CannotFill
<1>2. IsFiniteSet(B) /\ B \subseteq Requests
  BY RequestsAssumption, FS_Subset
<1>3. ASSUME NEW id \in ActiveRows
      PROVE  \E r \in B : id = <<r, job[r].depth>>
  <2>1. PICK r \in Requests, d \in Depths : id = <<r, d>>
    BY <1>3 DEF ActiveRows, JobIds
  <2>2. rows[<<r, d>>].status \in Active
    BY <1>3, <2>1 DEF ActiveRows
  <2> QED BY <2>1, <2>2 DEF AInv, OneRow
<1>4. f \in [ActiveRows -> B] /\ v \in [ActiveRows -> Nat]
  BY <1>2, <1>3, BoundsAssumption
<1>5. \A x, y \in ActiveRows : f[x] = f[y] => x = y
  BY <1>3
<1>6. \A x \in ActiveRows : v[x] = Size[f[x]]
  OBVIOUS
<1>7. IsFiniteSet(ActiveRows) /\ Cardinality(ActiveRows) <= Cardinality(B)
  <2>1. f \in Injection(ActiveRows, B)
    <3> HIDE DEF f, v, B
    <3> QED BY <1>4, <1>5 DEF Injection, IsInjective
  <2> QED BY <1>2, <2>1, FS_Injection
<1>8. /\ SumFunctionOnSet(v, ActiveRows) <= SumFunctionOnSet(Size, B)
      /\ SumFunctionOnSet(v, ActiveRows) \in Nat /\ SumFunctionOnSet(Size, B) \in Nat
  <2>1. \A x \in B : Size[x] \in Nat
    BY BoundsAssumption
  <2>2. \A x \in ActiveRows : v[x] \in Nat
    BY <1>4
  <2> HIDE DEF v, f, B
  <2> QED BY <1>2, <1>4, <1>5, <1>6, <1>7, <2>1, <2>2, SumsCompare
<1>9. SumFunction(v) = SumFunctionOnSet(v, ActiveRows)
  BY DEF SumFunction
<1>10. Cardinality(ActiveRows) \in Nat /\ Cardinality(B) \in Nat /\ MaxJobs \in Nat /\ MaxBytes \in Nat
  BY <1>2, <1>7, FS_CardinalityType, BoundsAssumption
<1> HIDE DEF v, B
<1>11. SumFunction(v) < MaxBytes /\ SumFunction(v) \in Nat
  BY <1>1, <1>8, <1>9, <1>10
<1>12. Cardinality(ActiveRows) < MaxJobs
  BY <1>1, <1>7, <1>10
<1>13. ~Over([jobs |-> Cardinality(ActiveRows), bytes |-> SumFunction(v)])
  BY <1>10, <1>11, <1>12 DEF Over
<1> QED BY <1>13 DEF v

LEMMA CalmPurge ==
  ASSUME IInv, RInv, AInv, NEW t \in Purgers, NEW l \in Purging \cup {"list", "counts"}, Goto(t, l),
         pc[t] \in Purging \cup {"stats"}, NothingLost,
         l \in Purging => pc[t] \in Purging \/ ~CannotFill
  PROVE  AInv'
<1>1. t \in Threads
  BY DEF Purgers
<1>2. /\ pc[t] \in Weighed /\ pc[t] \in Early \ {"register"} /\ pc[t] \notin Leaving
      /\ l \notin {"returned", "unwind"}
  BY DEF Purging, Weighed, Early, Leaving
<1> QED BY <1>1, <1>2, Calm

LEMMA AnsStats ==
  ASSUME IInv, RInv, AInv, NEW t \in Purgers, WaitingStats(t) \/ OldestWaiting(t) PROVE AInv'
<1>1. pc[t] \in {"stats", "oldest"} /\ UNCHANGED <<job, resp>>
  BY DEF WaitingStats, OldestWaiting, memory, client
<1>2. UNCHANGED rows \/ PurgeFinishedQueueJobs
  BY DEF WaitingStats, OldestWaiting
<1>3. NothingLost
  <2>1. RowsKept
    BY <1>2, RowsSame, FinishedGone
  <2> QED BY <1>1, <2>1, NothingWritten DEF RowsKept, NoneActivated
<1>4. CASE WaitingStats(t)
  <2>1. \/ /\ Over([jobs |-> Cardinality(ActiveRows), bytes |-> SumFunction([id \in ActiveRows |-> Size[id[1]]])])
           /\ Goto(t, "oldest")
        \/ \E l \in {"list", "counts"} : Goto(t, l)
    BY <1>4 DEF WaitingStats, PurgeReturn
  <2>2. {"oldest", "list", "counts"} \subseteq Purging \cup {"list", "counts"} /\ "list" \notin Purging /\ "counts" \notin Purging
        /\ pc[t] \in Purging \cup {"stats"}
    BY <1>1 DEF Purging
  <2> QED BY <1>3, <2>1, <2>2, NeverOver, CalmPurge
<1>5. CASE OldestWaiting(t)
  <2>1. pc[t] = "oldest" /\ \E l \in {"take", "list", "counts"} : Goto(t, l)
    BY <1>5 DEF OldestWaiting, PurgeReturn
  <2>2. {"take", "list", "counts"} \subseteq Purging \cup {"list", "counts"} /\ pc[t] \in Purging
    BY <2>1 DEF Purging
  <2> QED BY <1>3, <2>1, <2>2, CalmPurge
<1> QED BY <1>4, <1>5

\* wt.job.Status = dropped: by a purge, or by the handler that leaves.
LEMMA AnsMark ==
  ASSUME IInv, RInv, AInv, NEW t \in Threads, NEW from, NEW to, Mark(t, from, to),
         \/ from = "mark" /\ to = "save"
         \/ from = "tmark" /\ to = "tsave"
  PROVE  AInv'
<1>1. /\ pc[t] = from /\ Goto(t, to) /\ job' = [job EXCEPT ![victim[t]].status = "dropped"]
      /\ UNCHANGED <<rows, resp>>
  BY DEF Mark, client
<1>2. PICK v \in Requests : v = victim[t]
  BY <1>1 DEF IInv, TypeInv, VictimSound
<1>3. job \in [Requests -> Job]
  BY DEF IInv, TypeInv, TypeOK, MemoryType
<1>4. /\ job'[v] = [job[v] EXCEPT !.status = "dropped"]
      /\ \A s \in Requests : s # v => job'[s] = job[s]
  BY <1>1, <1>2, <1>3
<1>5. \A s \in Requests : job'[s].depth = job[s].depth /\ (Known(s)' => Known(s))
  BY <1>3, <1>4 DEF Known, Job
<1>6. \A u \in Threads : pc'[u] = IF u = t THEN to ELSE pc[u]
  BY <1>1 DEF Goto, IInv, TypeInv, TypeOK, PcType
<1>7. \A s \in Requests : /\ pc'[Handler(s)] \in Early => pc'[Handler(s)] = "save" \/ pc'[Handler(s)] = pc[Handler(s)]
                          /\ pc'[Handler(s)] = "save" => pc[Handler(s)] \in {"mark", "save"}
  BY <1>1, <1>6, ThreadFacts DEF Early
<1>8. SizeChecked'
  BY <1>5, <1>7 DEF AInv, SizeChecked, Weighed, Early
<1>9. OneRow'
  BY <1>1, <1>5, <1>7 DEF AInv, OneRow, Early
<1>10. NoPurge'
  <2>1. CASE from = "mark"
    <3>1. ~CannotFill
      BY <1>1, <2>1 DEF AInv, NoPurge, Purging
    <3> QED BY <3>1 DEF NoPurge, CannotFill
  <2>2. CASE from = "tmark"
    <3>1. t = Handler(v) /\ to = "tsave"
      BY <1>1, <1>2, <2>2 DEF RInv, Life, VictimGone, Dropping
    <3>2. \A u \in Threads : pc'[u] \in Purging => pc[u] \in Purging
      BY <1>6, <3>1 DEF Purging
    <3>3. \A s \in Requests : pc'[Handler(s)] = IF s = v THEN "tsave" ELSE pc[Handler(s)]
      BY <1>6, <3>1, ThreadFacts
    <3> QED BY <1>1, <1>4, <3>2, <3>3 DEF AInv, NoPurge, CannotFill, Leaving
  <2> QED BY <2>1, <2>2
<1> QED BY <1>8, <1>9, <1>10 DEF AInv

\* dropWaiter writes the row of a job that is over.
LEMMA DropWritten ==
  ASSUME IInv, RInv, NEW t \in Threads, pc[t] \in {"save", "tsave"}, NEW v \in Requests, v = victim[t],
         DropSave(v), UNCHANGED <<job, resp>>
  PROVE  NothingLost
<1>1. job[v].status \notin Active
  BY DEF RInv, Life, VictimGone, Dropping, Final, Active
<1>2. job[v].depth \in Depths
  BY DEF IInv, TypeInv, TypeOK, MemoryType, Job
<1>3. NoneActivated
  BY <1>1, <1>2, RowNotOpened DEF DropSave
<1> QED BY <1>3, NothingWritten

LEMMA AnsPurge ==
  ASSUME IInv, RInv, AInv, NEW t \in Purgers, PurgeStep(t) PROVE AInv'
<1>1. t \in Threads
  BY DEF Purgers
<1>2. CASE PurgeTake(t)
  <2>1. pc[t] = "take" /\ UNCHANGED <<rows, job, resp>>
    BY <1>2 DEF PurgeTake, client
  <2>2. \E l \in {"mark", "take", "list", "counts"} : Goto(t, l)
    BY <1>2, PurgeNextLabel DEF PurgeTake
  <2>3. NothingLost
    BY <2>1, NothingWritten
  <2>4. {"mark", "take", "list", "counts"} \subseteq Purging \cup {"list", "counts"} /\ pc[t] \in Purging
    BY <2>1 DEF Purging
  <2> QED BY <2>2, <2>3, <2>4, CalmPurge
<1>3. CASE PurgeMark(t)
  BY <1>1, <1>3, AnsMark DEF PurgeMark
<1>4. CASE PurgeSave(t)
  <2>1. /\ pc[t] = "save" /\ DropSave(victim[t]) /\ PurgeNext(t, victim[t])
        /\ UNCHANGED <<job, resp>>
    BY <1>4 DEF PurgeSave, client
  <2>2. victim[t] \in Requests
    BY <1>1, <2>1 DEF IInv, TypeInv, VictimSound
  <2>3. NothingLost
    BY <1>1, <2>1, <2>2, DropWritten
  <2>4. PICK l \in {"take", "list", "counts"} : Goto(t, l)
    BY <2>1, PurgeNextLabel
  <2>5. {"take", "list", "counts"} \subseteq Purging \cup {"list", "counts"} /\ pc[t] \in Purging
    BY <2>1 DEF Purging
  <2> QED BY <2>3, <2>4, <2>5, CalmPurge
<1> QED BY <1>2, <1>3, <1>4, AnsStats DEF PurgeStep

-----------------------------------------------------------------------------
LEMMA CalmDispatch ==
  ASSUME IInv, RInv, AInv, NEW t \in Threads, NEW l, Goto(t, l), NothingLost,
         pc[t] \in {"get", "scan", "commit"}, l \notin Purging,
         t # Loop => l \notin Early \cup {"returned", "unwind"}
  PROVE  AInv'
<1>1. \A s \in Requests : t = Handler(s) => l \notin Early \cup {"returned", "unwind"}
  BY ThreadFacts
<1>2. pc[t] \notin Leaving /\ Weighed \subseteq Early
  BY DEF Leaving, Weighed
<1> QED BY <1>1, <1>2, Calm

LEMMA AnsLook ==
  ASSUME IInv, RInv, AInv, NEW t \in Threads, GetQueue(t) \/ Scan(t) PROVE AInv'
<1>1. pc[t] \in {"get", "scan"} /\ UNCHANGED <<rows, job, resp>>
  BY DEF GetQueue, Scan, memory, client
<1>2. NothingLost
  BY <1>1, NothingWritten
<1>3. Goto(t, "commit") \/ DispatchReturn(t)
  BY DEF GetQueue, Scan, Choose
<1>4. {"commit", "stats", "get", "select", "end"} \cap (Purging \cup {"returned", "unwind"}) = {}
      /\ {"commit", "select", "end"} \cap Early = {}
  BY DEF Purging, Early
<1>5. CASE Goto(t, "commit")
  BY <1>1, <1>2, <1>4, <1>5, CalmDispatch
<1>6. CASE DispatchReturn(t)
  <2>1. PICK l : Goto(t, l) /\ IF t = Loop THEN l \in {"stats", "get"}
                               ELSE l = IF t[1] = "handler" THEN "select" ELSE "end"
    BY <1>6, ReturnMoves
  <2> QED BY <1>1, <1>2, <1>4, <2>1, CalmDispatch
<1> QED BY <1>3, <1>5, <1>6

LEMMA AnsCommit ==
  ASSUME IInv, RInv, AInv, NEW t \in Threads, Commit(t) PROVE AInv'
<1>1. pc[t] = "commit" /\ UNCHANGED <<rows, resp>>
  BY DEF Commit, client
<1>2. {"launch", "scan"} \cap (Purging \cup Early \cup {"returned", "unwind"}) = {}
  BY DEF Purging, Early
<1>3. CASE Goto(t, "scan") /\ UNCHANGED job
  BY <1>1, <1>2, <1>3, NothingWritten, CalmDispatch
<1>4. CASE /\ Stands(pick[t]) /\ Goto(t, "launch")
           /\ job' = [job EXCEPT ![pick[t].r].status = "running", ![pick[t].r].model = pick[t].model]
  <2>1. PICK r \in Requests : r = pick[t].r
    BY <1>1 DEF IInv, Core, PickSound
  <2>2. job \in [Requests -> Job]
    BY DEF IInv, TypeInv, TypeOK, MemoryType
  <2>3. /\ job'[r] = [job[r] EXCEPT !.status = "running", !.model = pick[t].model]
        /\ \A s \in Requests : s # r => job'[s] = job[s]
    BY <1>4, <2>1, <2>2
  <2>4. job[r].status = "waiting"
    BY <1>4, <2>1 DEF Stands
  <2>5. NothingLost
    BY <1>1, <2>2, <2>3, <2>4 DEF NothingLost, NoneActivated, Known, Job
  <2> QED BY <1>1, <1>2, <1>4, <2>5, CalmDispatch
<1> QED BY <1>3, <1>4 DEF Commit

LEMMA AnsLaunch ==
  ASSUME IInv, RInv, AInv, NEW t \in Threads, Launch(t) PROVE AInv'
<1>1. pc[t] = "launch" /\ UNCHANGED <<job, resp>>
  BY DEF Launch, memory, client
<1>2. PICK r \in Requests : r = pick[t].r
  BY <1>1 DEF IInv, Core, PickSound
<1>3. /\ UpdateQueueJob(<<r, job[r].depth>>, "running", FALSE)
      /\ pc' = [pc EXCEPT ![t] = "scan", ![Runner(r)] = "forward"]
  BY <1>2 DEF Launch
<1>4. PICK e \in Depths : e = job[r].depth
  BY DEF IInv, TypeInv, TypeOK, MemoryType, Job
<1>5. \A s \in Requests, d \in Depths : s # r \/ d # e => rows'[<<s, d>>] = rows[<<s, d>>]
  <2>1. \A x \in JobIds : x # <<r, e>> => rows'[x] = rows[x]
    BY <1>3, <1>4, RowIds, UpdateRows
  <2> QED BY <2>1, RowIds
<1>6. \A u \in Threads : pc'[u] = IF u = Runner(r) THEN "forward" ELSE IF u = t THEN "scan" ELSE pc[u]
  BY <1>3, ThreadFacts DEF IInv, TypeInv, TypeOK, PcType
<1>7. \A s \in Requests : pc'[Handler(s)] = IF t = Handler(s) THEN "scan" ELSE pc[Handler(s)]
  BY <1>6, ThreadFacts
<1>8. /\ pc[Handler(r)] \notin Early
      /\ Known(r)
  <2>1. pc[Handler(r)] \notin Early
    BY <1>1, <1>2 DEF IInv, Core, EarlyHidden, PickedBy
  <2>2. job[r].model # NoModel
    BY <1>1, <1>2, ModelsAssumption DEF IInv, Core, LaunchSound, PickSound
  <2> QED BY <2>1, <2>2 DEF Known
<1>9. {"scan", "forward"} \cap (Purging \cup Early \cup Weighed \cup {"returned", "unwind"}) = {}
      /\ "launch" \notin Leaving
  BY DEF Purging, Early, Weighed, Leaving
<1>10. SizeChecked'
  BY <1>1, <1>7, <1>9 DEF AInv, SizeChecked, Known
<1>11. OneRow'
  <2> SUFFICES ASSUME NEW s \in Requests, NEW d \in Depths, rows'[<<s, d>>].status \in Active
               PROVE  /\ d = job'[s].depth /\ Size[s] <= MaxBytes
                      /\ pc'[Handler(s)] \in Early => pc'[Handler(s)] = "register"
    BY DEF OneRow
  <2>1. CASE s = r /\ d = e
    BY <1>1, <1>4, <1>7, <1>8, <1>9, <2>1 DEF AInv, SizeChecked
  <2>2. CASE s # r \/ d # e
    <3>1. rows[<<s, d>>].status \in Active
      BY <1>5, <2>2
    <3> QED BY <1>1, <1>7, <1>9, <3>1 DEF AInv, OneRow
  <2> QED BY <2>1, <2>2
<1>12. NoPurge'
  BY <1>1, <1>6, <1>7, <1>9 DEF AInv, NoPurge, CannotFill
<1> QED BY <1>10, <1>11, <1>12 DEF AInv

\* The select, the deadline and the 504: a handler woken in its select has an
\* answer, since nobody but itself would have dropped it.
LEMMA AnsWait ==
  ASSUME IInv, RInv, AInv, NEW r \in Requests,
         WakeUp(r) \/ Timeout(r) \/ TimeoutDrop(r) \/ TimeoutSave(r) \/ TimeoutReply(r)
  PROVE  AInv'
<1> DEFINE t == Handler(r)
<1>0. t \in Threads
  BY ThreadFacts
<1>1. CASE WakeUp(r)
  <2>1. /\ pc[t] \in {"select", "await"} /\ r \in done /\ Return(r)
        /\ UNCHANGED <<rows, job, resp>>
    BY <1>1 DEF WakeUp, memory, client
  <2>2. job[r].status \in Final
    BY <2>1 DEF RInv, Life, DoneFinal
  <2>3. CannotFill => job[r].status # "dropped"
    BY <2>1 DEF AInv, NoPurge, Leaving
  <2>4. job[r].status = "ended" => resp[r] # << >>
    BY DEF RInv, AnswerSound
  <2>5. CannotFill => resp'[r] # << >>
    BY <2>1, <2>2, <2>3, <2>4 DEF Final
  <2>6. NothingLost
    BY <2>1, NothingWritten
  <2> QED BY <2>1, <2>5, <2>6, AnsReturn
<1>2. CASE TimeoutReply(r)
  <2>1. Write(r, "504") /\ Return(r) /\ UNCHANGED <<rows, job>>
    BY <1>2 DEF TimeoutReply, memory
  <2>2. NothingLost /\ resp'[r] # << >>
    BY <2>1, AnswerWritten DEF NothingLost, NoneActivated, Known, Codes
  <2> QED BY <2>1, <2>2, AnsReturn
<1>3. CASE Timeout(r) \/ TimeoutDrop(r) \/ TimeoutSave(r)
  <2>1. /\ \/ pc[t] \in {"select", "tdrop"} /\ UNCHANGED rows
           \/ pc[t] = "tsave" /\ DropSave(r)
        /\ UNCHANGED <<job, resp>>
    BY <1>3 DEF Timeout, TimeoutDrop, TimeoutSave, memory, client
  <2>2. PICK l \in {"tdrop", "await", "tmark", "t504"} : Goto(t, l) /\ (pc[t] = "tsave" => l = "t504")
    BY <1>3 DEF Timeout, TimeoutDrop, TimeoutSave
  <2>3. NothingLost
    <3>1. pc[t] \in {"select", "tdrop"} => "tsave" # pc[t]
      OBVIOUS
    <3>2. CASE pc[t] = "tsave"
      <4>1. job[r].status \notin Active
        <5>1. victim[t] = r
          <6>1. victim[t] \in Requests /\ t = Handler(victim[t])
            BY <1>0, <3>2 DEF RInv, Life, VictimGone, Dropping, IInv, TypeInv, VictimSound
          <6> QED BY <6>1, ThreadFacts
        <5> QED BY <1>0, <3>2, <5>1 DEF RInv, Life, VictimGone, Dropping, Final, Active
      <4>2. job[r].depth \in Depths
        BY DEF IInv, TypeInv, TypeOK, MemoryType, Job
      <4>3. NoneActivated
        BY <2>1, <3>2, <4>1, <4>2, RowNotOpened DEF DropSave
      <4> QED BY <2>1, <4>3, NothingWritten
    <3> QED BY <2>1, <3>2, NothingWritten
  <2>4. /\ l \notin Purging \cup Early \cup Weighed \cup {"returned", "unwind"}
        /\ pc[t] \in Leaving => l \in Leaving
    BY <2>1, <2>2 DEF Purging, Early, Weighed, Leaving
  <2> QED BY <2>2, <2>3, <2>4, CalmHandler
<1> QED BY <1>1, <1>2, <1>3

LEMMA AnsRunner ==
  ASSUME IInv, RInv, AInv, NEW r \in Requests, Run(r) \/ Finish(r) \/ FinishSave(r)
  PROVE  AInv'
<1> DEFINE t == Runner(r)
<1>1. t \in Threads /\ \A s \in Requests : t # Handler(s)
  BY ThreadFacts
<1>2. PICK l \in {"finish", "store", "get"} : Goto(t, l)
  BY DEF Run, Finish, FinishSave
<1>3. l \notin Purging
  BY DEF Purging
<1>4. CASE Run(r)
  <2>1. /\ job' = [job EXCEPT ![r].status = "ended"] /\ Write(r, "reply") /\ UNCHANGED rows
    BY <1>4 DEF Run
  <2>2. job \in [Requests -> Job]
    BY DEF IInv, TypeInv, TypeOK, MemoryType
  <2>3. job'[r] = [job[r] EXCEPT !.status = "ended"] /\ \A s \in Requests : s # r => job'[s] = job[s]
    BY <2>1, <2>2
  <2>4. \A s \in Requests : resp[s] # << >> => resp'[s] # << >>
    BY <2>1, AnswerWritten DEF Codes
  <2>5. NothingLost
    BY <2>1, <2>2, <2>3, <2>4 DEF NothingLost, NoneActivated, Known, Job
  <2> QED BY <1>1, <1>2, <1>3, <2>5, Calm
<1>5. CASE Finish(r)
  <2>1. NothingLost
    BY <1>5, NothingWritten DEF Finish, client
  <2> QED BY <1>1, <1>2, <1>3, <2>1, Calm
<1>6. CASE FinishSave(r)
  <2>1. /\ pc[t] = "store" /\ UpdateQueueJob(<<r, job[r].depth>>, job[r].status, TRUE)
        /\ UNCHANGED <<job, resp>>
    BY <1>6 DEF FinishSave, client
  <2>2. job[r].status \notin Active /\ job[r].depth \in Depths
    BY <2>1 DEF RInv, Life, DoneFinal, Final, Active, IInv, TypeInv, TypeOK, MemoryType, Job
  <2>3. NothingLost
    BY <2>1, <2>2, RowNotOpened, NothingWritten
  <2> QED BY <1>1, <1>2, <1>3, <2>3, Calm
<1> QED BY <1>4, <1>5, <1>6

LEMMA AnsListQueues ==
  ASSUME IInv, RInv, AInv, ListQueues PROVE AInv'
<1>1. UNCHANGED <<rows, job, resp>>
  BY DEF ListQueues, memory, client
<1>2. PICK l \in {"stats", "get"} : Goto(Loop, l)
  BY DEF ListQueues, NextQueue
<1>3. l \notin Purging
  BY DEF Purging
<1> QED BY <1>1, <1>2, <1>3, NothingWritten, Calm, ThreadFacts

LEMMA AnsStill ==
  ASSUME IInv, RInv, AInv, UNCHANGED <<rows, job, resp, pc>> PROVE AInv'
BY DEF AInv, SizeChecked, OneRow, NoPurge, Known, CannotFill

LEMMA AnsRestart ==
  ASSUME IInv, RInv, AInv, Restart PROVE AInv'
<1>1. UNCHANGED resp
  BY DEF Restart, client
<1>2. \A r \in Requests : /\ pc'[Handler(r)] \in {"arrive", "returned", "lost"}
                          /\ pc'[Handler(r)] # "lost" => pc'[Handler(r)] = pc[Handler(r)]
  BY ThreadFacts DEF Restart
<1>3. \A t \in Threads : pc'[t] \notin Purging
  BY ThreadFacts DEF Restart, Purging
<1>4. \A r \in Requests : ~Known(r)' /\ job'[r].status = "none" /\ job'[r].depth = job[r].depth
  BY DEF Restart, Known, IInv, TypeInv, TypeOK, MemoryType, Job
<1>5. SizeChecked'
  BY <1>2, <1>4 DEF SizeChecked, Weighed, Early
<1>6. NoneActivated
  <2>1. rows \in [JobIds -> Row]
    BY DEF IInv, TypeInv, TypeOK, RowsType
  <2>2. CASE UNCHANGED rows
    BY <2>2 DEF NoneActivated
  <2>3. CASE ResetStaleQueueJobs
    <3>1. \A x \in JobIds : rows'[x] = rows[x] \/ rows[x].status \in Active
      BY <2>3 DEF ResetStaleQueueJobs
    <3> QED BY <3>1, RowIds DEF NoneActivated
  <2> QED BY <2>2, <2>3 DEF Restart
<1>7. OneRow'
  BY <1>2, <1>4, <1>6 DEF AInv, OneRow, NoneActivated, Early
<1>8. NoPurge'
  BY <1>1, <1>2, <1>3, <1>4 DEF AInv, NoPurge, CannotFill
<1> QED BY <1>5, <1>7, <1>8 DEF AInv

LEMMA InitAns == Init => AInv
<1> SUFFICES ASSUME Init PROVE AInv
  OBVIOUS
<1>1. /\ \A r \in Requests : pc[Handler(r)] = "arrive"
      /\ \A t \in Threads : pc[t] \in {"arrive", "off", "stats"}
  BY ThreadFacts DEF Init
<1>2. \A r \in Requests : job[r].status = "none" /\ job[r].model = NoModel
  BY DEF Init
<1>3. \A r \in Requests, d \in Depths : rows[<<r, d>>].status = "none"
  BY RowIds DEF Init, NewRow, JobIds
<1> QED BY <1>1, <1>2, <1>3 DEF AInv, SizeChecked, OneRow, NoPurge, Known, Weighed, Early, Active, Purging

LEMMA AnsStep == IInv /\ RInv /\ AInv /\ [Next]_vars => AInv'
<1> SUFFICES ASSUME IInv, RInv, AInv, [Next]_vars PROVE AInv'
  OBVIOUS
<1>1. ASSUME NEW t \in Threads, DispatchStep(t) PROVE AInv'
  BY <1>1, AnsLook, AnsCommit, AnsLaunch DEF DispatchStep
<1>2. ASSUME NEW r \in Requests, HandlerStep(r) \/ Timeout(r) PROVE AInv'
  <2>1. Handler(r) \in Threads /\ Handler(r) \in Purgers
    BY ThreadFacts DEF Purgers
  <2>2. CASE Enter(r) \/ PurgeStep(Handler(r)) \/ Counts(r)
    BY <2>1, <2>2, AnsEnter, AnsPurge, AnsCounts
  <2>3. CASE Overflow(r) \/ Direct(r) \/ Unwind(r)
    BY <2>3, AnsOverflow, AnsUnwinding
  <2>4. CASE ReadSeq(r) \/ Insert(r) \/ Register(r) \/ DispatchStep(Handler(r))
    BY <1>1, <2>1, <2>4, AnsReadSeq, AnsInsert, AnsRegister
  <2>5. CASE TimeoutMark(r)
    BY <2>1, <2>5, AnsMark DEF TimeoutMark
  <2>6. CASE WakeUp(r) \/ Timeout(r) \/ TimeoutDrop(r) \/ TimeoutSave(r) \/ TimeoutReply(r)
    BY <2>6, AnsWait
  <2> QED BY <1>2, <2>2, <2>3, <2>4, <2>5, <2>6 DEF HandlerStep
<1>3. ASSUME NEW r \in Requests, RunnerStep(r) PROVE AInv'
  BY <1>1, <1>3, AnsRunner, ThreadFacts DEF RunnerStep
<1>4. CASE LoopStep
  <2>1. Loop \in Threads /\ Loop \in Purgers
    BY ThreadFacts DEF Purgers
  <2> QED BY <1>1, <1>4, <2>1, AnsPurge, AnsListQueues DEF LoopStep
<1>5. CASE AdminStep \/ (\E m \in Models : Health(m)) \/ UNCHANGED vars
  <2>1. UNCHANGED <<rows, job, resp, pc>>
    BY <1>5 DEF AdminStep, SaveStep, SaveQueue, DeleteQueue, Health, vars, memory, client
  <2> QED BY <2>1, AnsStill
<1> QED BY <1>2, <1>3, <1>4, <1>5, AnsRestart DEF Next

LEMMA TwiceHas504 == \A p \in Twice : "504" \in Range(p)
<1>1. Append(<<"reply">>, "504")[2] = "504" /\ Append(<<"504">>, "reply")[1] = "504"
  OBVIOUS
<1>2. ASSUME NEW p \in Twice PROVE DOMAIN p = 1 .. 2
  <2>1. \A c, d \in Codes : <<c>> \in Seq(Codes) /\ Append(<<c>>, d) \in Seq(Codes)
    OBVIOUS
  <2>2. "reply" \in Codes /\ "504" \in Codes /\ Len(p) = 2
    BY ReplyFacts
  <2>3. p \in Seq(Codes)
    BY <2>1, <2>2, Zenon DEF Twice
  <2> QED BY <2>2, <2>3
<1>3. ASSUME NEW p \in Twice PROVE p[1] = "504" \/ p[2] = "504"
  BY <1>1 DEF Twice
<1>4. 1 \in 1 .. 2 /\ 2 \in 1 .. 2
  OBVIOUS
<1> QED BY <1>2, <1>3, <1>4 DEF Range

\* Unless the table can fill up, every handler that has returned has answered its
\* client, and more than one answer means two, one of them a deadline's 504:
\* whatever deadlines, overflows, failing statements and restarts did.
THEOREM EveryHandlerAnswers == Spec => []Answered
<1>1. ASSUME RInv, AInv PROVE Answered
  <2> SUFFICES ASSUME CannotFill, NEW r \in Requests
               PROVE  /\ pc[Handler(r)] = "returned" => resp[r] # << >>
                      /\ Len(resp[r]) > 1 => "504" \in Range(resp[r]) /\ Len(resp[r]) = 2
    BY DEF Answered
  <2>1. pc[Handler(r)] = "returned" => resp[r] # << >>
    BY <1>1 DEF AInv, NoPurge
  <2>2. ASSUME Len(resp[r]) > 1 PROVE "504" \in Range(resp[r]) /\ Len(resp[r]) = 2
    <3>1. resp[r] \in Twice
      BY <1>1, <2>2, TwiceOnly DEF RInv, AnswerSound
    <3>2. \A p \in Twice : "504" \in Range(p)
      BY TwiceHas504
    <3> QED BY <3>1, <3>2, ReplyFacts
  <2> QED BY <2>1, <2>2
<1>2. Init => IInv /\ RInv /\ AInv
  BY InitSafe, InitRows, InitAns
<1>3. IInv /\ RInv /\ AInv /\ [Next]_vars => (IInv /\ RInv /\ AInv)'
  BY SafeStep, RowsStep, AnsStep
<1> QED BY <1>1, <1>2, <1>3, PTL DEF Spec

-----------------------------------------------------------------------------
(***************************************************************************)
(* The purge's totals: they are numbers, and a goroutine that is dropping  *)
(* waiters has totals over a limit.                                        *)
(***************************************************************************)
Totals    == [jobs : Int, bytes : Int]
OverStill == \A t \in Threads : pc[t] \in Purging => Over(left[t])
LInv      == left \in [Threads -> Totals] /\ OverStill

LEMMA StatsTotals ==
  [jobs |-> Cardinality(ActiveRows), bytes |-> SumFunction([id \in ActiveRows |-> Size[id[1]]])]
    \in Totals
<1> DEFINE v == [id \in ActiveRows |-> Size[id[1]]]
           f == [id \in ActiveRows |-> id]
<1>1. IsFiniteSet(JobIds) /\ ActiveRows \in SUBSET JobIds
  <2>1. IsFiniteSet(Depths)
    <3>1. 0 \in Int /\ 2 \in Int
      OBVIOUS
    <3>2. IsFiniteSet(0 .. 2)
      BY <3>1, FS_Interval
    <3> QED BY <3>2 DEF Depths, MaxDepth
  <2>2. IsFiniteSet(Requests \X Depths)
    BY <2>1, RequestsAssumption, FS_Product
  <2>3. JobIds = Requests \X Depths
    BY DEF JobIds
  <2> QED BY <2>2, <2>3 DEF ActiveRows
<1>2. IsFiniteSet(ActiveRows) /\ Cardinality(ActiveRows) \in Nat
  BY <1>1, FS_Subset, FS_CardinalityType
<1>3. \A x \in ActiveRows : v[x] \in Nat
  BY <1>1, BoundsAssumption DEF JobIds
<1>4. /\ f \in [ActiveRows -> ActiveRows] /\ \A x \in ActiveRows : v[x] = v[f[x]]
      /\ \A x, y \in ActiveRows : f[x] = f[y] => x = y
  OBVIOUS
<1>5. SumFunctionOnSet(v, ActiveRows) \in Nat
  <2> HIDE DEF v, f
  <2> QED BY <1>2, <1>3, <1>4, SumsCompare
<1>6. SumFunction(v) = SumFunctionOnSet(v, ActiveRows)
  BY DEF SumFunction
<1>7. SumFunction(v) \in Int /\ Cardinality(ActiveRows) \in Int
  <2> HIDE DEF v
  <2> QED BY <1>2, <1>5, <1>6
<1> HIDE DEF v
<1>8. [jobs |-> Cardinality(ActiveRows), bytes |-> SumFunction(v)] \in Totals
  BY <1>7 DEF Totals
<1> QED BY <1>8 DEF v

\* One goroutine moves and the totals stay, or only its own change.
LEMMA LeftStays ==
  ASSUME TypeOK, LInv, NEW t \in Threads, NEW l, Goto(t, l), UNCHANGED left,
         l \in Purging => pc[t] \in Purging
  PROVE  LInv'
<1>1. \A u \in Threads : pc'[u] = IF u = t THEN l ELSE pc[u]
  BY DEF Goto, TypeOK, PcType
<1> QED BY <1>1 DEF LInv, OverStill, Over

LEMMA LeftSet ==
  ASSUME TypeOK, LInv, NEW t \in Threads, NEW l, Goto(t, l), NEW n \in Totals,
         left' = [left EXCEPT ![t] = n], l \in Purging => Over(n)
  PROVE  LInv'
<1>1. \A u \in Threads : pc'[u] = IF u = t THEN l ELSE pc[u]
  BY DEF Goto, TypeOK, PcType
<1>2. /\ left' \in [Threads -> Totals]
      /\ \A u \in Threads : left'[u] = IF u = t THEN n ELSE left[u]
  BY DEF LInv
<1>3. OverStill'
  <2> SUFFICES ASSUME NEW u \in Threads, pc'[u] \in Purging PROVE Over(left'[u])
    BY DEF OverStill, Over
  <2>1. CASE u = t
    BY <1>1, <1>2, <2>1
  <2>2. CASE u # t
    <3>1. pc[u] \in Purging /\ left'[u] = left[u]
      BY <1>1, <1>2, <2>2
    <3> QED BY <3>1 DEF LInv, OverStill
  <2> QED BY <2>1, <2>2
<1> QED BY <1>2, <1>3 DEF LInv

LEMMA NoLeftTotals == NoLeft \in Totals
BY DEF NoLeft, Totals

LEMMA PurgeReturnLabel ==
  ASSUME NEW t, PurgeReturn(t) PROVE \E l \in {"list", "counts"} : Goto(t, l) /\ l \notin Purging
<1>1. "list" \notin Purging /\ "counts" \notin Purging
  BY DEF Purging
<1> QED BY <1>1 DEF PurgeReturn

LEMMA LeftNext ==
  ASSUME TypeOK, LInv, NEW t \in Threads, NEW r \in Requests, PurgeNext(t, r)
  PROVE  LInv'
<1> DEFINE n    == [jobs |-> left[t].jobs - 1, bytes |-> left[t].bytes - Size[r]]
           more == Over(n) /\ doomed[t] # {r}
<1>1. n \in Totals
  <2>1. left[t] \in Totals /\ Size[r] \in Int
    BY BoundsAssumption DEF LInv
  <2>2. left[t].jobs - 1 \in Int /\ left[t].bytes - Size[r] \in Int
    BY <2>1 DEF Totals
  <2> QED BY <2>2 DEF Totals
<1>2. /\ left' = [left EXCEPT ![t] = IF more THEN n ELSE NoLeft]
      /\ IF more THEN Goto(t, "take") ELSE PurgeReturn(t)
  BY DEF PurgeNext
<1>3. CASE more
  BY <1>1, <1>2, <1>3, LeftSet
<1>4. CASE ~more
  <2>1. PICK l \in {"list", "counts"} : Goto(t, l) /\ l \notin Purging
    BY <1>2, <1>4, PurgeReturnLabel
  <2>2. left' = [left EXCEPT ![t] = NoLeft]
    BY <1>2, <1>4
  <2> QED BY <2>1, <2>2, NoLeftTotals, LeftSet
<1> QED BY <1>3, <1>4

LEMMA LeftPurge ==
  ASSUME TypeInv, LInv, NEW t \in Threads, PurgeStep(t)
  PROVE  LInv'
<1>t. TypeOK
  BY DEF TypeInv
<1>1. ASSUME PurgeReturn(t), UNCHANGED left PROVE LInv'
  BY <1>t, <1>1, PurgeReturnLabel, LeftStays
<1>2. CASE WaitingStats(t)
  <2> DEFINE n == [jobs |-> Cardinality(ActiveRows), bytes |-> SumFunction([id \in ActiveRows |-> Size[id[1]]])]
  <2>1. n \in Totals
    BY StatsTotals
  <2>2. \/ Over(n) /\ left' = [left EXCEPT ![t] = n] /\ Goto(t, "oldest")
        \/ PurgeReturn(t) /\ UNCHANGED left
    BY <1>2 DEF WaitingStats
  <2> HIDE DEF n
  <2> QED BY <1>t, <1>1, <2>1, <2>2, LeftSet
<1>3. CASE OldestWaiting(t)
  <2>1. \/ PurgeReturn(t) /\ left' = [left EXCEPT ![t] = NoLeft]
        \/ pc[t] \in Purging /\ Goto(t, "take") /\ UNCHANGED left
    BY <1>3 DEF OldestWaiting, Purging
  <2>2. CASE PurgeReturn(t) /\ left' = [left EXCEPT ![t] = NoLeft]
    BY <1>t, <2>2, PurgeReturnLabel, NoLeftTotals, LeftSet
  <2> QED BY <1>t, <2>1, <2>2, LeftStays
<1>4. CASE PurgeTake(t)
  <2>1. \/ pc[t] \in Purging /\ Goto(t, "mark") /\ UNCHANGED left
        \/ \E r \in Requests : PurgeNext(t, r)
    BY <1>t, <1>4 DEF PurgeTake, Purging, TypeOK, PurgeType
  <2> QED BY <1>t, <2>1, LeftStays, LeftNext
<1>5. CASE PurgeMark(t)
  <2>1. pc[t] \in Purging /\ Goto(t, "save") /\ UNCHANGED left
    BY <1>5 DEF PurgeMark, Mark, purge, Purging
  <2> QED BY <1>t, <2>1, LeftStays
<1>6. CASE PurgeSave(t)
  <2>1. PurgeNext(t, victim[t]) /\ pc[t] = "save"
    BY <1>6 DEF PurgeSave
  <2>2. victim[t] \in Requests
    BY <2>1 DEF TypeInv, VictimSound
  <2> QED BY <1>t, <2>1, <2>2, LeftNext
<1> QED BY <1>2, <1>3, <1>4, <1>5, <1>6 DEF PurgeStep

\* The other steps of handlers, runners and Loop leave the totals alone.
LEMMA LeftHandler ==
  ASSUME TypeInv, LInv, NEW r \in Requests,
         \/ Enter(r) \/ Counts(r) \/ Overflow(r) \/ Direct(r) \/ Unwind(r)
         \/ ReadSeq(r) \/ Insert(r) \/ Register(r) \/ WakeUp(r) \/ TimeoutDrop(r)
         \/ TimeoutMark(r) \/ TimeoutSave(r) \/ TimeoutReply(r) \/ Timeout(r)
  PROVE  LInv'
<1>t. TypeOK /\ Handler(r) \in Threads
  BY ThreadFacts DEF TypeInv
<1>1. UNCHANGED left
  BY DEF Enter, Counts, Overflow, Direct, Unwind, ReadSeq, Insert, Register, WakeUp, TimeoutDrop,
       TimeoutMark, Mark, TimeoutSave, TimeoutReply, Timeout, purge
<1>2. \E l \in {"stats", "returned", "unwind", "counts", "overflow", "direct", "enter", "seq",
                "insert", "register", "get", "select", "await", "tdrop", "tmark", "tsave", "t504"} :
        Goto(Handler(r), l)
  BY DEF Enter, Counts, Overflow, Direct, Unwind, ReadSeq, Insert, Register, WakeUp, TimeoutDrop,
       TimeoutMark, Mark, TimeoutSave, TimeoutReply, Timeout, Return
<1> QED BY <1>t, <1>1, <1>2, LeftStays DEF Purging

LEMMA LeftKept ==
  ASSUME LInv, UNCHANGED left, \A u \in Threads : pc'[u] \in Purging => pc[u] \in Purging
  PROVE  LInv'
BY DEF LInv, OverStill, Over

LEMMA LeftDispatch ==
  ASSUME TypeInv, LInv, NEW t \in Threads, DispatchStep(t)
  PROVE  LInv'
<1>t. TypeOK /\ pc \in [Threads -> HandlerPCs \cup RunnerPCs \cup LoopPCs]
  BY DEF TypeInv, TypeOK, PcType
<1>1. UNCHANGED left
  BY DEF DispatchStep, GetQueue, Scan, Commit, Launch, purge
<1>2. CASE GetQueue(t) \/ Scan(t) \/ Commit(t)
  <2>1. \E l \in {"stats", "get", "scan", "commit", "launch", "select", "end"} : Goto(t, l)
    BY <1>2 DEF GetQueue, Scan, Commit, Choose, DispatchReturn, NextQueue
  <2> QED BY <1>t, <1>1, <2>1, LeftStays DEF Purging
<1>3. CASE Launch(t)
  <2>1. \A u \in Threads : pc'[u] \in {pc[u], "scan", "forward"}
    BY <1>t, <1>3 DEF Launch
  <2> QED BY <1>1, <2>1, LeftKept DEF Purging
<1> QED BY <1>2, <1>3 DEF DispatchStep

LEMMA LeftRunner ==
  ASSUME TypeInv, LInv, NEW r \in Requests, Run(r) \/ Finish(r) \/ FinishSave(r)
  PROVE  LInv'
<1>t. TypeOK /\ Runner(r) \in Threads
  BY ThreadFacts DEF TypeInv
<1>1. UNCHANGED left
  BY DEF Run, Finish, FinishSave, purge
<1>2. \E l \in {"finish", "store", "get"} : Goto(Runner(r), l)
  BY DEF Run, Finish, FinishSave
<1> QED BY <1>t, <1>1, <1>2, LeftStays DEF Purging

LEMMA LeftOutside ==
  ASSUME TypeInv, LInv,
         ListQueues \/ AdminStep \/ (\E m \in Models : Health(m)) \/ Restart \/ UNCHANGED vars
  PROVE  LInv'
<1>1. CASE ListQueues
  <2>1. UNCHANGED left /\ TypeOK /\ Loop \in Threads
    BY <1>1, ThreadFacts DEF ListQueues, purge, TypeInv
  <2>2. \E l \in {"stats", "get"} : Goto(Loop, l)
    BY <1>1 DEF ListQueues, NextQueue
  <2> QED BY <2>1, <2>2, LeftStays DEF Purging
<1>2. CASE AdminStep \/ (\E m \in Models : Health(m)) \/ UNCHANGED vars
  <2>1. UNCHANGED <<left, pc>>
    BY <1>2 DEF AdminStep, SaveStep, SaveQueue, DeleteQueue, Health, vars, purge
  <2> QED BY <2>1, LeftKept
<1>3. CASE Restart
  <2>1. left' \in [Threads -> Totals]
    BY <1>3, NoLeftTotals DEF Restart
  <2>2. \A u \in Threads : pc'[u] \notin Purging
    BY <1>3, ThreadFacts DEF Restart, Purging
  <2> QED BY <2>1, <2>2 DEF LInv, OverStill
<1> QED BY <1>1, <1>2, <1>3

\* purgeIfNeeded's totals stay numbers, and it drops a waiter only while they are
\* over a limit, in spite of the rows and waiters that change under it.
THEOREM PurgeStopsInTime == Spec => [](left \in [Threads -> Totals] /\ OverStill)
<1>1. Init => TypeInv /\ LInv
  <2>1. Init => LInv
    <3> SUFFICES ASSUME Init PROVE LInv
      OBVIOUS
    <3>1. left \in [Threads -> Totals]
      BY NoLeftTotals DEF Init
    <3>2. \A t \in Threads : pc[t] \notin Purging
      BY DEF Init, Purging
    <3> QED BY <3>1, <3>2 DEF LInv, OverStill
  <2> QED BY <2>1, InitType
<1>2. ASSUME TypeInv, LInv, [Next]_vars PROVE TypeInv' /\ LInv'
  <2>1. TypeInv'
    BY <1>2, TypeStep
  <2>2. ASSUME NEW r \in Requests, HandlerStep(r) \/ Timeout(r) \/ RunnerStep(r) PROVE LInv'
    <3>1. Handler(r) \in Threads /\ Runner(r) \in Threads
      BY ThreadFacts
    <3> QED BY <1>2, <2>2, <3>1, LeftHandler, LeftPurge, LeftDispatch, LeftRunner
         DEF HandlerStep, RunnerStep
  <2>3. ASSUME LoopStep PROVE LInv'
    <3>1. Loop \in Threads
      BY ThreadFacts
    <3> QED BY <1>2, <2>3, <3>1, LeftPurge, LeftDispatch, LeftOutside DEF LoopStep
  <2> QED BY <1>2, <2>1, <2>2, <2>3, LeftOutside DEF Next
<1>3. LInv => left \in [Threads -> Totals] /\ OverStill
  BY DEF LInv
<1> QED BY <1>1, <1>2, <1>3, PTL DEF Spec
=============================================================================
