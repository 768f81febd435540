----------------------------- MODULE ChatProofs -----------------------------
(***************************************************************************)
(* Proofs about ChatPlayground, for any tabs, generations and bounds.      *)
(*                                                                         *)
(* OneRunPerTab and OwnTurnIsLast are proved together: an answer is        *)
(* written to the last message of a thread, and that message stays its own *)
(* only because no second run starts beside it.  The strengthening says    *)
(* what a tab that is not open keeps (nothing), that ids are never drawn   *)
(* twice, and that threads alternate, in memory and in localStorage, from  *)
(* where a reload takes them.  The refinement of ChatThreads comes last.   *)
(***************************************************************************)
EXTENDS ChatPlayground, TLAPS

Ids(s)      == {s[n] : n \in DOMAIN s}
Distinct(s) == \A i, j \in DOMAIN s : s[i] = s[j] => i = j
Paired(t) ==
  /\ t # << >> => LastOf(t).role = "assistant"
  /\ \A n \in DOMAIN t : t[n].role = "assistant" => n > 1 /\ t[n - 1].role = "user"

TabsType  == chats \in Seq(Chats) /\ activeId \in Chats /\ used \subseteq Chats
RunsType  == /\ busy \in [Chats -> BOOLEAN] /\ own \in [Chats -> Runs \cup {NoRun}]
             /\ locked \in BOOLEAN /\ ac \in Runs \cup {NoRun}
             /\ run \in [Runs -> RunRec]
StoreType == store \in [chats : Seq(Chats), active : Chats,
                        messages : [Chats -> Seq(Message)], ok : BOOLEAN]

\* The open tabs have different ids, all drawn before, and one of them is shown.
TabsOK    == /\ TabsType
             /\ chats # << >> /\ Distinct(chats) /\ activeId \in Open /\ Open \subseteq used
ThreadsOK == messages \in [Chats -> Seq(Message)] /\ \A c \in Chats : Paired(messages[c])
\* What is stored can be restored.
StoreOK   == /\ StoreType
             /\ Distinct(store.chats) /\ Ids(store.chats) \subseteq used
             /\ store.chats # << >> => store.active \in Ids(store.chats)
             /\ \A c \in Chats : Paired(store.messages[c])
\* Tabs that are not open have no run; a run may outlive its tab, but its tab's
\* id is never drawn again.
RunsOK    == /\ RunsType
             /\ \A c \in Chats \ Open : own[c] = NoRun /\ ~busy[c]
             /\ \A r \in Runs : Live(r) => run[r].chat \in used
             /\ OneRunPerTab
Turns     == \A r \in Runs : Live(r) /\ run[r].chat \in Open =>
               LET t == messages[run[r].chat]
               IN /\ Len(t) >= 2
                  /\ t[Len(t)].role = "assistant" /\ t[Len(t)].pending /\ t[Len(t)].of = r

Inv == TabsOK /\ ThreadsOK /\ StoreOK /\ RunsOK /\ Turns

\* Only pictures and videos are polled for.
Polled == \A r \in Runs : run[r].st \in {"poll", "timer"} => run[r].kind # "chat"
IInv   == Inv /\ Polled
-----------------------------------------------------------------------------
\* Only who speaks matters for Paired.
LEMMA PairedSame ==
  ASSUME NEW t \in Seq(Message), NEW u \in Seq(Message), Paired(t), Len(u) = Len(t),
         \A n \in 1 .. Len(t) : u[n].role = t[n].role
  PROVE  Paired(u)
<1>1. Len(t) \in Nat /\ DOMAIN t = 1 .. Len(t) /\ DOMAIN u = 1 .. Len(t)
  OBVIOUS
<1>2. u # << >> => t # << >> /\ Len(t) \in 1 .. Len(t)
  BY <1>1
<1>3. u # << >> => u[Len(u)].role = "assistant"
  BY <1>2 DEF Paired, LastOf
<1>4. ASSUME NEW n \in 1 .. Len(t), u[n].role = "assistant"
      PROVE  n > 1 /\ u[n - 1].role = "user"
  <2>1. n > 1 /\ t[n - 1].role = "user"
    BY <1>1, <1>4 DEF Paired
  <2>2. n - 1 \in 1 .. Len(t)
    BY <1>1, <2>1
  <2> QED
    BY <2>1, <2>2
<1> QED
  BY <1>1, <1>3, <1>4 DEF Paired, LastOf

\* A thread that is not empty ends in a prompt and its answer.
LEMMA PairedLast ==
  ASSUME NEW t \in Seq(Message), Paired(t), t # << >>
  PROVE  /\ Len(t) \in Nat /\ Len(t) >= 2 /\ Len(t) \in DOMAIN t
         /\ t[Len(t)].role = "assistant" /\ t[Len(t) - 1].role = "user"
<1>1. Len(t) \in Nat /\ DOMAIN t = 1 .. Len(t) /\ Len(t) \in DOMAIN t
  OBVIOUS
<1>2. t[Len(t)].role = "assistant"
  BY DEF Paired, LastOf
<1> QED
  BY <1>1, <1>2 DEF Paired

\* A prompt and its answer at the end.
LEMMA PairedAsk ==
  ASSUME NEW t \in Seq(Message), Paired(t), NEW r \in Runs
  PROVE  LET u == Append(Append(t, User(r)), Waiting(r))
         IN /\ u \in Seq(Message) /\ Paired(u) /\ Len(u) >= 2
            /\ u[Len(u)] = Waiting(r)
<1> DEFINE u == Append(Append(t, User(r)), Waiting(r))
<1>1. User(r) \in Message /\ Waiting(r) \in Message
  BY DEF User, Waiting, Message, Bodies, Media
<1>2. u \in Seq(Message) /\ Len(t) \in Nat /\ Len(u) = Len(t) + 2
  BY <1>1
<1>3. DOMAIN t = 1 .. Len(t) /\ DOMAIN u = 1 .. Len(t) + 2
  BY <1>2
<1>4. /\ \A n \in 1 .. Len(t) : u[n] = t[n]
      /\ u[Len(t) + 1] = User(r) /\ u[Len(t) + 2] = Waiting(r)
  BY <1>1, <1>2
<1>5. User(r).role = "user" /\ Waiting(r).role = "assistant"
  BY DEF User, Waiting
<1> HIDE DEF u
<1>6. ASSUME NEW n \in DOMAIN u, u[n].role = "assistant"
      PROVE  n > 1 /\ u[n - 1].role = "user"
  <2>1. CASE n \in 1 .. Len(t)
    <3>1. n > 1 /\ t[n - 1].role = "user"
      BY <1>3, <1>4, <1>6, <2>1 DEF Paired
    <3>2. n - 1 \in 1 .. Len(t)
      BY <1>2, <2>1, <3>1
    <3> QED
      BY <1>4, <3>1, <3>2
  <2>2. CASE n = Len(t) + 1
    BY <1>4, <1>5, <1>6, <2>2
  <2>3. CASE n = Len(t) + 2
    BY <1>2, <1>4, <1>5, <2>3
  <2> QED
    BY <1>2, <1>3, <2>1, <2>2, <2>3
<1>7. Paired(u)
  BY <1>2, <1>4, <1>5, <1>6 DEF Paired, LastOf
<1> QED
  BY <1>2, <1>4, <1>7 DEF u

\* Another answer in place of the last.
LEMMA PairedAnswer ==
  ASSUME NEW t \in Seq(Message), Paired(t), t # << >>, NEW m \in Message,
         m.role = "assistant"
  PROVE  LET u == [t EXCEPT ![Len(t)] = m]
         IN u \in Seq(Message) /\ Paired(u) /\ Len(u) = Len(t) /\ u[Len(u)] = m
<1> DEFINE u == [t EXCEPT ![Len(t)] = m]
<1>1. Len(t) \in Nat /\ DOMAIN t = 1 .. Len(t) /\ Len(t) \in DOMAIN t
      /\ t[Len(t)].role = "assistant"
  BY PairedLast
<1>2. u \in Seq(Message) /\ Len(u) = Len(t)
  BY <1>1
<1>3. u[Len(t)] = m /\ \A n \in 1 .. Len(t) : n # Len(t) => u[n] = t[n]
  BY <1>1
<1> HIDE DEF u
<1>4. Paired(u)
  BY <1>1, <1>2, <1>3, PairedSame
<1> QED
  BY <1>2, <1>3, <1>4 DEF u

LEMMA InvImplies == Inv => TypeOK /\ OneRunPerTab /\ OwnTurnIsLast
<1> SUFFICES ASSUME Inv PROVE TypeOK /\ OneRunPerTab /\ OwnTurnIsLast
  OBVIOUS
<1>1. TypeOK
  BY DEF Inv, TabsOK, ThreadsOK, StoreOK, RunsOK, TabsType, RunsType, StoreType, TypeOK
<1>2. OneRunPerTab
  BY DEF Inv, RunsOK
<1>3. OwnTurnIsLast
  <2> SUFFICES ASSUME NEW r \in Runs, Live(r), run[r].chat \in Open
               PROVE LET t == Thread(run[r].chat)
                     IN /\ Len(t) >= 2
                        /\ LastOf(t).role = "assistant" /\ LastOf(t).pending /\ LastOf(t).of = r
                        /\ t[Len(t) - 1].role = "user"
    BY DEF OwnTurnIsLast
  <2> DEFINE t == messages[run[r].chat]
  <2>1. run[r].chat \in Chats
    BY DEF Inv, RunsOK, RunsType, RunRec
  <2>2. t \in Seq(Message) /\ Paired(t)
    BY <2>1 DEF Inv, ThreadsOK
  <2>3. Len(t) >= 2 /\ t[Len(t)].role = "assistant" /\ t[Len(t)].pending /\ t[Len(t)].of = r
    BY DEF Inv, Turns
  <2>4. t[Len(t) - 1].role = "user"
    <3> HIDE DEF t
    <3> QED
      BY <2>2, <2>3, PairedLast
  <2> QED
    BY <2>3, <2>4 DEF Thread, LastOf
<1> QED
  BY <1>1, <1>2, <1>3

\* What persist writes can be restored, if what it is given can.
LEMMA PersistKeeps ==
  ASSUME StoreOK, TabsOK', ThreadsOK', used \subseteq used', Persist
  PROVE  StoreOK'
<1>1. CASE store' = [store EXCEPT !.ok = FALSE]
  <2>1. StoreType'
    BY <1>1 DEF StoreOK, StoreType
  <2>2. store'.chats = store.chats /\ store'.active = store.active
        /\ store'.messages = store.messages
    BY <1>1 DEF StoreOK, StoreType
  <2> QED
    BY <2>1, <2>2 DEF StoreOK
<1>2. ASSUME NEW w \in BOOLEAN, store' = Pack(chats', activeId', messages', w)
      PROVE  StoreOK'
  <2> DEFINE ms == [c \in Chats |-> IF w THEN messages'[c]
                      ELSE [n \in DOMAIN messages'[c] |-> Bare(messages'[c][n])]]
  <2>1. store'.chats = chats' /\ store'.active = activeId' /\ store'.messages = ms
        /\ store'.ok = TRUE
    BY <1>2 DEF Pack
  <2>2. ASSUME NEW c \in Chats PROVE ms[c] \in Seq(Message) /\ Paired(ms[c])
    <3>1. messages'[c] \in Seq(Message) /\ Paired(messages'[c])
      BY DEF ThreadsOK
    <3>2. CASE w
      BY <3>1, <3>2
    <3>3. CASE ~w
      <4> DEFINE t == messages'[c]
                 b == [n \in DOMAIN t |-> Bare(t[n])]
      <4>1. ms[c] = b
        BY <3>3
      <4>2. \A n \in 1 .. Len(t) : t[n] \in Message
        BY <3>1
      <4>3. \A n \in 1 .. Len(t) : Bare(t[n]) \in Message /\ Bare(t[n]).role = t[n].role
        BY <4>2 DEF Bare, Message, Media
      <4>4. DOMAIN t = 1 .. Len(t) /\ Len(t) \in Nat
        BY <3>1
      <4>5. b \in Seq(Message) /\ Len(b) = Len(t)
        BY <4>3, <4>4
      <4>6. \A n \in 1 .. Len(t) : b[n].role = t[n].role
        BY <4>3, <4>4
      <4>7. Paired(b)
        <5> HIDE DEF b, t
        <5> QED
          BY <3>1, <4>5, <4>6, PairedSame DEF t
      <4> QED
        BY <4>1, <4>5, <4>7
    <3> QED
      BY <3>2, <3>3
  <2>3. ms \in [Chats -> Seq(Message)]
    BY <2>2
  <2>4. StoreType'
    BY <1>2, <2>3 DEF StoreType, Pack, TabsOK, TabsType
  <2>5. Distinct(chats)' /\ (activeId \in Open)' /\ (Open \subseteq used)'
    BY DEF TabsOK
  <2> QED
    BY <2>1, <2>2, <2>4, <2>5 DEF StoreOK, Ids, Open, Distinct
<1> QED
  BY <1>1, <1>2 DEF Persist
-----------------------------------------------------------------------------
\* What OneRunPerTab, with the rest of RunsOK, says of a run at work for an open tab.
LEMMA OwnRun ==
  ASSUME Inv, NEW r \in Runs, Live(r), run[r].chat \in Open
  PROVE  own[run[r].chat] = r
BY DEF Inv, RunsOK, OneRunPerTab

\* Steps that end no run and begin none, and leave the tabs alone: the pending
\* message of an open tab may get another text.
LEMMA QuietKeeps ==
  ASSUME Inv, UNCHANGED <<tabs, busy, own, locked, ac, store>>,
         run' \in [Runs -> RunRec],
         \A r \in Runs : /\ run'[r].st \in LiveSts <=> run[r].st \in LiveSts
                         /\ run'[r].chat = run[r].chat,
         messages' \in [Chats -> Seq(Message)],
         \A c \in Chats :
           /\ Len(messages'[c]) = Len(messages[c])
           /\ \A n \in 1 .. Len(messages[c]) :
                /\ messages'[c][n].role = messages[c][n].role
                /\ messages'[c][n].of = messages[c][n].of
                /\ messages[c][n].pending => messages'[c][n].pending
  PROVE  Inv'
<1>1. TabsOK'
  BY DEF Inv, TabsOK, TabsType, tabs, Open, Distinct
<1>2. ThreadsOK'
  <2> SUFFICES ASSUME NEW c \in Chats PROVE Paired(messages'[c])
    BY DEF ThreadsOK
  <2>1. messages[c] \in Seq(Message) /\ Paired(messages[c])
    BY DEF Inv, ThreadsOK
  <2> QED
    BY <2>1, PairedSame
<1>3. StoreOK'
  BY DEF Inv, StoreOK, StoreType, tabs
<1>4. RunsOK'
  <2>1. RunsType'
    BY DEF Inv, RunsOK, RunsType
  <2>2. chats' = chats /\ used' = used /\ activeId' = activeId /\ own' = own /\ busy' = busy
        /\ locked' = locked
    BY DEF tabs
  <2>3. Open' = Open
    BY <2>2 DEF Open
  <2> QED
    BY <2>1, <2>2, <2>3 DEF Inv, RunsOK, OneRunPerTab, Live
<1>5. Turns'
  <2> SUFFICES ASSUME NEW r \in Runs, Live(r)', (run[r].chat \in Open)'
               PROVE  (LET t == messages[run[r].chat]
                       IN /\ Len(t) >= 2
                          /\ t[Len(t)].role = "assistant" /\ t[Len(t)].pending
                          /\ t[Len(t)].of = r)'
    BY DEF Turns
  <2> DEFINE c == run[r].chat
             t == messages[c]
             u == messages'[c]
  <2>1. run'[r].chat = c /\ Live(r) /\ c \in Open
    BY DEF Live, Open, tabs
  <2>2. c \in Chats
    BY DEF Inv, RunsOK, RunsType, RunRec
  <2>3. Len(t) >= 2 /\ t[Len(t)].role = "assistant" /\ t[Len(t)].pending /\ t[Len(t)].of = r
    BY <2>1 DEF Inv, Turns
  <2>4. Len(t) \in 1 .. Len(t)
    <3>1. t \in Seq(Message)
      BY <2>2 DEF Inv, ThreadsOK
    <3> HIDE DEF t
    <3>2. Len(t) \in Nat
      BY <3>1
    <3> QED
      BY <2>3, <3>2
  <2>5. Len(u) = Len(t) /\ u[Len(t)].role = t[Len(t)].role /\ u[Len(t)].of = t[Len(t)].of
        /\ (t[Len(t)].pending => u[Len(t)].pending)
    BY <2>2, <2>4
  <2>6. Len(u) >= 2 /\ u[Len(u)].role = "assistant" /\ u[Len(u)].pending /\ u[Len(u)].of = r
    BY <2>3, <2>5, Zenon
  <2>7. messages'[run'[r].chat] = u
    BY <2>1
  <2> QED
    BY <2>6, <2>7
<1> QED
  BY <1>1, <1>2, <1>3, <1>4, <1>5 DEF Inv

\* What setPendingText writes, called by a run that is at work.
LEMMA PendingText ==
  ASSUME Inv, NEW c \in Chats, NEW b \in Bodies, SetPendingText(c, b)
  PROVE  /\ messages' \in [Chats -> Seq(Message)]
         /\ \A d \in Chats :
              /\ Len(messages'[d]) = Len(messages[d])
              /\ \A n \in 1 .. Len(messages[d]) :
                   /\ messages'[d][n].role = messages[d][n].role
                   /\ messages'[d][n].of = messages[d][n].of
                   /\ messages[d][n].pending => messages'[d][n].pending
<1> DEFINE t == messages[c]
           n == Len(t)
           m == [t[n] EXCEPT !.body = b, !.pending = TRUE]
<1>1. messages \in [Chats -> Seq(Message)] /\ t \in Seq(Message)
  BY DEF Inv, ThreadsOK
<1>2. CASE messages' = messages
  BY <1>1, <1>2
<1>3. CASE t # << >> /\ messages' = [messages EXCEPT ![c][n].body = b, ![c][n].pending = TRUE]
  <2>1. n \in Nat /\ n \in DOMAIN t /\ DOMAIN t = 1 .. n /\ t[n] \in Message
    BY <1>1, <1>3
  <2>2. m \in Message /\ m.role = t[n].role /\ m.of = t[n].of /\ m.pending = TRUE
    BY <2>1 DEF Message
  <2> DEFINE u == [t EXCEPT ![n] = m]
  <2>3. u \in Seq(Message) /\ Len(u) = n /\ u[n] = m /\ \A k \in 1 .. n : k # n => u[k] = t[k]
    BY <1>1, <2>1, <2>2
  <2>4. messages' = [messages EXCEPT ![c] = u]
    BY <1>1, <1>3, <2>1 DEF Message
  <2> HIDE DEF u, m
  <2>5. messages'[c] = u /\ \A d \in Chats : d # c => messages'[d] = messages[d]
    BY <1>1, <2>4
  <2> QED
    BY <1>1, <2>2, <2>3, <2>4, <2>5
<1> QED
  BY <1>2, <1>3 DEF SetPendingText, Thread

\* The run that ends leaves the others and their turns alone.
LEMMA FinishKeeps ==
  ASSUME Inv, NEW r \in Runs, Live(r), NEW b \in Bodies, NEW md \in Media,
         Finish(r, b, md)
  PROVE  Inv'
<1> DEFINE c == run[r].chat
<1>1. c \in Chats /\ run \in [Runs -> RunRec] /\ Idle \in RunRec
  BY ChatsAssumption, PollsAssumption DEF Inv, RunsOK, RunsType, RunRec, Idle, LiveSts
<1>2. Ended \in RunRec /\ Ended.st \notin LiveSts
  BY <1>1 DEF Ended, RunRec, LiveSts
<1>3. /\ run' = [run EXCEPT ![r] = Ended] /\ run' \in [Runs -> RunRec]
      /\ run'[r].st \notin LiveSts /\ \A q \in Runs : q # r => run'[q] = run[q]
  BY <1>1, <1>2 DEF Finish
<1>4. chats' = chats /\ used' = used /\ activeId' = activeId /\ ac' = ac /\ Open' = Open
  BY DEF Finish, tabs, Open
<1>5. TabsOK'
  BY <1>4 DEF Inv, TabsOK, TabsType, Distinct
<1>6. CASE c \notin Open /\ UNCHANGED <<messages, busy, own, locked, store>>
  <2>1. ThreadsOK' /\ StoreOK'
    BY <1>4, <1>6 DEF Inv, ThreadsOK, StoreOK, StoreType
  <2>2. RunsOK'
    BY <1>1, <1>3, <1>4, <1>6 DEF Inv, RunsOK, RunsType, OneRunPerTab, Live
  <2>3. Turns'
    BY <1>3, <1>4, <1>6 DEF Inv, Turns, Live
  <2> QED
    BY <1>5, <2>1, <2>2, <2>3 DEF Inv
<1>7. CASE c \in Open /\ FinishAssistant(c, r, b, md)
  <2> DEFINE t == messages[c]
             m == Settled(t[Len(t)], b, md)
  <2>1. messages \in [Chats -> Seq(Message)] /\ t \in Seq(Message) /\ Paired(t)
    BY <1>1 DEF Inv, ThreadsOK
  <2>2. Len(t) >= 2 /\ t[Len(t)].role = "assistant"
    BY <1>7 DEF Inv, Turns
  <2>3. t # << >> /\ Len(t) \in DOMAIN t /\ t[Len(t)] \in Message
    BY <2>1, <2>2
  <2>4. m \in Message /\ m.role = "assistant"
    BY <2>2, <2>3 DEF Settled, Message
  <2> DEFINE u == [t EXCEPT ![Len(t)] = m]
  <2>5. messages' = [messages EXCEPT ![c] = u]
    BY <1>7, <2>1, <2>2, <2>3 DEF FinishAssistant, Thread, LastOf
  <2> HIDE DEF m
  <2>6. u \in Seq(Message) /\ Paired(u)
    BY <2>1, <2>3, <2>4, PairedAnswer
  <2> HIDE DEF u
  <2>7. /\ messages' \in [Chats -> Seq(Message)]
        /\ \A d \in Chats : d # c => messages'[d] = messages[d]
        /\ messages'[c] = u
    BY <1>1, <2>1, <2>5, <2>6
  <2>8. ThreadsOK'
    BY <2>6, <2>7 DEF Inv, ThreadsOK
  <2>9. StoreOK'
    BY <1>4, <1>5, <1>7, <2>8, PersistKeeps DEF Inv, FinishAssistant
  <2>10. own[c] = r
    BY <1>7, OwnRun
  <2>11. /\ busy' = [busy EXCEPT ![c] = FALSE] /\ own' = [own EXCEPT ![c] = NoRun]
         /\ locked' = IF c = activeId THEN FALSE ELSE locked
    BY <1>7 DEF FinishAssistant
  <2>12. RunsOK'
    <3>1. RunsType'
      BY <1>1, <1>3, <1>4, <2>11 DEF Inv, RunsOK, RunsType
    <3>2. busy \in [Chats -> BOOLEAN] /\ own \in [Chats -> Runs \cup {NoRun}] /\ Open \subseteq Chats
          /\ activeId \in Open
      BY DEF Inv, RunsOK, RunsType, TabsOK, TabsType, Open
    <3>3. /\ \A d \in Chats \ Open' : own'[d] = NoRun /\ ~busy'[d]
          /\ \A q \in Runs : Live(q)' => run'[q].chat \in used'
      BY <1>3, <1>4, <2>11, <3>2 DEF Inv, RunsOK, Live
    <3>4. locked' = busy'[activeId'] /\ \A d \in Open : busy'[d] = (own'[d] # NoRun)
      BY <1>4, <2>11, <3>2 DEF Inv, RunsOK, OneRunPerTab
    <3>5. ASSUME NEW q \in Runs, NEW d \in Open
          PROVE  (own'[d] = q) <=> (run'[q].st \in LiveSts /\ run'[q].chat = d)
      BY <1>3, <2>10, <2>11, <3>2, <3>5, RunsAssumption DEF Inv, RunsOK, OneRunPerTab, Live
    <3> QED
      BY <1>4, <3>1, <3>3, <3>4, <3>5 DEF RunsOK, OneRunPerTab, Live
  <2>13. Turns'
    <3> SUFFICES ASSUME NEW q \in Runs, Live(q)', (run[q].chat \in Open)'
                 PROVE  q # r /\ run'[q] = run[q] /\ run[q].chat \in Chats /\ run[q].chat # c
      BY <1>4, <2>7 DEF Inv, Turns, Live
    <3>1. q # r /\ run'[q] = run[q]
      BY <1>3 DEF Live
    <3>2. Live(q) /\ run[q].chat \in Open
      BY <1>4, <3>1 DEF Live
    <3>3. own[run[q].chat] = q
      BY <3>2, OwnRun
    <3> QED
      BY <1>1, <2>10, <3>1, <3>3 DEF RunRec
  <2> QED
    BY <1>5, <2>8, <2>9, <2>12, <2>13 DEF Inv
<1> QED
  BY <1>6, <1>7 DEF Finish, FinishAssistant

\* A run begins in the shown tab, which has none.
LEMMA LaunchKeeps ==
  ASSUME Inv, NEW r \in Runs, NEW k \in Kinds, ~busy[activeId], NEW u \in Seq(Message),
         Paired(u), Len(u) >= 2, u[Len(u)] = Waiting(r), Launch(r, k, u),
         ac' \in Runs \cup {NoRun}
  PROVE  Inv'
<1> DEFINE c == activeId
<1>1. /\ c \in Chats /\ c \in Open /\ c \in used /\ Open \subseteq Chats
      /\ run \in [Runs -> RunRec] /\ Idle \in RunRec
      /\ busy \in [Chats -> BOOLEAN] /\ own \in [Chats -> Runs \cup {NoRun}]
      /\ messages \in [Chats -> Seq(Message)]
  BY ChatsAssumption, PollsAssumption
     DEF Inv, TabsOK, TabsType, ThreadsOK, Open, RunsOK, RunsType, RunRec, Idle, LiveSts
<1>2. Posted(c, k) \in RunRec /\ Posted(c, k).st \in LiveSts /\ Posted(c, k).chat = c
  BY <1>1, KindsAssumption DEF Posted, RunRec, LiveSts
<1>3. /\ run' \in [Runs -> RunRec] /\ run'[r].st \in LiveSts /\ run'[r].chat = c
      /\ run[r].st \notin LiveSts /\ \A q \in Runs : q # r => run'[q] = run[q]
  BY <1>1, <1>2 DEF Launch, LiveSts
<1>4. chats' = chats /\ used' = used /\ activeId' = activeId /\ Open' = Open
  BY DEF Launch, tabs, Open
<1>5. TabsOK'
  BY <1>4 DEF Inv, TabsOK, TabsType, Distinct
<1>6. /\ messages' \in [Chats -> Seq(Message)] /\ messages'[c] = u
      /\ \A d \in Chats : d # c => messages'[d] = messages[d]
  BY <1>1 DEF Launch
<1>7. ThreadsOK'
  BY <1>6 DEF Inv, ThreadsOK
<1>8. StoreOK'
  BY <1>4, <1>5, <1>7, PersistKeeps DEF Inv, Launch
<1>9. busy' = [busy EXCEPT ![c] = TRUE] /\ own' = [own EXCEPT ![c] = r] /\ locked' = TRUE
  BY DEF Launch
<1>10. own[c] = NoRun /\ \A d \in Open : own[d] # r
  BY <1>1, <1>3 DEF Inv, RunsOK, OneRunPerTab, Live
<1>11. RunsOK'
  <2>1. RunsType'
    BY <1>1, <1>3, <1>9 DEF RunsType
  <2>2. /\ \A d \in Chats \ Open' : own'[d] = NoRun /\ ~busy'[d]
        /\ \A q \in Runs : Live(q)' => run'[q].chat \in used'
    BY <1>1, <1>3, <1>4, <1>9 DEF Inv, RunsOK, Live
  <2>3. locked' = busy'[activeId'] /\ \A d \in Open : busy'[d] = (own'[d] # NoRun)
    BY <1>1, <1>4, <1>9, RunsAssumption DEF Inv, RunsOK, OneRunPerTab
  <2>4. ASSUME NEW q \in Runs, NEW d \in Open
        PROVE  (own'[d] = q) <=> (run'[q].st \in LiveSts /\ run'[q].chat = d)
    <3>1. (own[d] = q) <=> (run[q].st \in LiveSts /\ run[q].chat = d)
      BY DEF Inv, RunsOK, OneRunPerTab, Live
    <3>2. d \in Chats /\ own'[d] = (IF d = c THEN r ELSE own[d])
      BY <1>1, <1>9
    <3>3. CASE q = r
      BY <1>3, <1>10, <3>2, <3>3
    <3>4. CASE q # r
      BY <1>3, <1>10, <3>1, <3>2, <3>4, RunsAssumption
    <3> QED
      BY <3>3, <3>4
  <2> QED
    BY <1>4, <2>1, <2>2, <2>3, <2>4 DEF RunsOK, OneRunPerTab, Live
<1>12. Turns'
  <2>1. u[Len(u)].role = "assistant" /\ u[Len(u)].pending /\ u[Len(u)].of = r
    BY DEF Waiting
  <2>2. ASSUME NEW q \in Runs, q # r, Live(q)', (run[q].chat \in Open)'
        PROVE  /\ run'[q] = run[q] /\ run[q].chat \in Chats /\ run[q].chat # c
               /\ Live(q) /\ run[q].chat \in Open
    <3>1. run'[q] = run[q] /\ Live(q) /\ run[q].chat \in Open
      BY <1>3, <1>4, <2>2 DEF Live
    <3>2. own[run[q].chat] = q
      BY <3>1, OwnRun
    <3> QED
      BY <1>1, <1>10, <3>1, <3>2, RunsAssumption DEF RunRec
  <2>3. ASSUME NEW q \in Runs, Live(q)', (run[q].chat \in Open)'
        PROVE  (LET t == messages[run[q].chat]
                IN /\ Len(t) >= 2
                   /\ t[Len(t)].role = "assistant" /\ t[Len(t)].pending /\ t[Len(t)].of = q)'
    <3>1. CASE q = r
      BY <1>3, <1>6, <2>1, <3>1
    <3>2. CASE q # r
      <4>1. messages'[run'[q].chat] = messages[run[q].chat]
        BY <1>6, <2>2, <2>3, <3>2
      <4> QED
        BY <2>2, <2>3, <3>2, <4>1 DEF Inv, Turns
    <3> QED
      BY <3>1, <3>2
  <2> QED
    BY <2>3 DEF Turns
<1> QED
  BY <1>5, <1>7, <1>8, <1>11, <1>12 DEF Inv

LEMMA SubmitKeeps ==
  ASSUME Inv, NEW r \in Runs, NEW k \in Kinds, Submit(r, k)
  PROVE  Inv'
<1> DEFINE t == messages[activeId]
           u == Append(Append(t, User(r)), Waiting(r))
<1>1. activeId \in Chats /\ ~busy[activeId]
  BY DEF Inv, TabsOK, TabsType, RunsOK, OneRunPerTab, Submit
<1>2. t \in Seq(Message) /\ Paired(t)
  BY <1>1 DEF Inv, ThreadsOK
<1>3. u \in Seq(Message) /\ Paired(u) /\ Len(u) >= 2 /\ u[Len(u)] = Waiting(r)
  BY <1>2, PairedAsk
<1>4. Launch(r, k, u) /\ ac' \in Runs \cup {NoRun}
  BY DEF Submit, Thread, Inv, RunsOK, RunsType
<1> HIDE DEF u
<1> QED
  BY <1>1, <1>3, <1>4, LaunchKeeps

LEMMA RegenerateKeeps ==
  ASSUME Inv, NEW r \in Runs, NEW k \in Kinds, Regenerate(r, k)
  PROVE  Inv'
<1> DEFINE t == messages[activeId]
           u == [t EXCEPT ![Len(t)] = Waiting(r)]
<1>1. activeId \in Chats /\ ~busy[activeId]
  BY DEF Inv, TabsOK, TabsType, Regenerate
<1>2. t \in Seq(Message) /\ Paired(t)
  BY <1>1 DEF Inv, ThreadsOK
<1>3. t # << >>
  BY DEF Regenerate, Thread
<1>4. Waiting(r) \in Message /\ Waiting(r).role = "assistant"
  BY DEF Waiting, Message, Bodies, Media
<1>5. Len(t) >= 2 /\ LastOf(t).role = "assistant"
  BY <1>2, <1>3, PairedLast DEF LastOf
<1>6. u \in Seq(Message) /\ Paired(u) /\ Len(u) = Len(t) /\ u[Len(u)] = Waiting(r)
  BY <1>2, <1>3, <1>4, PairedAnswer
<1>7. Launch(r, k, u) /\ ac' \in Runs \cup {NoRun}
  BY <1>5 DEF Regenerate, Thread, Inv, RunsOK, RunsType
<1> HIDE DEF u, t
<1> QED
  BY <1>1, <1>5, <1>6, <1>7, LaunchKeeps

\* A step that changes tabs, stops runs and empties threads, but begins no run,
\* ends none and writes no answer.
LEMMA TabsKeep ==
  ASSUME Inv, TabsOK', StoreOK', used \subseteq used', locked' \in BOOLEAN,
         ac' = ac, run' \in [Runs -> RunRec],
         \A r \in Runs : /\ run'[r].st \in LiveSts <=> run[r].st \in LiveSts
                         /\ run'[r].chat = run[r].chat,
         NEW S \in SUBSET Chats,
         S \cap Open' = {},
         Open' \ Open \subseteq Chats \ used,
         Open \ Open' \subseteq S,
         messages' = [c \in Chats |-> IF c \in S THEN << >> ELSE messages[c]],
         busy' = [c \in Chats |-> IF c \in S THEN FALSE ELSE busy[c]],
         own' = [c \in Chats |-> IF c \in S THEN NoRun ELSE own[c]],
         locked' = busy[activeId']
  PROVE  Inv'
<1>1. /\ messages \in [Chats -> Seq(Message)] /\ busy \in [Chats -> BOOLEAN]
      /\ own \in [Chats -> Runs \cup {NoRun}] /\ Open \subseteq Chats /\ Open' \subseteq Chats
      /\ activeId' \in Open' /\ run \in [Runs -> RunRec]
  BY DEF Inv, ThreadsOK, RunsOK, RunsType, TabsOK, TabsType, Open
<1>2. ThreadsOK'
  <2>1. << >> \in Seq(Message) /\ Paired(<< >>)
    BY DEF Paired
  <2>2. messages' \in [Chats -> Seq(Message)]
    BY <1>1, <2>1
  <2> QED
    BY <1>1, <2>1, <2>2 DEF Inv, ThreadsOK
<1>3. \A d \in Chats \ Open : own[d] = NoRun /\ ~busy[d]
  BY DEF Inv, RunsOK
<1>4. \A r \in Runs : Live(r)' <=> Live(r)
  BY DEF Live
<1>5. \A r \in Runs : Live(r) => run[r].chat \in used /\ run[r].chat \in Chats
  BY <1>1 DEF Inv, RunsOK, RunRec
<1>6. RunsOK'
  <2>1. RunsType'
    BY <1>1 DEF Inv, RunsOK, RunsType
  <2>2. \A d \in Chats \ Open' : own'[d] = NoRun /\ ~busy'[d]
    BY <1>3
  <2>3. \A r \in Runs : Live(r)' => run'[r].chat \in used'
    BY <1>4, <1>5
  <2>4. locked' = busy'[activeId']
    BY <1>1
  <2>5. ASSUME NEW d \in Open' PROVE busy'[d] = (own'[d] # NoRun)
    <3>1. d \in Chats /\ own'[d] = own[d] /\ busy'[d] = busy[d] /\ busy[d] \in BOOLEAN
      BY <1>1
    <3>2. CASE d \in Open
      BY <3>1, <3>2 DEF Inv, RunsOK, OneRunPerTab
    <3>3. CASE d \notin Open
      BY <1>3, <3>1, <3>3
    <3> QED
      BY <3>2, <3>3
  <2>6. ASSUME NEW r \in Runs, NEW d \in Open'
        PROVE  (own'[d] = r) <=> (Live(r)' /\ run'[r].chat = d)
    <3>1. d \in Chats /\ own'[d] = own[d] /\ run'[r].chat = run[r].chat
      BY <1>1
    <3>2. CASE d \in Open
      BY <1>4, <3>1, <3>2 DEF Inv, RunsOK, OneRunPerTab
    <3>3. CASE d \notin Open
      BY <1>3, <1>4, <1>5, <3>1, <3>3, RunsAssumption
    <3> QED
      BY <3>2, <3>3
  <2> QED
    BY <2>1, <2>2, <2>3, <2>4, <2>5, <2>6 DEF RunsOK, OneRunPerTab
<1>7. Turns'
  <2>1. ASSUME NEW r \in Runs, Live(r)', run'[r].chat \in Open'
        PROVE  Live(r) /\ run[r].chat \in Open /\ messages'[run'[r].chat] = messages[run[r].chat]
    BY <1>1, <1>4, <1>5, <2>1
  <2>2. ASSUME NEW r \in Runs, Live(r)', (run[r].chat \in Open)'
        PROVE  (LET t == messages[run[r].chat]
                IN /\ Len(t) >= 2
                   /\ t[Len(t)].role = "assistant" /\ t[Len(t)].pending /\ t[Len(t)].of = r)'
    <3> DEFINE t == messages[run[r].chat]
    <3>1. Live(r) /\ run[r].chat \in Open /\ messages'[run'[r].chat] = t
      BY <2>1, <2>2
    <3>2. Len(t) >= 2 /\ t[Len(t)].role = "assistant" /\ t[Len(t)].pending /\ t[Len(t)].of = r
      BY <3>1 DEF Inv, Turns
    <3> QED
      BY <3>1, <3>2
  <2> QED
    BY <2>2 DEF Turns
<1> QED
  BY <1>2, <1>6, <1>7 DEF Inv

\* A new tab at the end of s, whose ids have been drawn.
LEMMA FreshTab ==
  ASSUME NEW s \in Seq(Chats), Distinct(s), used \subseteq Chats, Ids(s) \subseteq used,
         OpenFresh(s)
  PROVE  TabsOK' /\ Open' = Ids(s) \cup {activeId'} /\ activeId' \in Chats \ used
         /\ used \subseteq used' /\ locked' = FALSE
<1>1. PICK c \in Chats \ used : /\ chats' = Append(s, c) /\ activeId' = c
                                /\ used' = used \cup {c} /\ locked' = FALSE
  BY DEF OpenFresh
<1>2. /\ Len(s) \in Nat /\ chats' \in Seq(Chats) /\ DOMAIN s = 1 .. Len(s)
      /\ DOMAIN chats' = 1 .. Len(s) + 1
  BY <1>1
<1>3. chats'[Len(s) + 1] = c /\ \A n \in 1 .. Len(s) : chats'[n] = s[n]
  BY <1>1, <1>2
<1>4. \A n \in 1 .. Len(s) : s[n] # c
  BY <1>1, <1>2 DEF Ids
<1>5. Distinct(chats')
  <2> SUFFICES ASSUME NEW i \in DOMAIN chats', NEW j \in DOMAIN chats', chats'[i] = chats'[j]
               PROVE  i = j
    BY DEF Distinct
  <2>1. CASE i = Len(s) + 1 \/ j = Len(s) + 1
    BY <1>2, <1>3, <1>4, <2>1
  <2>2. CASE i \in 1 .. Len(s) /\ j \in 1 .. Len(s)
    BY <1>2, <1>3, <2>2 DEF Distinct
  <2> QED
    BY <1>2, <2>1, <2>2
<1>6. Open' = Ids(s) \cup {c}
  <2>1. Open' = {chats'[n] : n \in 1 .. Len(s) + 1}
    BY <1>2 DEF Open
  <2>2. Ids(s) = {s[n] : n \in 1 .. Len(s)}
    BY <1>2 DEF Ids
  <2>3. 1 .. Len(s) + 1 = (1 .. Len(s)) \cup {Len(s) + 1}
    BY <1>2
  <2> QED
    BY <1>3, <2>1, <2>2, <2>3
<1>7. chats' # << >>
  BY <1>2
<1> QED
  BY <1>1, <1>2, <1>5, <1>6, <1>7 DEF TabsOK, TabsType

LEMMA NewChatKeeps == ASSUME Inv, NewChat PROVE Inv'
<1>1. /\ chats \in Seq(Chats) /\ Distinct(chats) /\ used \subseteq Chats
      /\ Ids(chats) = Open /\ Open \subseteq used
  BY DEF Inv, TabsOK, TabsType, Ids, Open
<1>2. /\ TabsOK' /\ Open' = Open \cup {activeId'} /\ activeId' \in Chats \ used
      /\ used \subseteq used' /\ locked' = FALSE
  BY <1>1, FreshTab DEF NewChat
<1>3. messages' = messages /\ busy' = busy /\ own' = own /\ ac' = ac /\ run' = run
  BY DEF NewChat
<1>4. ThreadsOK'
  BY <1>3 DEF Inv, ThreadsOK
<1>5. StoreOK'
  BY <1>2, <1>4, PersistKeeps DEF Inv, NewChat
<1>6. /\ messages \in [Chats -> Seq(Message)] /\ busy \in [Chats -> BOOLEAN]
      /\ own \in [Chats -> Runs \cup {NoRun}] /\ run \in [Runs -> RunRec]
      /\ ~busy[activeId']
  BY <1>1, <1>2 DEF Inv, ThreadsOK, RunsOK, RunsType
<1> DEFINE S == {}
<1>7. /\ messages' = [c \in Chats |-> IF c \in S THEN << >> ELSE messages[c]]
      /\ busy' = [c \in Chats |-> IF c \in S THEN FALSE ELSE busy[c]]
      /\ own' = [c \in Chats |-> IF c \in S THEN NoRun ELSE own[c]]
  BY <1>3, <1>6
<1>8. locked' = busy[activeId']
  BY <1>2, <1>6
<1>9. /\ S \in SUBSET Chats /\ S \cap Open' = {}
      /\ Open' \ Open \subseteq Chats \ used /\ Open \ Open' \subseteq S
  BY <1>2
<1>10. locked' \in BOOLEAN /\ run' \in [Runs -> RunRec]
       /\ \A r \in Runs : /\ run'[r].st \in LiveSts <=> run[r].st \in LiveSts
                          /\ run'[r].chat = run[r].chat
  BY <1>2, <1>3, <1>6
<1> HIDE DEF S
<1> QED
  BY <1>2, <1>3, <1>5, <1>7, <1>8, <1>9, <1>10, TabsKeep

LEMMA SwitchChatKeeps == ASSUME Inv, NEW c \in Chats, SwitchChat(c) PROVE Inv'
<1>1. /\ messages \in [Chats -> Seq(Message)] /\ busy \in [Chats -> BOOLEAN]
      /\ own \in [Chats -> Runs \cup {NoRun}] /\ run \in [Runs -> RunRec]
  BY DEF Inv, ThreadsOK, RunsOK, RunsType
<1>2. /\ messages' = messages /\ busy' = busy /\ own' = own /\ ac' = ac /\ run' = run
      /\ chats' = chats /\ used' = used /\ activeId' = c /\ Open' = Open /\ c \in Open
      /\ locked' = busy[c]
  BY DEF SwitchChat, Open
<1>3. TabsOK'
  BY <1>2 DEF Inv, TabsOK, TabsType, Distinct
<1>4. ThreadsOK'
  BY <1>2 DEF Inv, ThreadsOK
<1>5. StoreOK'
  BY <1>2, <1>3, <1>4, PersistKeeps DEF Inv, SwitchChat
<1> DEFINE S == {}
<1>6. /\ messages' = [d \in Chats |-> IF d \in S THEN << >> ELSE messages[d]]
      /\ busy' = [d \in Chats |-> IF d \in S THEN FALSE ELSE busy[d]]
      /\ own' = [d \in Chats |-> IF d \in S THEN NoRun ELSE own[d]]
  BY <1>1, <1>2
<1>7. /\ S \in SUBSET Chats /\ S \cap Open' = {}
      /\ Open' \ Open \subseteq Chats \ used /\ Open \ Open' \subseteq S
      /\ used \subseteq used'
  BY <1>2
<1>8. locked' \in BOOLEAN /\ run' \in [Runs -> RunRec] /\ locked' = busy[activeId']
      /\ \A r \in Runs : /\ run'[r].st \in LiveSts <=> run[r].st \in LiveSts
                         /\ run'[r].chat = run[r].chat
  BY <1>1, <1>2
<1> HIDE DEF S
<1> QED
  BY <1>2, <1>3, <1>5, <1>6, <1>7, <1>8, TabsKeep

\* The tabs but one, in their order.
LEMMA WithoutOne ==
  ASSUME TabsOK, NEW k \in DOMAIN chats, Len(chats) > 1
  PROVE  /\ Without(k) \in Seq(Chats) /\ Without(k) # << >> /\ Distinct(Without(k))
         /\ Ids(Without(k)) = Open \ {chats[k]}
         /\ LastOf(Without(k)) \in Ids(Without(k))
<1> DEFINE s == Without(k)
           f(n) == IF n < k THEN n ELSE n + 1
           N == Len(chats)
<1>1. chats \in Seq(Chats) /\ N \in Nat /\ DOMAIN chats = 1 .. N /\ N > 1
      /\ k \in 1 .. N
  BY DEF TabsOK, TabsType
<1>2. \A n \in 1 .. N - 1 : f(n) \in 1 .. N /\ f(n) # k
  BY <1>1
<1>3. s = [n \in 1 .. N - 1 |-> chats[f(n)]]
  BY DEF Without
<1>4. s \in Seq(Chats) /\ Len(s) = N - 1 /\ DOMAIN s = 1 .. N - 1
  BY <1>1, <1>2, <1>3
<1>5. \A n \in 1 .. N - 1 : s[n] = chats[f(n)]
  BY <1>3
<1>6. \A i, j \in 1 .. N : chats[i] = chats[j] => i = j
  BY <1>1 DEF TabsOK, Distinct
<1>7. Distinct(s)
  <2> SUFFICES ASSUME NEW i \in 1 .. N - 1, NEW j \in 1 .. N - 1, s[i] = s[j] PROVE i = j
    BY <1>4 DEF Distinct
  <2>1. f(i) = f(j)
    BY <1>2, <1>5, <1>6
  <2> QED
    BY <1>1, <2>1
<1>8. ASSUME NEW x PROVE x \in Ids(s) <=> x \in Open \ {chats[k]}
  <2>1. ASSUME x \in Ids(s) PROVE x \in Open \ {chats[k]}
    <3>1. PICK n \in 1 .. N - 1 : x = s[n]
      BY <1>4, <2>1 DEF Ids
    <3>2. x = chats[f(n)] /\ f(n) \in 1 .. N /\ f(n) # k
      BY <1>2, <1>5, <3>1
    <3> QED
      BY <1>1, <1>6, <3>2 DEF Open
  <2>2. ASSUME x \in Open \ {chats[k]} PROVE x \in Ids(s)
    <3>1. PICK n \in 1 .. N : x = chats[n]
      BY <1>1, <2>2 DEF Open
    <3>2. n # k
      BY <2>2, <3>1
    <3>3. PICK j \in 1 .. N - 1 : f(j) = n
      <4>1. CASE n < k
        BY <1>1, <4>1
      <4>2. CASE n > k
        <5>1. n - 1 \in 1 .. N - 1 /\ f(n - 1) = n
          BY <1>1, <4>2
        <5> QED
          BY <5>1
      <4> QED
        BY <1>1, <3>2, <4>1, <4>2
    <3>4. x = s[j]
      BY <1>5, <3>1, <3>3
    <3> QED
      BY <1>4, <3>4 DEF Ids
  <2> QED
    BY <2>1, <2>2
<1>9. Ids(s) = Open \ {chats[k]}
  BY <1>8
<1>10. s # << >> /\ LastOf(s) \in Ids(s)
  <2>1. N - 1 \in 1 .. N - 1
    BY <1>1
  <2> HIDE DEF s
  <2> QED
    BY <1>4, <2>1 DEF LastOf, Ids
<1> QED
  BY <1>4, <1>7, <1>9, <1>10

\* Abort marks a run and neither ends nor moves it.
LEMMA AbortKeeps ==
  ASSUME Inv, NEW x, run' = Abort(x)
  PROVE  /\ run' \in [Runs -> RunRec]
         /\ \A r \in Runs : /\ run'[r].st \in LiveSts <=> run[r].st \in LiveSts
                            /\ run'[r].chat = run[r].chat
<1>1. run \in [Runs -> RunRec]
  BY DEF Inv, RunsOK, RunsType
<1>2. ASSUME NEW r \in Runs
      PROVE  /\ [run[r] EXCEPT !.aborted = TRUE] \in RunRec
             /\ [run[r] EXCEPT !.aborted = TRUE].st = run[r].st
             /\ [run[r] EXCEPT !.aborted = TRUE].chat = run[r].chat
  BY <1>1 DEF RunRec
<1> QED
  BY <1>1, <1>2 DEF Abort

LEMMA StopKeeps == ASSUME Inv, Stop PROVE Inv'
<1>1. /\ run' \in [Runs -> RunRec]
      /\ \A r \in Runs : /\ run'[r].st \in LiveSts <=> run[r].st \in LiveSts
                         /\ run'[r].chat = run[r].chat
  BY AbortKeeps DEF Stop
<1>2. messages \in [Chats -> Seq(Message)] /\ messages' = messages
      /\ UNCHANGED <<tabs, busy, own, locked, ac, store>>
  BY DEF Inv, ThreadsOK, Stop
<1> QED
  BY <1>1, <1>2, QuietKeeps

\* The tab that is closed is no longer open.
LEMMA CloseTabShuts == ASSUME Inv, NEW c \in Chats, CloseTab(c) PROVE c \notin Open'
<1>1. TabsOK /\ used \subseteq Chats /\ Open \subseteq used
  BY DEF Inv, TabsOK, TabsType
<1>2. PICK k \in DOMAIN chats :
        /\ chats[k] = c
        /\ OpenFresh(<< >>) \/ (Len(chats) > 1 /\ chats' = Without(k))
  BY DEF CloseTab
<1>3. CASE OpenFresh(<< >>)
  <2>1. << >> \in Seq(Chats) /\ Distinct(<< >>) /\ Ids(<< >>) = {}
    BY DEF Distinct, Ids
  <2>2. Open' = Ids(<< >>) \cup {activeId'} /\ activeId' \in Chats \ used
    BY <1>1, <1>3, <2>1, FreshTab
  <2> QED
    BY <1>1, <1>2, <2>1, <2>2 DEF Open
<1>4. CASE Len(chats) > 1 /\ chats' = Without(k)
  BY <1>1, <1>2, <1>4, WithoutOne DEF Open, Ids
<1> QED
  BY <1>2, <1>3, <1>4

LEMMA CloseTabKeeps == ASSUME Inv, NEW c \in Chats, CloseTab(c) PROVE Inv'
<1>1. PICK k \in DOMAIN chats :
        /\ chats[k] = c
        /\ run' = Abort(own[c])
        /\ messages' = [messages EXCEPT ![c] = << >>]
        /\ busy' = [busy EXCEPT ![c] = FALSE] /\ own' = [own EXCEPT ![c] = NoRun]
        /\ \/ Len(chats) = 1 /\ OpenFresh(<< >>)
           \/ /\ Len(chats) > 1 /\ chats' = Without(k) /\ UNCHANGED used
              /\ activeId' = IF c = activeId THEN LastOf(chats') ELSE activeId
              /\ locked' = IF c = activeId THEN busy[LastOf(chats')] ELSE locked
        /\ Persist /\ ac' = ac
  BY DEF CloseTab
<1>2. /\ messages \in [Chats -> Seq(Message)] /\ busy \in [Chats -> BOOLEAN]
      /\ own \in [Chats -> Runs \cup {NoRun}] /\ TabsOK /\ used \subseteq Chats
      /\ chats \in Seq(Chats) /\ activeId \in Open /\ locked = busy[activeId]
      /\ Open \subseteq used /\ \A d \in Chats \ Open : ~busy[d]
  BY DEF Inv, ThreadsOK, RunsOK, RunsType, TabsOK, TabsType, OneRunPerTab
<1>3. /\ run' \in [Runs -> RunRec]
      /\ \A r \in Runs : /\ run'[r].st \in LiveSts <=> run[r].st \in LiveSts
                         /\ run'[r].chat = run[r].chat
  BY <1>1, AbortKeeps
<1> DEFINE S == {c}
<1>4. /\ messages' = [d \in Chats |-> IF d \in S THEN << >> ELSE messages[d]]
      /\ busy' = [d \in Chats |-> IF d \in S THEN FALSE ELSE busy[d]]
      /\ own' = [d \in Chats |-> IF d \in S THEN NoRun ELSE own[d]]
  BY <1>1, <1>2
<1>5. ThreadsOK'
  <2>1. << >> \in Seq(Message) /\ Paired(<< >>)
    BY DEF Paired
  <2>2. messages' \in [Chats -> Seq(Message)]
    BY <1>2, <1>4, <2>1
  <2> QED
    BY <1>2, <1>4, <2>1, <2>2 DEF Inv, ThreadsOK
<1>6. /\ TabsOK' /\ c \notin Open' /\ used \subseteq used' /\ locked' = busy[activeId']
      /\ Open' \ Open \subseteq Chats \ used /\ Open \ Open' \subseteq S
  <2>1. CASE Len(chats) = 1 /\ OpenFresh(<< >>)
    <3>1. << >> \in Seq(Chats) /\ Distinct(<< >>) /\ Ids(<< >>) = {}
      BY DEF Distinct, Ids
    <3>2. /\ TabsOK' /\ Open' = Ids(<< >>) \cup {activeId'} /\ activeId' \in Chats \ used
          /\ used \subseteq used' /\ locked' = FALSE
      BY <1>2, <2>1, <3>1, FreshTab
    <3>3. Open = {c}
      <4>1. DOMAIN chats = {1}
        BY <1>2, <2>1
      <4> QED
        BY <1>1, <4>1 DEF Open
    <3>4. ~busy[activeId'] /\ busy[activeId'] \in BOOLEAN
      BY <1>2, <3>2
    <3> QED
      BY <1>2, <3>1, <3>2, <3>3, <3>4
  <2>2. CASE /\ Len(chats) > 1 /\ chats' = Without(k) /\ UNCHANGED used
             /\ activeId' = IF c = activeId THEN LastOf(chats') ELSE activeId
             /\ locked' = IF c = activeId THEN busy[LastOf(chats')] ELSE locked
    <3>1. /\ chats' \in Seq(Chats) /\ chats' # << >> /\ Distinct(chats')
          /\ Ids(chats') = Open \ {c} /\ LastOf(chats') \in Ids(chats')
      BY <1>1, <1>2, <2>2, WithoutOne
    <3>2. Open' = Open \ {c}
      BY <3>1 DEF Open, Ids
    <3>3. activeId' \in Open' /\ locked' = busy[activeId']
      BY <1>2, <2>2, <3>1, <3>2
    <3>4. TabsOK'
      BY <1>2, <2>2, <3>1, <3>2, <3>3 DEF TabsOK, TabsType, Open
    <3> QED
      BY <2>2, <3>2, <3>3, <3>4
  <2> QED
    BY <1>1, <2>1, <2>2
<1>7. StoreOK'
  BY <1>1, <1>5, <1>6, PersistKeeps DEF Inv
<1>8. S \in SUBSET Chats /\ S \cap Open' = {} /\ locked' \in BOOLEAN
  <2>1. activeId' \in Chats
    BY <1>6 DEF TabsOK, TabsType
  <2> QED
    BY <1>2, <1>6, <2>1
<1> HIDE DEF S
<1> QED
  BY <1>1, <1>3, <1>4, <1>6, <1>7, <1>8, TabsKeep

LEMMA ReloadKeeps == ASSUME Inv, Reload PROVE Inv'
<1>1. run \in [Runs -> RunRec] /\ Idle \in RunRec
  BY ChatsAssumption, PollsAssumption DEF Inv, RunsOK, RunsType, RunRec, Idle, LiveSts
<1>2. Ended \in RunRec /\ Ended.st \notin LiveSts
  BY <1>1 DEF Ended, RunRec, LiveSts
<1>3. run' \in [Runs -> RunRec] /\ \A r \in Runs : ~Live(r)'
  BY <1>1, <1>2 DEF Reload, Live
<1>4. busy' = [c \in Chats |-> FALSE] /\ own' = [c \in Chats |-> NoRun] /\ ac' = NoRun
  BY DEF Reload
<1>5. TabsOK' /\ ThreadsOK' /\ StoreOK' /\ locked' = FALSE
  <2>1. CASE store.chats # << >>
    <3>1. /\ store.chats \in Seq(Chats) /\ store.active \in Chats
          /\ store.messages \in [Chats -> Seq(Message)] /\ Distinct(store.chats)
          /\ Ids(store.chats) \subseteq used /\ store.active \in Ids(store.chats)
          /\ \A c \in Chats : Paired(store.messages[c]) /\ used \subseteq Chats
      BY <2>1 DEF Inv, StoreOK, StoreType, TabsOK, TabsType
    <3>2. /\ chats' = store.chats /\ messages' = store.messages /\ activeId' = store.active
          /\ locked' = FALSE /\ used' = used /\ store' = store
      BY <2>1, <3>1 DEF Reload, Ids
    <3>3. TabsOK'
      BY <2>1, <3>1, <3>2, ChatsAssumption DEF TabsOK, TabsType, Open, Ids, Inv
    <3> QED
      BY <3>1, <3>2, <3>3 DEF Inv, ThreadsOK, StoreOK, StoreType
  <2>2. CASE store.chats = << >>
    <3>1. << >> \in Seq(Chats) /\ Distinct(<< >>) /\ Ids(<< >>) = {} /\ used \subseteq Chats
      BY DEF Distinct, Ids, Inv, TabsOK, TabsType
    <3>2. messages' = [c \in Chats |-> << >>] /\ OpenFresh(<< >>) /\ Persist
      BY <2>2 DEF Reload
    <3>3. TabsOK' /\ used \subseteq used' /\ locked' = FALSE
      BY <3>1, <3>2, FreshTab
    <3>4. ThreadsOK'
      BY <3>2 DEF ThreadsOK, Paired
    <3> QED
      BY <3>2, <3>3, <3>4, PersistKeeps DEF Inv
  <2> QED
    BY <2>1, <2>2
<1>6. RunsOK'
  <2>1. activeId' \in Chats /\ Open' \subseteq Chats
    BY <1>5 DEF TabsOK, TabsType, Open
  <2> QED
    BY <1>3, <1>4, <1>5, <2>1, RunsAssumption DEF RunsOK, RunsType, OneRunPerTab
<1>7. Turns'
  BY <1>3 DEF Turns
<1> QED
  BY <1>5, <1>6, <1>7 DEF Inv
-----------------------------------------------------------------------------
LEMMA InitKeeps == ASSUME Init PROVE Inv
<1> DEFINE c == CHOOSE d \in Chats : TRUE
<1>1. c \in Chats
  BY ChatsAssumption
<1>2. /\ chats = <<c>> /\ activeId = c /\ used = {c} /\ messages = [d \in Chats |-> << >>]
      /\ busy = [d \in Chats |-> FALSE] /\ own = [d \in Chats |-> NoRun]
      /\ locked = FALSE /\ ac = NoRun /\ run = [r \in Runs |-> Idle]
      /\ store \in {Pack(chats, c, messages, TRUE), NoStore}
  BY DEF Init
<1> HIDE DEF c
<1>3. Idle \in RunRec /\ Idle.st \notin LiveSts
  BY ChatsAssumption, PollsAssumption DEF RunRec, Idle, LiveSts
<1>4. chats \in Seq(Chats) /\ DOMAIN chats = {1} /\ chats[1] = c /\ Open = {c}
  BY <1>1, <1>2 DEF Open
<1>5. TabsOK
  BY <1>1, <1>2, <1>4 DEF TabsOK, TabsType, Distinct
<1>6. << >> \in Seq(Message) /\ Paired(<< >>)
  BY DEF Paired
<1>7. ThreadsOK
  BY <1>2, <1>6 DEF ThreadsOK
<1>8. StoreOK
  <2>1. CASE store = NoStore
    <3>1. /\ store.chats = << >> /\ store.active \in Chats
          /\ store.messages = [d \in Chats |-> << >>] /\ StoreType
      BY <1>6, <2>1, ChatsAssumption DEF NoStore, StoreType
    <3> QED
      BY <1>6, <3>1 DEF StoreOK, Distinct, Ids
  <2>2. CASE store = Pack(chats, c, messages, TRUE)
    <3>1. /\ store.chats = chats /\ store.active = c
          /\ store.messages = messages /\ StoreType
      BY <1>1, <1>2, <1>4, <1>7, <2>2 DEF Pack, StoreType, ThreadsOK
    <3> QED
      BY <1>2, <1>4, <1>5, <1>7, <3>1 DEF StoreOK, Ids, TabsOK, ThreadsOK
  <2> QED
    BY <1>2, <2>1, <2>2
<1>9. RunsOK
  BY <1>1, <1>2, <1>3, <1>4, RunsAssumption DEF RunsOK, RunsType, OneRunPerTab, Live
<1>10. Turns
  BY <1>2, <1>3 DEF Turns, Live
<1> QED
  BY <1>5, <1>7, <1>8, <1>9, <1>10 DEF Inv

\* Steps of a run that go on: it moves to another place, with or without a text.
LEMMA GoesOn ==
  ASSUME Inv, NEW r \in Runs, Live(r), NEW x \in RunRec, run' = [run EXCEPT ![r] = x],
         x.st \in LiveSts, x.chat = run[r].chat, Same(r),
         NEW b \in Bodies, SetPendingText(run[r].chat, b) \/ UNCHANGED messages
  PROVE  Inv'
<1>1. run \in [Runs -> RunRec] /\ run[r].chat \in Chats /\ messages \in [Chats -> Seq(Message)]
  BY DEF Inv, RunsOK, RunsType, RunRec, ThreadsOK
<1>2. /\ run' \in [Runs -> RunRec]
      /\ \A q \in Runs : /\ run'[q].st \in LiveSts <=> run[q].st \in LiveSts
                         /\ run'[q].chat = run[q].chat
  BY <1>1 DEF Live
<1>3. UNCHANGED <<tabs, busy, own, locked, ac, store>>
  BY DEF Same
<1>4. CASE UNCHANGED messages
  BY <1>1, <1>2, <1>3, <1>4, QuietKeeps
<1>5. CASE SetPendingText(run[r].chat, b)
  <2>1. /\ messages' \in [Chats -> Seq(Message)]
        /\ \A d \in Chats :
             /\ Len(messages'[d]) = Len(messages[d])
             /\ \A n \in 1 .. Len(messages[d]) :
                  /\ messages'[d][n].role = messages[d][n].role
                  /\ messages'[d][n].of = messages[d][n].of
                  /\ messages[d][n].pending => messages'[d][n].pending
    BY <1>1, <1>5, PendingText
  <2> QED
    BY <1>2, <1>3, <2>1, QuietKeeps
<1> QED
  BY <1>4, <1>5

LEMMA RunStepKeeps == ASSUME Inv, Polled, NEW r \in Runs, RunStep(r) PROVE Inv'
<1> USE DEF Bodies, Media
<1>1. /\ run \in [Runs -> RunRec] /\ run[r] \in RunRec
      /\ run[r].kind \in {"chat", "image", "video"}
      /\ run[r].depth \in 0 .. MaxPolls /\ MaxPolls \in Nat
  BY PollsAssumption DEF Inv, RunsOK, RunsType, RunRec
<1> DEFINE at(l) == [run[r] EXCEPT !.st = l]
<1>2. ASSUME NEW l \in LiveSts
      PROVE  at(l) \in RunRec /\ at(l).st \in LiveSts /\ at(l).chat = run[r].chat
  BY <1>1 DEF RunRec
<1>3. ASSUME NEW l \in LiveSts, Live(r), Goto(r, l), Same(r), NEW b \in Bodies,
             SetPendingText(run[r].chat, b) \/ UNCHANGED messages
      PROVE  Inv'
  <2>1. run' = [run EXCEPT ![r] = at(l)]
    BY <1>1, <1>3 DEF Goto
  <2> HIDE DEF at
  <2> QED
    BY <1>2, <1>3, <2>1, GoesOn
<1>4. ASSUME NEW d \in 0 .. MaxPolls, Live(r), Sleep(r, d) PROVE Inv'
  <2> DEFINE x == [run[r] EXCEPT !.st = "timer", !.depth = d]
  <2>1. x \in RunRec /\ x.st \in LiveSts /\ x.chat = run[r].chat
    BY <1>1 DEF RunRec, LiveSts
  <2>2. run' = [run EXCEPT ![r] = x] /\ SetPendingText(run[r].chat, "wait") /\ Same(r)
    BY <1>1, <1>4 DEF Sleep
  <2> HIDE DEF x
  <2> QED
    BY <1>4, <2>1, <2>2, GoesOn
<1>5. \A l \in LiveSts : At(r, l) => Live(r)
  BY DEF At, Live
<1>6. CASE RunAborted(r)
  BY <1>6, FinishKeeps DEF RunAborted
<1>7. CASE PostFails(r) \/ PostAnswers(r) \/ StreamEnds(r) \/ StreamFails(r) \/ PollFails(r)
  BY <1>5, <1>7, FinishKeeps
     DEF PostFails, PostAnswers, StreamEnds, StreamFails, PollFails, LiveSts
<1>8. CASE PollDone(r)
  <2>1. run[r].kind \in Media
    BY <1>1, <1>8 DEF PollDone, At, Polled
  <2> QED
    BY <1>5, <1>8, <2>1, FinishKeeps DEF PollDone, LiveSts
<1>9. CASE PostQueued(r)
  BY <1>3, <1>5, <1>9 DEF PostQueued, LiveSts
<1>10. CASE StreamOpens(r)
  BY <1>3, <1>5, <1>10 DEF StreamOpens, LiveSts
<1>11. CASE StreamChunk(r)
  <2>1. PICK a \in {run[r].acc, TRUE} :
          /\ run' = [run EXCEPT ![r].acc = a]
          /\ \/ run[r].chat = activeId /\ UNCHANGED messages
             \/ /\ run[r].chat # activeId
                /\ SetPendingText(run[r].chat, IF a THEN "partial" ELSE "wait")
    BY <1>11 DEF StreamChunk
  <2> DEFINE x == [run[r] EXCEPT !.acc = a]
  <2>2. x \in RunRec /\ x.st = run[r].st /\ x.chat = run[r].chat
    BY <1>1 DEF RunRec
  <2>3. run' = [run EXCEPT ![r] = x] /\ Live(r) /\ Same(r)
    BY <1>1, <1>5, <1>11, <2>1 DEF StreamChunk, LiveSts
  <2>4. PICK b \in Bodies : SetPendingText(run[r].chat, b) \/ UNCHANGED messages
    BY <2>1
  <2> HIDE DEF x
  <2> QED
    BY <2>2, <2>3, <2>4, GoesOn DEF Live
<1>12. CASE PollWaits(r)
  BY <1>1, <1>4, <1>5, <1>12 DEF PollWaits, LiveSts
<1>13. CASE PollRetries(r)
  BY <1>1, <1>4, <1>5, <1>13 DEF PollRetries, LiveSts
<1>14. CASE Tick(r)
  <2>1. Live(r)
    BY <1>5, <1>14 DEF Tick, LiveSts
  <2>2. CASE Goto(r, "poll") /\ UNCHANGED messages /\ Same(r)
    BY <1>3, <2>1, <2>2 DEF LiveSts
  <2>3. CASE run[r].depth > 0 /\ Sleep(r, run[r].depth - 1)
    BY <1>1, <1>4, <2>1, <2>3
  <2>4. CASE Finish(r, "error", "none")
    BY <2>1, <2>4, FinishKeeps
  <2> QED
    BY <1>14, <2>2, <2>3, <2>4 DEF Tick
<1>15. CASE DeadlinePasses(r)
  <2> DEFINE x == [run[r] EXCEPT !.late = TRUE]
  <2>1. x \in RunRec /\ x.st = run[r].st /\ x.chat = run[r].chat
    BY <1>1 DEF RunRec
  <2>2. run' = [run EXCEPT ![r] = x] /\ Live(r) /\ Same(r) /\ UNCHANGED messages
    BY <1>1, <1>15 DEF DeadlinePasses, Live, LiveSts
  <2> HIDE DEF x
  <2> QED
    BY <2>1, <2>2, GoesOn DEF Live
<1> QED
  BY <1>6, <1>7, <1>8, <1>9, <1>10, <1>11, <1>12, <1>13, <1>14, <1>15
     DEF RunStep, Ends, Polls

LEMMA PolledKeeps == ASSUME Inv, Polled, [Next]_vars PROVE Polled'
<1>1. run \in [Runs -> RunRec] /\ \A r \in Runs : run[r] \in RunRec
  BY DEF Inv, RunsOK, RunsType
<1>2. CASE UNCHANGED run
  BY <1>2 DEF Polled
<1>3. ASSUME NEW r \in Runs, NEW x, run' = [run EXCEPT ![r] = x],
             x.st \in {"poll", "timer"} => x.kind # "chat"
      PROVE  Polled'
  BY <1>1, <1>3 DEF Polled
<1>4. ASSUME NEW x, run' = Abort(x) PROVE Polled'
  <2>1. \A r \in Runs : run'[r].st = run[r].st /\ run'[r].kind = run[r].kind
    BY <1>1, <1>4 DEF Abort, RunRec
  <2> QED
    BY <2>1 DEF Polled
<1>5. Ended.st = "done" /\ \A c, k : Posted(c, k).st = "post"
  BY DEF Ended, Posted, Idle
<1>6. CASE Reload
  <2>1. \A r \in Runs : run'[r] = Ended \/ run'[r] = run[r]
    BY <1>6 DEF Reload
  <2> QED
    BY <1>5, <2>1 DEF Polled
<1>7. ASSUME NEW r \in Runs, NEW b, NEW md, Finish(r, b, md) PROVE Polled'
  BY <1>3, <1>5, <1>7 DEF Finish
<1>8. ASSUME NEW r \in Runs, NEW l, l \in {"poll", "timer"} => run[r].kind # "chat", Goto(r, l)
      PROVE  Polled'
  <2> DEFINE x == [run[r] EXCEPT !.st = l]
  <2>1. x.st = l /\ x.kind = run[r].kind /\ run' = [run EXCEPT ![r] = x]
    BY <1>1, <1>8 DEF Goto, RunRec
  <2> HIDE DEF x
  <2> QED
    BY <1>3, <1>8, <2>1
<1>9. ASSUME NEW r \in Runs, NEW d, run[r].st \in {"poll", "timer"}, Sleep(r, d) PROVE Polled'
  <2> DEFINE x == [run[r] EXCEPT !.st = "timer", !.depth = d]
  <2>1. x.kind = run[r].kind /\ run' = [run EXCEPT ![r] = x]
    BY <1>1, <1>9 DEF Sleep, RunRec
  <2>2. run[r].kind # "chat"
    BY <1>9 DEF Polled
  <2> HIDE DEF x
  <2> QED
    BY <1>3, <2>1, <2>2
<1>10. ASSUME NEW r \in Runs, RunStep(r) PROVE Polled'
  <2>1. CASE RunAborted(r) \/ PostFails(r) \/ PostAnswers(r) \/ StreamEnds(r) \/ StreamFails(r)
             \/ PollDone(r) \/ PollFails(r)
    BY <1>7, <2>1 DEF RunAborted, PostFails, PostAnswers, StreamEnds, StreamFails, PollDone,
                      PollFails
  <2>2. CASE PostQueued(r) \/ StreamOpens(r)
    BY <1>8, <2>2 DEF PostQueued, StreamOpens
  <2>3. CASE PollWaits(r) \/ PollRetries(r)
    BY <1>9, <2>3 DEF PollWaits, PollRetries, At
  <2>4. CASE Tick(r)
    <3>1. run[r].st = "timer" /\ run[r].kind # "chat"
      BY <2>4 DEF Tick, At, Polled
    <3> QED
      BY <1>7, <1>8, <1>9, <2>4, <3>1 DEF Tick
  <2>5. CASE StreamChunk(r) \/ DeadlinePasses(r)
    <3>1. PICK a : run' = [run EXCEPT ![r].acc = a] \/ run' = [run EXCEPT ![r].late = TRUE]
      BY <2>5 DEF StreamChunk, DeadlinePasses
    <3>2. \A q \in Runs : run'[q].st = run[q].st /\ run'[q].kind = run[q].kind
      BY <1>1, <3>1 DEF RunRec
    <3> QED
      BY <3>2 DEF Polled
  <2> QED
    BY <1>10, <2>1, <2>2, <2>3, <2>4, <2>5 DEF RunStep, Ends, Polls
<1>11. ASSUME NEW r \in Runs, NEW k \in Kinds, Submit(r, k) \/ Regenerate(r, k) PROVE Polled'
  <2>1. run' = [run EXCEPT ![r] = Posted(activeId, k)]
    BY <1>11 DEF Submit, Regenerate, Launch
  <2> QED
    BY <1>3, <1>5, <2>1
<1>12. CASE NewChat \/ \E c \in Chats : SwitchChat(c)
  BY <1>2, <1>12 DEF NewChat, SwitchChat
<1>13. CASE Stop \/ \E c \in Chats : CloseTab(c)
  BY <1>4, <1>13 DEF Stop, CloseTab
<1>14. CASE UNCHANGED vars
  BY <1>2, <1>14 DEF vars
<1> QED
  BY <1>6, <1>10, <1>11, <1>12, <1>13, <1>14 DEF Next

LEMMA NextKeeps == ASSUME Inv, Polled, [Next]_vars PROVE Inv'
<1>1. CASE UNCHANGED vars
  <2>1. messages \in [Chats -> Seq(Message)] /\ run \in [Runs -> RunRec]
    BY DEF Inv, ThreadsOK, RunsOK, RunsType
  <2>2. UNCHANGED <<tabs, busy, own, locked, ac, store>> /\ run' = run /\ messages' = messages
    BY <1>1 DEF vars
  <2> QED
    BY <2>1, <2>2, QuietKeeps
<1>2. CASE NewChat
  BY <1>2, NewChatKeeps
<1>3. CASE Stop
  BY <1>3, StopKeeps
<1>4. CASE Reload
  BY <1>4, ReloadKeeps
<1>5. ASSUME NEW c \in Chats, SwitchChat(c) \/ CloseTab(c) PROVE Inv'
  BY <1>5, SwitchChatKeeps, CloseTabKeeps
<1>6. ASSUME NEW r \in Runs, RunStep(r) PROVE Inv'
  BY <1>6, RunStepKeeps
<1>7. ASSUME NEW r \in Runs, NEW k \in Kinds, Submit(r, k) \/ Regenerate(r, k) PROVE Inv'
  BY <1>7, SubmitKeeps, RegenerateKeeps
<1> QED
  BY <1>1, <1>2, <1>3, <1>4, <1>5, <1>6, <1>7 DEF Next
-----------------------------------------------------------------------------
\* What persist writes is what a reload should bring back.
LEMMA PersistSaves == ASSUME TabsOK', ThreadsOK', StoreOK, Persist PROVE AnswersSaved'
<1>1. CASE store' = [store EXCEPT !.ok = FALSE]
  <2>1. store'.ok = FALSE
    BY <1>1 DEF StoreOK, StoreType
  <2> QED
    BY <2>1 DEF AnswersSaved
<1>2. ASSUME NEW w \in BOOLEAN, store' = Pack(chats', activeId', messages', w)
      PROVE  AnswersSaved'
  <2>1. /\ store'.chats = chats' /\ store'.active = activeId'
        /\ \A c \in Chats : store'.messages[c] =
             IF w THEN messages'[c] ELSE [n \in DOMAIN messages'[c] |-> Bare(messages'[c][n])]
    BY <1>2 DEF Pack
  <2>2. ASSUME NEW c \in Chats
        PROVE  /\ Len(store'.messages[c]) = Len(messages'[c])
               /\ \A n \in DOMAIN messages'[c] :
                    LET m == messages'[c][n] saved == store'.messages[c][n]
                    IN /\ saved.of = m.of /\ saved.pending = m.pending
                       /\ ~m.pending => saved \in {m, Bare(m)}
    <3> DEFINE t == messages'[c]
               v == store'.messages[c]
    <3>1. t \in Seq(Message) /\ Len(t) \in Nat /\ DOMAIN t = 1 .. Len(t)
          /\ \A n \in DOMAIN t : t[n] \in Message
      BY DEF ThreadsOK
    <3>2. \A n \in DOMAIN t : Bare(t[n]).of = t[n].of /\ Bare(t[n]).pending = t[n].pending
      BY <3>1 DEF Bare, Message
    <3>3. CASE w
      BY <2>1, <3>3
    <3>4. CASE ~w
      <4>1. v = [n \in DOMAIN t |-> Bare(t[n])]
        BY <2>1, <3>4
      <4> HIDE DEF t, v
      <4>2. Len(v) = Len(t) /\ \A n \in DOMAIN t : v[n] = Bare(t[n])
        BY <3>1, <4>1
      <4> QED
        BY <3>2, <4>2 DEF t, v
    <3> QED
      BY <3>3, <3>4
  <2> QED
    BY <2>1, <2>2 DEF AnswersSaved, Thread
<1> QED
  BY <1>1, <1>2 DEF Persist

\* Texts of pending messages may differ from what is stored.
LEMMA SavedStays ==
  ASSUME AnswersSaved, UNCHANGED <<chats, activeId, store>>,
         messages \in [Chats -> Seq(Message)], messages' \in [Chats -> Seq(Message)],
         \A c \in Chats :
           /\ Len(messages'[c]) = Len(messages[c])
           /\ \A n \in 1 .. Len(messages[c]) :
                /\ messages'[c][n].of = messages[c][n].of
                /\ messages'[c][n].pending = messages[c][n].pending
                /\ ~messages[c][n].pending => messages'[c][n] = messages[c][n]
  PROVE  AnswersSaved'
<1> SUFFICES ASSUME store.ok, NEW c \in Chats
             PROVE  /\ Len(store.messages[c]) = Len(messages'[c])
                    /\ \A n \in DOMAIN messages'[c] :
                         LET m == messages'[c][n] saved == store.messages[c][n]
                         IN /\ saved.of = m.of /\ saved.pending = m.pending
                            /\ ~m.pending => saved \in {m, Bare(m)}
  BY DEF AnswersSaved, Thread
<1>1. /\ messages[c] \in Seq(Message) /\ messages'[c] \in Seq(Message)
      /\ Len(messages'[c]) = Len(messages[c])
  OBVIOUS
<1>2. DOMAIN messages[c] = 1 .. Len(messages[c]) /\ DOMAIN messages'[c] = 1 .. Len(messages[c])
  BY <1>1
<1>3. Len(store.messages[c]) = Len(messages[c])
  BY DEF AnswersSaved, Thread
<1>4. ASSUME NEW n \in 1 .. Len(messages[c])
      PROVE  LET m == messages'[c][n] saved == store.messages[c][n]
             IN /\ saved.of = m.of /\ saved.pending = m.pending
                /\ ~m.pending => saved \in {m, Bare(m)}
  <2>1. LET m == messages[c][n] saved == store.messages[c][n]
        IN /\ saved.of = m.of /\ saved.pending = m.pending
           /\ ~m.pending => saved \in {m, Bare(m)}
    BY <1>2 DEF AnswersSaved, Thread
  <2>2. /\ messages'[c][n].of = messages[c][n].of
        /\ messages'[c][n].pending = messages[c][n].pending
        /\ ~messages[c][n].pending => messages'[c][n] = messages[c][n]
    BY <1>4
  <2> QED
    BY <2>1, <2>2, Zenon
<1> QED
  BY <1>1, <1>2, <1>3, <1>4

\* A run that is at work writes its text into a message that is pending.
LEMMA PendingOnly ==
  ASSUME Inv, NEW r \in Runs, Live(r), NEW b \in Bodies, SetPendingText(run[r].chat, b)
  PROVE  \A d \in Chats : \A n \in 1 .. Len(messages[d]) :
           /\ messages'[d][n].pending = messages[d][n].pending
           /\ ~messages[d][n].pending => messages'[d][n] = messages[d][n]
<1> DEFINE c == run[r].chat
           t == messages[c]
           k == Len(t)
<1>1. c \in Chats /\ messages \in [Chats -> Seq(Message)] /\ t \in Seq(Message)
  BY DEF Inv, RunsOK, RunsType, RunRec, ThreadsOK
<1>2. CASE messages' = messages
  BY <1>2
<1>3. CASE /\ c \in Open /\ t # << >>
           /\ messages' = [messages EXCEPT ![c][k].body = b, ![c][k].pending = TRUE]
  <2>1. t[k].pending
    BY <1>3 DEF Inv, Turns
  <2>2. k \in DOMAIN t /\ DOMAIN t = 1 .. k /\ t[k] \in Message
    BY <1>1, <1>3
  <2> DEFINE m == [t[k] EXCEPT !.body = b, !.pending = TRUE]
             u == [t EXCEPT ![k] = m]
  <2>3. m.pending = TRUE /\ t[k].pending = TRUE
    BY <2>1, <2>2 DEF Message
  <2>4. messages' = [messages EXCEPT ![c] = u]
    BY <1>1, <1>3, <2>2 DEF Message
  <2> HIDE DEF m
  <2>5. u[k] = m /\ \A n \in 1 .. k : n # k => u[n] = t[n]
    BY <2>2
  <2> HIDE DEF u
  <2>6. messages'[c] = u /\ \A d \in Chats : d # c => messages'[d] = messages[d]
    BY <1>1, <2>4
  <2>7. ASSUME NEW n \in 1 .. k
        PROVE  u[n].pending = t[n].pending /\ (~t[n].pending => u[n] = t[n])
    BY <2>3, <2>5
  <2>8. ASSUME NEW d \in Chats, NEW n \in 1 .. Len(messages[d])
        PROVE  /\ messages'[d][n].pending = messages[d][n].pending
               /\ ~messages[d][n].pending => messages'[d][n] = messages[d][n]
    BY <2>6, <2>7, <2>8
  <2> QED
    BY <2>8
<1> QED
  BY <1>2, <1>3 DEF SetPendingText, Thread

LEMMA RunStepSaves ==
  ASSUME Inv, Inv', AnswersSaved, NEW r \in Runs, RunStep(r)
  PROVE  AnswersSaved'
<1> USE DEF Bodies
<1>1. messages \in [Chats -> Seq(Message)] /\ messages' \in [Chats -> Seq(Message)]
      /\ TabsOK' /\ ThreadsOK' /\ StoreOK /\ run[r].chat \in Chats
  BY DEF Inv, ThreadsOK, RunsOK, RunsType, RunRec
<1>2. ASSUME NEW b, NEW md, Finish(r, b, md) PROVE AnswersSaved'
  <2>1. CASE UNCHANGED <<messages, busy, own, locked, store>>
    BY <1>1, <1>2, <2>1, SavedStays DEF Finish, tabs
  <2>2. CASE Persist
    BY <1>1, <2>2, PersistSaves
  <2> QED
    BY <1>2, <2>1, <2>2 DEF Finish, FinishAssistant
<1>3. ASSUME Live(r), Same(r), NEW b \in Bodies,
             SetPendingText(run[r].chat, b) \/ UNCHANGED messages
      PROVE  AnswersSaved'
  <2>1. UNCHANGED <<chats, activeId, store>>
    BY <1>3 DEF Same, tabs
  <2>2. CASE UNCHANGED messages
    BY <1>1, <2>1, <2>2, SavedStays
  <2>3. CASE SetPendingText(run[r].chat, b)
    <3>1. \A d \in Chats :
            /\ Len(messages'[d]) = Len(messages[d])
            /\ \A n \in 1 .. Len(messages[d]) : messages'[d][n].of = messages[d][n].of
      BY <1>1, <2>3, PendingText
    <3>2. \A d \in Chats : \A n \in 1 .. Len(messages[d]) :
            /\ messages'[d][n].pending = messages[d][n].pending
            /\ ~messages[d][n].pending => messages'[d][n] = messages[d][n]
      BY <1>3, <2>3, PendingOnly
    <3> QED
      BY <1>1, <2>1, <3>1, <3>2, SavedStays
  <2> QED
    BY <1>3, <2>2, <2>3
<1>4. CASE RunAborted(r) \/ PostFails(r) \/ PostAnswers(r) \/ StreamEnds(r) \/ StreamFails(r)
           \/ PollDone(r) \/ PollFails(r)
  BY <1>2, <1>4 DEF RunAborted, PostFails, PostAnswers, StreamEnds, StreamFails, PollDone,
                    PollFails
<1>5. CASE PostQueued(r) \/ StreamOpens(r) \/ DeadlinePasses(r)
  BY <1>3, <1>5 DEF PostQueued, StreamOpens, DeadlinePasses, At, Live, LiveSts
<1>6. CASE PollWaits(r) \/ PollRetries(r)
  BY <1>3, <1>6 DEF PollWaits, PollRetries, Sleep, At, Live, LiveSts
<1>7. CASE Tick(r)
  BY <1>2, <1>3, <1>7 DEF Tick, Sleep, At, Live, LiveSts
<1>8. CASE StreamChunk(r)
  <2>1. PICK b \in Bodies : SetPendingText(run[r].chat, b) \/ UNCHANGED messages
    BY <1>8 DEF StreamChunk
  <2> QED
    BY <1>3, <1>8, <2>1 DEF StreamChunk, At, Live, LiveSts
<1> QED
  BY <1>4, <1>5, <1>6, <1>7, <1>8 DEF RunStep, Ends, Polls

LEMMA NextSaves ==
  ASSUME Inv, Inv', AnswersSaved, [Next]_vars
  PROVE  AnswersSaved'
<1>1. messages \in [Chats -> Seq(Message)] /\ messages' \in [Chats -> Seq(Message)]
      /\ TabsOK' /\ ThreadsOK' /\ StoreOK /\ StoreOK'
  BY DEF Inv, ThreadsOK
<1>2. CASE Persist
  BY <1>1, <1>2, PersistSaves
<1>3. CASE UNCHANGED <<chats, activeId, store, messages>>
  BY <1>1, <1>3, SavedStays
<1>4. CASE Reload
  <2>1. CASE store.chats # << >>
    <3>1. /\ chats' = store'.chats /\ messages' = store'.messages /\ activeId' = store'.active
      BY <2>1, <1>1, <1>4 DEF Reload, StoreOK, Ids
    <3> QED
      BY <1>1, <3>1 DEF AnswersSaved, Thread, StoreOK, StoreType, Message
  <2>2. CASE store.chats = << >>
    BY <1>2, <1>4, <2>2 DEF Reload
  <2> QED
    BY <2>1, <2>2
<1>5. CASE NewChat \/ \E c \in Chats : SwitchChat(c) \/ CloseTab(c)
  BY <1>2, <1>5 DEF NewChat, SwitchChat, CloseTab
<1>6. CASE Stop
  BY <1>3, <1>6 DEF Stop, tabs
<1>7. ASSUME NEW r \in Runs, RunStep(r) PROVE AnswersSaved'
  BY <1>7, RunStepSaves
<1>8. ASSUME NEW r \in Runs, NEW k \in Kinds, Submit(r, k) \/ Regenerate(r, k)
      PROVE  AnswersSaved'
  BY <1>2, <1>8 DEF Submit, Regenerate, Launch
<1>9. CASE UNCHANGED vars
  BY <1>3, <1>9 DEF vars, tabs
<1> QED
  BY <1>4, <1>5, <1>6, <1>7, <1>8, <1>9 DEF Next

\* Only Stop and the cross on a tab abort, and what they abort is that tab's run.
LEMMA NextAborts ==
  ASSUME Inv, [Next]_vars, NEW r \in Runs, run'[r].aborted, ~run[r].aborted
  PROVE  run[r].chat = activeId \/ ~ \E n \in DOMAIN chats' : chats'[n] = run[r].chat
<1>1. run \in [Runs -> RunRec] /\ \A q \in Runs : run[q] \in RunRec
  BY DEF Inv, RunsOK, RunsType
<1>2. Ended.aborted = FALSE /\ \A c, k : Posted(c, k).aborted = FALSE
  BY DEF Ended, Posted, Idle
<1>3. CASE UNCHANGED run
  BY <1>3
<1>4. ASSUME NEW x, run' = Abort(x) PROVE r = x /\ Live(r)
  BY <1>1, <1>4 DEF Abort
<1>5. CASE Stop
  <2>1. own[activeId] # NoRun /\ activeId \in Open
    BY <1>5 DEF Stop, Inv, TabsOK, RunsOK, OneRunPerTab
  <2>2. r = own[activeId]
    BY <1>4, <1>5, <2>1 DEF Stop
  <2> QED
    BY <2>1, <2>2 DEF Inv, RunsOK, OneRunPerTab
<1>6. ASSUME NEW c \in Chats, CloseTab(c)
      PROVE  ~ \E n \in DOMAIN chats' : chats'[n] = run[r].chat
  <2>1. r = own[c] /\ c \in Open
    BY <1>4, <1>6 DEF CloseTab, Open
  <2>2. run[r].chat = c
    BY <2>1 DEF Inv, RunsOK, OneRunPerTab
  <2>3. c \notin Open'
    BY <1>6, CloseTabShuts
  <2> QED
    BY <2>2, <2>3 DEF Open
<1>7. CASE Reload
  BY <1>2, <1>7 DEF Reload
<1>8. ASSUME NEW q \in Runs, RunStep(q) PROVE FALSE
  <2>1. ASSUME NEW b, NEW md, Finish(q, b, md) PROVE FALSE
    BY <1>1, <1>2, <2>1 DEF Finish
  <2>2. ASSUME NEW x, run' = [run EXCEPT ![q] = x], x.aborted = run[q].aborted PROVE FALSE
    BY <1>1, <2>2
  <2>3. ASSUME NEW l, Goto(q, l) PROVE FALSE
    BY <1>1, <2>3 DEF Goto, RunRec
  <2>4. ASSUME NEW d, Sleep(q, d) PROVE FALSE
    BY <1>1, <2>4 DEF Sleep, RunRec
  <2>5. CASE RunAborted(q) \/ PostFails(q) \/ PostAnswers(q) \/ StreamEnds(q) \/ StreamFails(q)
             \/ PollDone(q) \/ PollFails(q)
    BY <2>1, <2>5 DEF RunAborted, PostFails, PostAnswers, StreamEnds, StreamFails, PollDone,
                      PollFails
  <2>6. CASE PostQueued(q) \/ StreamOpens(q) \/ PollWaits(q) \/ PollRetries(q) \/ Tick(q)
    BY <2>1, <2>3, <2>4, <2>6 DEF PostQueued, StreamOpens, PollWaits, PollRetries, Tick
  <2>7. CASE StreamChunk(q) \/ DeadlinePasses(q)
    <3>1. PICK a : run' = [run EXCEPT ![q].acc = a] \/ run' = [run EXCEPT ![q].late = TRUE]
      BY <2>7 DEF StreamChunk, DeadlinePasses
    <3> QED
      BY <1>1, <3>1 DEF RunRec
  <2> QED
    BY <1>8, <2>5, <2>6, <2>7 DEF RunStep, Ends, Polls
<1>9. ASSUME NEW q \in Runs, NEW k \in Kinds, Submit(q, k) \/ Regenerate(q, k) PROVE FALSE
  <2>1. run' = [run EXCEPT ![q] = Posted(activeId, k)]
    BY <1>9 DEF Submit, Regenerate, Launch
  <2> QED
    BY <1>1, <1>2, <2>1
<1>10. CASE NewChat \/ (\E c \in Chats : SwitchChat(c)) \/ UNCHANGED vars
  BY <1>3, <1>10 DEF NewChat, SwitchChat, vars
<1> QED
  BY <1>5, <1>6, <1>7, <1>8, <1>9, <1>10 DEF Next

\* The strengthened invariant holds in every behaviour of the playground.
LEMMA Invariant == Spec => []IInv
<1>1. Init => IInv
  <2>1. Init => Polled
    BY DEF Init, Polled, Idle
  <2> QED
    BY <2>1, InitKeeps DEF IInv
<1>2. IInv /\ [Next]_vars => IInv'
  BY NextKeeps, PolledKeeps DEF IInv
<1> QED
  BY <1>1, <1>2, PTL DEF Spec

\* Every variable keeps its type, through every interleaving of handlers and runs.
THEOREM ChatTypeCorrect == Spec => []TypeOK
<1>1. IInv => TypeOK
  BY InvImplies DEF IInv
<1> QED
  BY <1>1, Invariant, PTL

\* A tab is busy exactly while one run works for it, and the composer is locked
\* exactly for a busy tab (setChatBusy, switchChat, finishAssistant).
THEOREM TabsHaveOneRun == Spec => []OneRunPerTab
<1>1. IInv => OneRunPerTab
  BY InvImplies DEF IInv
<1> QED
  BY <1>1, Invariant, PTL

\* The last message of a tab with a run is that run's own pending answer, so
\* setPendingText and finishAssistant write to the turn they were called for.
THEOREM RunsWriteTheirTurn == Spec => []OwnTurnIsLast
<1>1. IInv => OwnTurnIsLast
  BY InvImplies DEF IInv
<1> QED
  BY <1>1, Invariant, PTL

\* While localStorage takes what persist writes, a reload brings back every tab
\* and every answer given so far.
THEOREM AnswersAreSaved == Spec => []AnswersSaved
<1>1. Init => AnswersSaved
  <2> SUFFICES ASSUME Init PROVE AnswersSaved
    OBVIOUS
  <2> DEFINE c == CHOOSE d \in Chats : TRUE
  <2>1. store = NoStore \/ store = Pack(chats, activeId, messages, TRUE)
    BY DEF Init
  <2>2. messages = [d \in Chats |-> << >>]
    BY DEF Init
  <2>3. CASE store = NoStore
    BY <2>3 DEF NoStore, AnswersSaved
  <2>4. CASE store = Pack(chats, activeId, messages, TRUE)
    BY <2>2, <2>4 DEF Pack, AnswersSaved, Thread
  <2> QED
    BY <2>1, <2>3, <2>4
<1>2. IInv /\ IInv' /\ AnswersSaved /\ [Next]_vars => AnswersSaved'
  BY NextSaves DEF IInv
<1> QED
  BY <1>1, <1>2, Invariant, PTL DEF Spec

\* Stop and the cross on a tab abort runs of that tab only.
THEOREM AbortsHitOwnTab == Spec => AbortHitsOwnTab
<1>1. IInv /\ [Next]_vars =>
        [\A r \in Runs :
           run[r].aborted' /\ ~run[r].aborted =>
             \/ run[r].chat = activeId
             \/ ~ \E n \in DOMAIN chats' : chats'[n] = run[r].chat]_vars
  BY NextAborts DEF IInv
<1> QED
  BY <1>1, Invariant, PTL DEF Spec, AbortHitsOwnTab
-----------------------------------------------------------------------------
(***************************************************************************)
(* The refinement.  ChatThreads' turns are pairs of messages, so the       *)
(* threads have to be of even length, in memory and in storage (Sized);    *)
(* its Fresh needs that a generation that has not begun has no turn        *)
(* (Unborn); and its Reload, for a page whose storage was never written,   *)
(* that such storage holds no message (EmptyStore).                        *)
(***************************************************************************)
Turned(t, j)   == Len(t) = 2 * j
Even(t)        == \E j \in Nat : Turned(t, j)
AreThreads(ms) == ms \in [Chats -> Seq(Message)]
Absent(r, t)   == \A n \in 1 .. Len(t) : t[n].of # r
Sized(ms)      == \A c \in Chats : Even(ms[c])
Unborn(ms)     == \A r \in Runs : run[r].st = "idle" => \A c \in Chats : Absent(r, ms[c])
EmptyStore     == store.chats = << >> => \A c \in Chats : store.messages[c] = << >>
Shape          == /\ Sized(messages) /\ Sized(store.messages)
                  /\ Unborn(messages) /\ Unborn(store.messages)
                  /\ EmptyStore

\* Threads with the same turns: texts and pictures may differ.
Alike(t, u) ==
  /\ Len(u) = Len(t)
  /\ \A n \in 1 .. Len(t) : u[n].of = t[n].of /\ u[n].pending = t[n].pending
AllAlike(ms, ns) == \A c \in Chats : Alike(ms[c], ns[c])
\* No generation goes back to where it has not begun.
NoneUnborn == \A r \in Runs : run'[r].st = "idle" => run[r].st = "idle"

TurnOf(m) == [of |-> m.of, open |-> m.pending]

\* The turns of one thread.
LEMMA TurnsAt ==
  ASSUME NEW ms, NEW c \in Chats, NEW j \in Nat, Turned(ms[c], j)
  PROVE  TurnsOf(ms)[c] = [n \in 1 .. j |-> TurnOf(ms[c][2 * n])]
<1>1. Len(ms[c]) \div 2 = j
  BY DEF Turned
<1> QED BY <1>1 DEF TurnsOf, TurnOf

\* TurnsOf is a function on the conversations.
LEMMA TurnsMap ==
  ASSUME NEW ms
  PROVE  TurnsOf(ms) = [c \in Chats |-> TurnsOf(ms)[c]]
BY DEF TurnsOf

\* Threads that are alike have the same turns.
LEMMA AlikeTurns ==
  ASSUME NEW ms, NEW ns, AllAlike(ms, ns), Sized(ms)
  PROVE  TurnsOf(ns) = TurnsOf(ms) /\ Sized(ns)
<1>1. ASSUME NEW c \in Chats PROVE TurnsOf(ns)[c] = TurnsOf(ms)[c] /\ Even(ns[c])
  <2>1. PICK j \in Nat : Turned(ms[c], j)
    BY DEF Sized, Even
  <2>2. Turned(ns[c], j)
    BY <2>1 DEF AllAlike, Alike, Turned
  <2>3. ASSUME NEW n \in 1 .. j PROVE TurnOf(ns[c][2 * n]) = TurnOf(ms[c][2 * n])
    <3>1. 2 * n \in 1 .. Len(ms[c])
      BY <2>1 DEF Turned
    <3> QED BY <3>1 DEF AllAlike, Alike, TurnOf
  <2>4. /\ TurnsOf(ms)[c] = [n \in 1 .. j |-> TurnOf(ms[c][2 * n])]
        /\ TurnsOf(ns)[c] = [n \in 1 .. j |-> TurnOf(ns[c][2 * n])]
    BY <2>1, <2>2, TurnsAt
  <2> QED BY <2>2, <2>3, <2>4 DEF Even
<1>2. TurnsOf(ns) = TurnsOf(ms)
  BY <1>1 DEF TurnsOf
<1> QED BY <1>1, <1>2 DEF Sized

\* Threads that are alike lack the same generations.
LEMMA AlikeUnborn ==
  ASSUME NEW ms, NEW ns, AllAlike(ms, ns), Unborn(ms), NoneUnborn
  PROVE  \A r \in Runs : run'[r].st = "idle" => \A c \in Chats : Absent(r, ns[c])
BY DEF AllAlike, Alike, Unborn, NoneUnborn, Absent

LEMMA AlikeSelf == \A ms : AllAlike(ms, ms)
BY DEF AllAlike, Alike

\* What persist leaves in storage: the turns that are in memory, or what it held.
LEMMA PersistAlike ==
  ASSUME TabsOK', ThreadsOK', StoreOK, Persist
  PROVE  \/ AllAlike(messages', store'.messages) /\ store'.chats # << >>
         \/ store'.messages = store.messages /\ store'.chats = store.chats
<1>1. CASE store' = [store EXCEPT !.ok = FALSE]
  BY <1>1 DEF StoreOK, StoreType
<1>2. ASSUME NEW w \in BOOLEAN, store' = Pack(chats', activeId', messages', w)
      PROVE  AllAlike(messages', store'.messages) /\ store'.chats # << >>
  <2>1. store'.ok /\ store'.chats # << >>
    BY <1>2 DEF Pack, TabsOK
  <2>2. AnswersSaved'
    BY PersistSaves
  <2>3. ASSUME NEW c \in Chats PROVE Alike(messages'[c], store'.messages[c])
    <3>1. DOMAIN messages'[c] = 1 .. Len(messages'[c])
      BY DEF ThreadsOK
    <3> QED BY <2>1, <2>2, <3>1 DEF AnswersSaved, Thread, Alike
  <2> QED BY <2>1, <2>3 DEF AllAlike
<1> QED BY <1>1, <1>2 DEF Persist

\* The storage after a step that persists.
LEMMA PersistShape ==
  ASSUME Shape, TabsOK', ThreadsOK', StoreOK, Persist, NoneUnborn,
         Sized(messages'), Unborn(messages)'
  PROVE  Shape' /\ Threads!MaySave
<1>1. CASE AllAlike(messages', store'.messages) /\ store'.chats # << >>
  <2>1. TurnsOf(store'.messages) = TurnsOf(messages') /\ Sized(store'.messages)
    BY <1>1, AlikeTurns
  <2>2. Unborn(store.messages)'
    BY <1>1 DEF Unborn, AllAlike, Alike, Absent
  <2> QED BY <1>1, <2>1, <2>2 DEF Shape, EmptyStore, Threads!MaySave
<1>2. CASE store'.messages = store.messages /\ store'.chats = store.chats
  <2>1. Unborn(store.messages)'
    BY <1>2 DEF Unborn, NoneUnborn, Shape
  <2>2. Sized(store'.messages) /\ EmptyStore'
    BY <1>2 DEF Shape, EmptyStore
  <2>3. Threads!MaySave
    BY <1>2 DEF Threads!MaySave
  <2> QED BY <2>1, <2>2, <2>3 DEF Shape
<1> QED BY <1>1, <1>2, PersistAlike
\* A step that leaves the turns in memory alone.
LEMMA TouchRefines ==
  ASSUME Shape, TabsOK', ThreadsOK', StoreOK, AllAlike(messages, messages'), own' = own,
         NoneUnborn, Persist \/ UNCHANGED store
  PROVE  Shape' /\ Threads!Next
<1>1. TurnsOf(messages') = TurnsOf(messages) /\ Sized(messages')
  BY AlikeTurns DEF Shape
<1>2. Unborn(messages)'
  BY AlikeUnborn DEF Shape, Unborn
<1>3. Threads!Touch
  BY <1>1 DEF Threads!Touch
<1>4. Shape' /\ Threads!MaySave
  <2>1. CASE Persist
    BY <1>1, <1>2, <2>1, PersistShape
  <2>2. CASE UNCHANGED store
    <3>1. Unborn(store.messages)'
      BY <2>2 DEF Unborn, NoneUnborn, Shape
    <3>2. Sized(store'.messages) /\ EmptyStore'
      BY <2>2 DEF Shape, EmptyStore
    <3>3. Threads!MaySave
      BY <2>2 DEF Threads!MaySave
    <3> QED BY <1>1, <1>2, <3>1, <3>2, <3>3 DEF Shape
  <2> QED BY <2>1, <2>2
<1> QED BY <1>3, <1>4 DEF Threads!Next

\* Threads that differ in one conversation have turns that differ there.
SameBut(ms, ns, c) == \A d \in Chats : d # c => ns[d] = ms[d]
Put(f, x, e) == [f EXCEPT ![x] = e]

LEMMA OtherTurns ==
  ASSUME NEW ms, NEW ns, NEW c \in Chats, SameBut(ms, ns, c)
  PROVE  TurnsOf(ns) = Put(TurnsOf(ms), c, TurnsOf(ns)[c])
BY DEF TurnsOf, SameBut, Put

\* A thread of messages gives a sequence of turns.
LEMMA TurnsType ==
  ASSUME NEW ms, AreThreads(ms), NEW c \in Chats, NEW j \in Nat, Turned(ms[c], j)
  PROVE  /\ TurnsOf(ms)[c] \in Seq(Threads!Turn) /\ Len(TurnsOf(ms)[c]) = j
         /\ DOMAIN TurnsOf(ms)[c] = 1 .. j
         /\ \A n \in 1 .. j : TurnsOf(ms)[c][n] = TurnOf(ms[c][2 * n])
<1> DEFINE t == ms[c]
           f == [n \in 1 .. j |-> TurnOf(t[2 * n])]
<1>1. TurnsOf(ms)[c] = f
  BY TurnsAt
<1>2. t \in Seq(Message) /\ Len(t) = 2 * j
  BY DEF AreThreads, Turned
<1>3. ASSUME NEW n \in 1 .. j PROVE TurnOf(t[2 * n]) \in Threads!Turn
  <2> HIDE DEF t
  <2>1. 2 * n \in 1 .. Len(t)
    BY <1>2
  <2>2. t[2 * n] \in Message
    BY <1>2, <2>1
  <2> QED BY <2>2 DEF TurnOf, Threads!Turn, Message
<1> HIDE DEF t
<1>4. f \in Seq(Threads!Turn) /\ Len(f) = j /\ DOMAIN f = 1 .. j
      /\ \A n \in 1 .. j : f[n] = TurnOf(t[2 * n])
  BY <1>3
<1> HIDE DEF f
<1> QED BY <1>1, <1>4 DEF t

\* Two families of threads that differ in the last message of c, if at all.
ButLast(ms, ns, c, j) ==
  /\ AreThreads(ms) /\ AreThreads(ns) /\ j >= 1
  /\ Turned(ms[c], j) /\ Turned(ns[c], j)
  /\ SameBut(ms, ns, c)
  /\ \A n \in 1 .. 2 * j : n # 2 * j => ns[c][n] = ms[c][n]

\* T and U differ in the last turn of c, which is x in T and y in U.
LastPut(T, U, c, j, x, y) ==
  /\ T[c] \in Seq(Threads!Turn) /\ Len(T[c]) = j /\ j \in DOMAIN T[c] /\ T[c] # << >>
  /\ T[c][j] = x
  /\ U = Put(T, c, Put(T[c], j, y))

\* Threads that differ in the last message of c have turns that differ there.
LEMMA LastTurn ==
  ASSUME NEW ms, NEW ns, NEW c \in Chats, NEW j \in Nat, ButLast(ms, ns, c, j)
  PROVE  LastPut(TurnsOf(ms), TurnsOf(ns), c, j, TurnOf(ms[c][2 * j]), TurnOf(ns[c][2 * j]))
<1>0. /\ AreThreads(ms) /\ AreThreads(ns) /\ Turned(ms[c], j) /\ Turned(ns[c], j)
      /\ j \in 1 .. j
  BY DEF ButLast
<1>1. PICK f : f = TurnsOf(ms)[c]
  OBVIOUS
<1>2. PICK g : g = TurnsOf(ns)[c]
  OBVIOUS
<1>3. /\ f \in Seq(Threads!Turn) /\ Len(f) = j /\ DOMAIN f = 1 .. j
      /\ \A n \in 1 .. j : f[n] = TurnOf(ms[c][2 * n])
  BY <1>0, <1>1, TurnsType
<1>4. /\ g \in Seq(Threads!Turn) /\ Len(g) = j /\ DOMAIN g = 1 .. j
      /\ \A n \in 1 .. j : g[n] = TurnOf(ns[c][2 * n])
  BY <1>0, <1>2, TurnsType
<1>5. ASSUME NEW n \in 1 .. j, n # j PROVE g[n] = f[n]
  <2>1. 2 * n \in 1 .. 2 * j /\ 2 * n # 2 * j
    BY <1>5
  <2>2. ns[c][2 * n] = ms[c][2 * n]
    BY <2>1 DEF ButLast
  <2> QED BY <1>3, <1>4, <2>2
<1>6. PICK x : x = TurnOf(ns[c][2 * j])
  OBVIOUS
<1>7. g[j] = x /\ f[j] = TurnOf(ms[c][2 * j])
  BY <1>0, <1>3, <1>4, <1>6
<1>8. g = Put(f, j, x)
  BY <1>0, <1>3, <1>4, <1>5, <1>7 DEF Put
<1>9. TurnsOf(ns) = Put(TurnsOf(ms), c, g)
  <2>1. SameBut(ms, ns, c)
    BY DEF ButLast
  <2> QED BY <1>2, <2>1, OtherTurns
<1>10. f # << >>
  BY <1>0, <1>3
<1> QED BY <1>0, <1>1, <1>3, <1>6, <1>7, <1>8, <1>9, <1>10 DEF LastPut

\* The turn Settle writes.
LEMMA Closed ==
  ASSUME NEW x \in Threads!Turn
  PROVE  [x EXCEPT !.open = FALSE] = [of |-> x.of, open |-> FALSE]
<1> DEFINE e == [x EXCEPT !.open = FALSE]
<1>1. e \in Threads!Turn /\ e.of = x.of /\ e.open = FALSE
  BY DEF Threads!Turn
<1> HIDE DEF e
<1>2. e = [of |-> x.of, open |-> FALSE]
  BY <1>1 DEF Threads!Turn
<1> QED BY <1>2 DEF e

\* What Settle of ChatThreads does to the turns of c.
Settles(T, U, c, r) ==
  /\ T[c] # << >> /\ T[c][Len(T[c])] = Threads!Opened(r)
  /\ U = [T EXCEPT ![c][Len(T[c])].open = FALSE]

LEMMA SettleTurn ==
  ASSUME NEW ms, NEW ns, NEW c \in Chats, NEW j \in Nat, ButLast(ms, ns, c, j), NEW r \in Runs,
         TurnOf(ms[c][2 * j]) = [of |-> r, open |-> TRUE],
         TurnOf(ns[c][2 * j]) = [of |-> r, open |-> FALSE]
  PROVE  Settles(TurnsOf(ms), TurnsOf(ns), c, r)
<1>1. PICK T : T = TurnsOf(ms)
  OBVIOUS
<1>2. PICK U : U = TurnsOf(ns)
  OBVIOUS
<1>3. /\ T[c] # << >> /\ Len(T[c]) = j /\ j \in DOMAIN T[c] /\ T[c] \in Seq(Threads!Turn)
      /\ T[c][j] = [of |-> r, open |-> TRUE]
      /\ U = Put(T, c, Put(T[c], j, [of |-> r, open |-> FALSE]))
  <2>1. LastPut(T, U, c, j, TurnOf(ms[c][2 * j]), TurnOf(ns[c][2 * j]))
    BY <1>1, <1>2, LastTurn
  <2> QED BY <2>1 DEF LastPut
<1>4. T = [d \in Chats |-> T[d]]
  BY <1>1, TurnsMap
<1>5. T[c][j] \in Threads!Turn /\ T[c][j].of = r
  BY <1>3
<1>6. [T[c][j] EXCEPT !.open = FALSE] = [of |-> r, open |-> FALSE]
  BY <1>5, Closed
<1>7. [T EXCEPT ![c][j].open = FALSE] = Put(T, c, Put(T[c], j, [of |-> r, open |-> FALSE]))
  BY <1>4, <1>6 DEF Put
<1>8. U = [T EXCEPT ![c][Len(T[c])].open = FALSE]
  BY <1>3, <1>7
<1> QED BY <1>1, <1>2, <1>3, <1>8 DEF Settles, Threads!Opened

\* The end of a run settles the turn it was asked for.
LEMMA FinishRefines ==
  ASSUME Inv, Inv', Shape, NEW r \in Runs, Live(r), NEW b \in Bodies, NEW md \in Media,
         Finish(r, b, md)
  PROVE  Shape' /\ Threads!Next
<1> DEFINE c == run[r].chat
           t == messages[c]
           k == Len(t)
<1>t. TabsOK' /\ ThreadsOK' /\ StoreOK
  BY DEF Inv
<1>0. /\ c \in Chats /\ run \in [Runs -> RunRec] /\ t \in Seq(Message)
      /\ messages \in [Chats -> Seq(Message)] /\ own \in [Chats -> Runs \cup {NoRun}]
  BY DEF Inv, RunsOK, RunsType, RunRec, ThreadsOK
<1>n. NoneUnborn
  <2>1. Ended.st = "done"
    BY DEF Ended, Idle
  <2>2. run' = [run EXCEPT ![r] = Ended]
    BY DEF Finish
  <2> QED BY <1>0, <2>1, <2>2 DEF NoneUnborn
<1>1. CASE c \notin Open /\ UNCHANGED <<messages, busy, own, locked, store>>
  <2>1. AllAlike(messages, messages')
    BY <1>1, AlikeSelf
  <2> QED BY <1>1, <1>t, <1>n, <2>1, TouchRefines
<1>2. CASE c \in Open /\ FinishAssistant(c, r, b, md) /\ Persist
  <2>1. /\ k \in Nat /\ k >= 2 /\ t[k].role = "assistant" /\ t[k].pending /\ t[k].of = r
        /\ DOMAIN t = 1 .. k /\ t # << >> /\ t[k] \in Message
    <3>1. k >= 2 /\ t[k].role = "assistant" /\ t[k].pending /\ t[k].of = r
      BY <1>2 DEF Inv, Turns
    <3> HIDE DEF t
    <3>2. k \in Nat /\ DOMAIN t = 1 .. k
      BY <1>0
    <3>3. t # << >>
      BY <3>1
    <3> QED BY <1>0, <3>1, <3>2, <3>3
  <2> DEFINE m == Settled(t[k], b, md)
             u == [t EXCEPT ![k] = m]
  <2>2. messages' = [messages EXCEPT ![c] = u] /\ own' = [own EXCEPT ![c] = NoRun]
    <3>1. messages' = [messages EXCEPT ![c][k] = Settled(@, b, md)]
          /\ own' = [own EXCEPT ![c] = NoRun]
      BY <1>2, <2>1 DEF FinishAssistant, Thread, LastOf
    <3> QED BY <1>0, <2>1, <3>1
  <2>3. m.of = r /\ m.pending = FALSE
    BY <2>1 DEF Settled, Message
  <2> HIDE DEF m
  <2>4. /\ Len(u) = k /\ DOMAIN u = 1 .. k /\ u[k] = m
        /\ \A n \in 1 .. k : n # k => u[n] = t[n]
    <3> HIDE DEF t
    <3> QED BY <1>0, <2>1
  <2> HIDE DEF u
  <2>5. messages'[c] = u /\ \A d \in Chats : d # c => messages'[d] = messages[d]
    BY <1>0, <2>2
  <2>6. PICK j \in Nat : k = 2 * j
    BY <1>0 DEF Shape, Sized, Even, Turned
  <2>7. j \in 1 .. j /\ k \in 1 .. k
    BY <2>1, <2>6
  <2> DEFINE T == TurnsOf(messages)
             U == TurnsOf(messages')
  <2>9. TurnOf(t[k]) = [of |-> r, open |-> TRUE] /\ TurnOf(u[k]) = [of |-> r, open |-> FALSE]
    BY <2>1, <2>3, <2>4 DEF TurnOf, Message
  <2>10. messages' \in [Chats -> Seq(Message)]
    BY <1>t DEF ThreadsOK
  <2> HIDE DEF t
  <2>11. /\ ButLast(messages, messages', c, j)
         /\ messages[c][2 * j] = t[k] /\ messages'[c][2 * j] = u[k]
    BY <1>0, <2>4, <2>5, <2>6, <2>7, <2>10 DEF t, ButLast, SameBut, AreThreads, Turned
  <2>12. TurnOf(messages[c][2 * j]) = [of |-> r, open |-> TRUE]
         /\ TurnOf(messages'[c][2 * j]) = [of |-> r, open |-> FALSE]
    BY <2>9, <2>11
  <2>13. Settles(T, U, c, r)
    <3>1. PICK ms : ms = messages
      OBVIOUS
    <3>2. PICK ns : ns = messages'
      OBVIOUS
    <3>3. PICK d \in Chats : d = c
      BY <1>0
    <3>4. ButLast(ms, ns, d, j)
      BY <2>11, <3>1, <3>2, <3>3
    <3>5. TurnOf(ms[d][2 * j]) = [of |-> r, open |-> TRUE]
          /\ TurnOf(ns[d][2 * j]) = [of |-> r, open |-> FALSE]
      BY <2>12, <3>1, <3>2, <3>3
    <3>6. Settles(TurnsOf(ms), TurnsOf(ns), d, r)
      BY <3>4, <3>5, SettleTurn
    <3> QED BY <3>1, <3>2, <3>3, <3>6
  <2>14. own[c] = r /\ r # NoRun
    BY <1>2, OwnRun, RunsAssumption
  <2>15. Threads!Settle(c)
    BY <2>2, <2>13, <2>14 DEF Threads!Settle, Settles, T, U
  <2>16. Sized(messages')
    BY <2>4, <2>5 DEF Shape, Sized, Even, Turned, t
  <2>17. Unborn(messages)'
    <3>1. \A n \in 1 .. k : u[n].of = t[n].of
      BY <2>1, <2>3, <2>4
    <3>2. \A q \in Runs : \A d \in Chats : Absent(q, messages[d]) => Absent(q, messages'[d])
      BY <2>4, <2>5, <3>1 DEF Absent, t
    <3> QED BY <1>n, <3>2 DEF Unborn, NoneUnborn, Shape
  <2>18. Shape' /\ Threads!MaySave
    BY <1>2, <1>t, <1>n, <2>16, <2>17, PersistShape
  <2> QED BY <1>0, <2>15, <2>18 DEF Threads!Next
<1> QED BY <1>1, <1>2 DEF Finish, FinishAssistant
\* A generation that has not begun is fresh in ChatThreads' sense.
LEMMA FreshRun ==
  ASSUME Inv, Shape, NEW r \in Runs, run[r].st = "idle"
  PROVE  Threads!Fresh(r)
<1> SUFFICES ASSUME NEW c \in Chats
             PROVE  /\ own[c] # r
                    /\ \A n \in DOMAIN TurnsOf(messages)[c] : TurnsOf(messages)[c][n].of # r
  BY DEF Threads!Fresh
<1>1. own[c] # r
  <2>1. ~Live(r) /\ r # NoRun
    BY RunsAssumption DEF Live, LiveSts
  <2> QED BY <2>1 DEF Inv, RunsOK, OneRunPerTab
<1>2. PICK j \in Nat : Turned(messages[c], j)
  BY DEF Shape, Sized, Even
<1>3. AreThreads(messages)
  BY DEF Inv, ThreadsOK, AreThreads
<1>4. PICK f : f = TurnsOf(messages)[c]
  OBVIOUS
<1>5. DOMAIN f = 1 .. j /\ \A n \in 1 .. j : f[n] = TurnOf(messages[c][2 * n])
  BY <1>2, <1>3, <1>4, TurnsType
<1>6. ASSUME NEW n \in 1 .. j PROVE f[n].of # r
  <2>1. 2 * n \in 1 .. Len(messages[c])
    BY <1>2 DEF Turned
  <2>2. messages[c][2 * n].of # r
    BY <2>1 DEF Shape, Unborn, Absent
  <2>3. f[n].of = messages[c][2 * n].of
    BY <1>5 DEF TurnOf
  <2> QED BY <2>2, <2>3
<1> QED BY <1>1, <1>4, <1>5, <1>6

\* A prompt and its answer at the end of a thread are one more turn.
Asks(T, U, c, r) == U = [T EXCEPT ![c] = Append(@, Threads!Opened(r))]

LEMMA AskTurn ==
  ASSUME NEW ms, NEW ns, AreThreads(ms), AreThreads(ns), NEW c \in Chats, SameBut(ms, ns, c),
         NEW j \in Nat, Turned(ms[c], j), NEW r \in Runs,
         ns[c] = Append(Append(ms[c], User(r)), Waiting(r))
  PROVE  Turned(ns[c], j + 1) /\ Asks(TurnsOf(ms), TurnsOf(ns), c, r)
<1>1. PICK t \in Seq(Message) : t = ms[c]
  BY DEF AreThreads
<1>2. PICK u \in Seq(Message) : u = ns[c]
  BY DEF AreThreads
<1>3. User(r) \in Message /\ Waiting(r) \in Message
  BY DEF User, Waiting, Message, Bodies, Media
<1>4. u = Append(Append(t, User(r)), Waiting(r)) /\ Len(t) = 2 * j
  BY <1>1, <1>2 DEF Turned
<1>5. /\ Len(u) = 2 * j + 2 /\ u[2 * j + 2] = Waiting(r)
      /\ \A n \in 1 .. 2 * j : u[n] = t[n]
  BY <1>3, <1>4
<1>6. j + 1 \in Nat /\ 2 * (j + 1) = 2 * j + 2
  OBVIOUS
<1>7. Turned(ns[c], j + 1)
  BY <1>2, <1>5, <1>6 DEF Turned
<1>8. PICK f : f = TurnsOf(ms)[c]
  OBVIOUS
<1>9. PICK g : g = TurnsOf(ns)[c]
  OBVIOUS
<1>10. /\ f \in Seq(Threads!Turn) /\ Len(f) = j /\ DOMAIN f = 1 .. j
       /\ \A n \in 1 .. j : f[n] = TurnOf(ms[c][2 * n])
  BY <1>8, TurnsType
<1>11. PICK i \in Nat : i = j + 1
  BY <1>6
<1>12. /\ g \in Seq(Threads!Turn) /\ Len(g) = i /\ DOMAIN g = 1 .. i
       /\ \A n \in 1 .. i : g[n] = TurnOf(ns[c][2 * n])
  <2>1. Turned(ns[c], i)
    BY <1>7, <1>11
  <2> QED BY <1>9, <2>1, TurnsType
<1>13. ASSUME NEW n \in 1 .. j PROVE g[n] = f[n]
  <2>1. 2 * n \in 1 .. 2 * j /\ n \in 1 .. i
    BY <1>11
  <2>2. ns[c][2 * n] = ms[c][2 * n]
    BY <1>1, <1>2, <1>5, <2>1
  <2> QED BY <1>10, <1>12, <2>1, <2>2
<1>14. g[i] = Threads!Opened(r) /\ Threads!Opened(r) \in Threads!Turn
  <2>1. i \in 1 .. i /\ 2 * i = 2 * j + 2
    BY <1>11
  <2>2. ns[c][2 * i] = Waiting(r)
    BY <1>2, <1>5, <2>1
  <2>3. TurnOf(Waiting(r)) = [of |-> r, open |-> TRUE]
    BY DEF TurnOf, Waiting
  <2> QED BY <1>12, <2>1, <2>2, <2>3 DEF Threads!Opened, Threads!Turn
<1>15. g = Append(f, Threads!Opened(r))
  BY <1>10, <1>11, <1>12, <1>13, <1>14
<1>16. TurnsOf(ns) = Put(TurnsOf(ms), c, g)
  BY <1>9, OtherTurns
<1> QED BY <1>7, <1>8, <1>15, <1>16 DEF Asks, Put

\* What a submit or a regeneration leaves of the shape of the threads.
LEMMA LaunchShape ==
  ASSUME Inv, Inv', Shape, NEW r \in Runs, NEW k, NEW thread, Launch(r, k, thread),
         Even(thread), \A n \in 1 .. Len(thread) :
            \/ thread[n].of = r
            \/ /\ n \in 1 .. Len(messages[activeId])
               /\ thread[n].of = messages[activeId][n].of
  PROVE  /\ Shape' /\ Threads!MaySave /\ activeId \in Chats
         /\ SameBut(messages, messages', activeId) /\ messages'[activeId] = thread
         /\ own' = [own EXCEPT ![activeId] = r]
<1>1. /\ activeId \in Chats /\ messages \in [Chats -> Seq(Message)] /\ run \in [Runs -> RunRec]
      /\ TabsOK' /\ ThreadsOK' /\ StoreOK
  BY DEF Inv, TabsOK, TabsType, ThreadsOK, RunsOK, RunsType
<1>2. /\ SameBut(messages, messages', activeId) /\ messages'[activeId] = thread
      /\ own' = [own EXCEPT ![activeId] = r] /\ Persist
  BY <1>1 DEF Launch, SameBut
<1>3. Posted(activeId, k).st = "post" /\ run' = [run EXCEPT ![r] = Posted(activeId, k)]
  BY DEF Posted, Idle, Launch
<1>4. \A q \in Runs : run'[q].st = "idle" => run[q].st = "idle" /\ q # r
  BY <1>1, <1>3
<1>5. Sized(messages')
  BY <1>2 DEF Shape, Sized, SameBut
<1>6. Unborn(messages)'
  <2> SUFFICES ASSUME NEW q \in Runs, run'[q].st = "idle", NEW d \in Chats
               PROVE  Absent(q, messages'[d])
    BY DEF Unborn
  <2>1. Absent(q, messages[d]) /\ Absent(q, messages[activeId]) /\ q # r
    BY <1>1, <1>4 DEF Shape, Unborn
  <2>2. CASE d = activeId
    BY <1>2, <2>1, <2>2 DEF Absent
  <2>3. CASE d # activeId
    BY <1>2, <2>1, <2>3 DEF SameBut
  <2> QED BY <2>2, <2>3
<1>7. NoneUnborn
  BY <1>4 DEF NoneUnborn
<1> QED BY <1>1, <1>2, <1>5, <1>6, <1>7, PersistShape

\* Submit asks a new question.
LEMMA SubmitRefines ==
  ASSUME Inv, Inv', Shape, NEW r \in Runs, NEW k, Submit(r, k)
  PROVE  Shape' /\ Threads!Next
<1> DEFINE c == activeId
           t == messages[c]
           u == Append(Append(t, User(r)), Waiting(r))
<1>1. Launch(r, k, u) /\ ~locked
  BY DEF Submit, Thread
<1>2. c \in Chats /\ AreThreads(messages) /\ AreThreads(messages') /\ c \in Open
  BY DEF Inv, ThreadsOK, AreThreads, TabsOK, TabsType
<1>3. PICK j \in Nat : Turned(t, j)
  BY <1>2 DEF Shape, Sized, Even
<1>4. /\ Len(t) \in Nat /\ Len(u) = Len(t) + 2 /\ \A n \in 1 .. Len(t) : u[n] = t[n]
      /\ u[Len(t) + 1] = User(r) /\ u[Len(t) + 2] = Waiting(r)
  <2>1. t \in Seq(Message)
    BY <1>2 DEF AreThreads
  <2>2. User(r) \in Message /\ Waiting(r) \in Message
    BY DEF User, Waiting, Message, Bodies, Media
  <2> HIDE DEF t
  <2> QED BY <2>1, <2>2
<1>5. Even(u)
  <2>1. Turned(u, j + 1) /\ j + 1 \in Nat
    BY <1>3, <1>4 DEF Turned
  <2> QED BY <2>1 DEF Even
<1>6. User(r).of = r /\ Waiting(r).of = r
  BY DEF User, Waiting
<1>7. \A n \in 1 .. Len(u) : u[n].of = r \/ (n \in 1 .. Len(t) /\ u[n].of = t[n].of)
  <2> HIDE DEF t, u
  <2> QED BY <1>4, <1>6
<1>8. /\ Shape' /\ Threads!MaySave /\ SameBut(messages, messages', c) /\ messages'[c] = u
      /\ own' = [own EXCEPT ![c] = r]
  BY <1>1, <1>5, <1>7, LaunchShape
<1>9. own[c] = NoRun
  BY <1>1, <1>2 DEF Inv, RunsOK, OneRunPerTab
<1>10. Threads!Fresh(r)
  BY <1>1, FreshRun DEF Launch
<1>11. Asks(TurnsOf(messages), TurnsOf(messages'), c, r)
  <2>1. PICK ms : ms = messages
    OBVIOUS
  <2>2. PICK ns : ns = messages'
    OBVIOUS
  <2>3. PICK d \in Chats : d = c
    BY <1>2
  <2>4. ns[d] = Append(Append(ms[d], User(r)), Waiting(r)) /\ Turned(ms[d], j)
        /\ AreThreads(ms) /\ AreThreads(ns) /\ SameBut(ms, ns, d)
    BY <1>2, <1>3, <1>8, <2>1, <2>2, <2>3
  <2>5. Asks(TurnsOf(ms), TurnsOf(ns), d, r)
    BY <2>4, AskTurn
  <2> QED BY <2>1, <2>2, <2>3, <2>5
<1>12. Threads!Ask(c, r)
  BY <1>8, <1>9, <1>10, <1>11 DEF Threads!Ask, Asks
<1> QED BY <1>2, <1>8, <1>12 DEF Threads!Next
\* "Once more" opens the last turn again.
Reopens(T, U, c, r) ==
  T[c] # << >> /\ U = [T EXCEPT ![c][Len(T[c])] = Threads!Opened(r)]

LEMMA AgainTurn ==
  ASSUME NEW ms, NEW ns, NEW c \in Chats, NEW j \in Nat, ButLast(ms, ns, c, j), NEW r \in Runs,
         ns[c][2 * j] = Waiting(r)
  PROVE  Reopens(TurnsOf(ms), TurnsOf(ns), c, r)
<1>1. PICK T : T = TurnsOf(ms)
  OBVIOUS
<1>2. PICK U : U = TurnsOf(ns)
  OBVIOUS
<1>3. PICK x : x = TurnOf(ms[c][2 * j])
  OBVIOUS
<1>4. TurnOf(ns[c][2 * j]) = Threads!Opened(r)
  BY DEF TurnOf, Waiting, Threads!Opened
<1>5. LastPut(T, U, c, j, x, Threads!Opened(r))
  BY <1>1, <1>2, <1>3, <1>4, LastTurn
<1>6. T[c] # << >> /\ Len(T[c]) = j /\ U = Put(T, c, Put(T[c], j, Threads!Opened(r)))
  BY <1>5 DEF LastPut
<1>7. Put(T, c, Put(T[c], j, Threads!Opened(r))) = [T EXCEPT ![c][Len(T[c])] = Threads!Opened(r)]
  BY <1>6 DEF Put
<1> QED BY <1>1, <1>2, <1>6, <1>7 DEF Reopens

LEMMA RegenerateRefines ==
  ASSUME Inv, Inv', Shape, NEW r \in Runs, NEW k, Regenerate(r, k)
  PROVE  Shape' /\ Threads!Next
<1> DEFINE c == activeId
           t == messages[c]
           l == Len(t)
           u == [t EXCEPT ![l] = Waiting(r)]
<1>2. c \in Chats /\ AreThreads(messages) /\ AreThreads(messages') /\ c \in Open
  BY DEF Inv, ThreadsOK, AreThreads, TabsOK, TabsType
<1>3. t \in Seq(Message) /\ Paired(t) /\ \E n \in DOMAIN t : t[n].media = k
  BY <1>2 DEF Inv, ThreadsOK, Regenerate, Thread
<1>4. l \in Nat /\ l >= 2 /\ DOMAIN t = 1 .. l /\ t[l].role = "assistant"
  <2> HIDE DEF t
  <2>1. t # << >>
    BY <1>3
  <2> QED BY <1>3, <2>1, PairedLast
<1>1. Launch(r, k, u) /\ ~busy[c]
  BY <1>4 DEF Regenerate, Thread, LastOf
<1>5. Len(u) = l /\ u[l] = Waiting(r) /\ \A n \in 1 .. l : n # l => u[n] = t[n]
  <2> HIDE DEF t
  <2>1. PICK m \in Message : m = Waiting(r)
    BY DEF Waiting, Message, Bodies, Media
  <2>2. t \in Seq(Message) /\ l \in Nat /\ l \in DOMAIN t /\ DOMAIN t = 1 .. l
    BY <1>3, <1>4
  <2> DEFINE v == [t EXCEPT ![l] = m]
  <2>3. v \in Seq(Message) /\ Len(v) = l
    BY <2>2
  <2>4. v[l] = m /\ \A n \in 1 .. l : n # l => v[n] = t[n]
    BY <2>2
  <2>5. u = v
    BY <2>1
  <2> HIDE DEF u, v
  <2> QED BY <2>1, <2>3, <2>4, <2>5
<1>6. PICK j \in Nat : l = 2 * j
  BY <1>2 DEF Shape, Sized, Even, Turned
<1>7. Even(u)
  BY <1>5, <1>6 DEF Even, Turned
<1>8. \A n \in 1 .. Len(u) : u[n].of = r \/ (n \in 1 .. Len(t) /\ u[n].of = t[n].of)
  <2>1. Waiting(r).of = r
    BY DEF Waiting
  <2> HIDE DEF t, u
  <2> QED BY <1>5, <2>1
<1>9. /\ Shape' /\ Threads!MaySave /\ SameBut(messages, messages', c) /\ messages'[c] = u
      /\ own' = [own EXCEPT ![c] = r]
  BY <1>1, <1>7, <1>8, LaunchShape
<1>10. own[c] = NoRun
  BY <1>1, <1>2 DEF Inv, RunsOK, OneRunPerTab
<1>11. Threads!Fresh(r)
  BY <1>1, FreshRun DEF Launch
<1>12. Reopens(TurnsOf(messages), TurnsOf(messages'), c, r)
  <2>1. PICK ms : ms = messages
    OBVIOUS
  <2>2. PICK ns : ns = messages'
    OBVIOUS
  <2>3. PICK d \in Chats : d = c
    BY <1>2
  <2> HIDE DEF t, u
  <2>4. /\ AreThreads(ms) /\ AreThreads(ns) /\ SameBut(ms, ns, d) /\ ms[d] = t /\ ns[d] = u
    BY <1>2, <1>9, <2>1, <2>2, <2>3 DEF t
  <2>5. ButLast(ms, ns, d, j) /\ ns[d][2 * j] = Waiting(r)
    BY <1>4, <1>5, <1>6, <2>4 DEF ButLast, Turned
  <2>6. Reopens(TurnsOf(ms), TurnsOf(ns), d, r)
    BY <2>5, AgainTurn
  <2> QED BY <2>1, <2>2, <2>3, <2>6
<1>13. Threads!Again(c, r)
  BY <1>9, <1>10, <1>11, <1>12 DEF Threads!Again, Reopens
<1> QED BY <1>2, <1>9, <1>13 DEF Threads!Next

\* The cross on a tab closes its conversation.
LEMMA CloseTabRefines ==
  ASSUME Inv, Inv', Shape, NEW c \in Chats, CloseTab(c)
  PROVE  Shape' /\ Threads!Next
<1>1. /\ messages \in [Chats -> Seq(Message)] /\ run \in [Runs -> RunRec]
      /\ TabsOK' /\ ThreadsOK' /\ StoreOK
  BY DEF Inv, ThreadsOK, RunsOK, RunsType
<1>2. /\ messages' = [messages EXCEPT ![c] = << >>] /\ own' = [own EXCEPT ![c] = NoRun]
      /\ run' = Abort(own[c]) /\ Persist
  BY DEF CloseTab
<1>3. \A q \in Runs : run'[q].st = run[q].st
  BY <1>1, <1>2 DEF Abort, RunRec
<1>4. messages'[c] = << >> /\ SameBut(messages, messages', c)
  BY <1>1, <1>2 DEF SameBut
<1>5. Turned(messages'[c], 0) /\ 0 \in Nat
  BY <1>4 DEF Turned
<1>6. Sized(messages')
  BY <1>4, <1>5 DEF Shape, Sized, SameBut, Even
<1>7. Unborn(messages)'
  <2>1. \A q \in Runs : \A d \in Chats : Absent(q, messages[d]) => Absent(q, messages'[d])
    BY <1>4 DEF Absent, SameBut
  <2> QED BY <1>3, <2>1 DEF Unborn, Shape
<1>8. NoneUnborn
  BY <1>3 DEF NoneUnborn
<1>9. Shape' /\ Threads!MaySave
  BY <1>1, <1>2, <1>6, <1>7, <1>8, PersistShape
<1>10. TurnsOf(messages')[c] = << >>
  <2>1. TurnsOf(messages')[c] = [n \in 1 .. 0 |-> TurnOf(messages'[c][2 * n])]
    BY <1>5, TurnsAt
  <2> QED BY <2>1
<1>11. TurnsOf(messages') = [TurnsOf(messages) EXCEPT ![c] = << >>]
  BY <1>4, <1>10, OtherTurns DEF Put
<1>12. Threads!Close(c)
  BY <1>2, <1>11 DEF Threads!Close
<1> QED BY <1>9, <1>12 DEF Threads!Next

\* A reload goes back to what was saved.
LEMMA ReloadRefines ==
  ASSUME Inv, Inv', Shape, Reload
  PROVE  Shape' /\ Threads!Next
<1>1. /\ run \in [Runs -> RunRec] /\ TabsOK' /\ ThreadsOK' /\ StoreOK
  BY DEF Inv, ThreadsOK, RunsOK, RunsType
<1>2. NoneUnborn
  <2>1. Ended.st = "done"
    BY DEF Ended, Idle
  <2> QED BY <1>1, <2>1 DEF NoneUnborn, Reload
<1>3. own' = [c \in Chats |-> NoRun]
  BY DEF Reload
<1>4. AllAlike(store.messages, messages')
  <2>1. CASE store.chats # << >>
    BY <2>1, AlikeSelf DEF Reload
  <2>2. CASE store.chats = << >>
    BY <2>2 DEF Reload, Shape, EmptyStore, AllAlike, Alike
  <2> QED BY <2>1, <2>2
<1>5. TurnsOf(messages') = TurnsOf(store.messages) /\ Sized(messages')
  BY <1>4, AlikeTurns DEF Shape
<1>6. Unborn(messages)'
  BY <1>2, <1>4, AlikeUnborn DEF Shape, Unborn
<1>7. Threads!Reload
  BY <1>3, <1>5 DEF Threads!Reload, Threads!Nobody
<1>8. Shape' /\ Threads!MaySave
  <2>1. CASE UNCHANGED store
    <3>1. Unborn(store.messages)'
      BY <1>2, <2>1 DEF Unborn, NoneUnborn, Shape
    <3>2. Sized(store'.messages) /\ EmptyStore'
      BY <2>1 DEF Shape, EmptyStore
    <3>3. Threads!MaySave
      BY <2>1 DEF Threads!MaySave
    <3> QED BY <1>5, <1>6, <3>1, <3>2, <3>3 DEF Shape
  <2>2. CASE Persist
    BY <1>1, <1>2, <1>5, <1>6, <2>2, PersistShape
  <2> QED BY <2>1, <2>2 DEF Reload
<1> QED BY <1>7, <1>8 DEF Threads!Next
\* The steps of a run touch no turn until its last one settles its own.
LEMMA RunStepRefines ==
  ASSUME Inv, Inv', Shape, Polled, NEW r \in Runs, RunStep(r)
  PROVE  Shape' /\ Threads!Next
<1> USE DEF Bodies
<1>1. /\ run \in [Runs -> RunRec] /\ \A q \in Runs : run[q] \in RunRec
      /\ TabsOK' /\ ThreadsOK' /\ StoreOK /\ run[r].chat \in Chats
  BY DEF Inv, ThreadsOK, RunsOK, RunsType, RunRec
<1>2. ASSUME Live(r), NEW b \in Bodies, NEW md \in Media, Finish(r, b, md)
      PROVE  Shape' /\ Threads!Next
  BY <1>2, FinishRefines
<1>3. ASSUME Live(r), Same(r), NEW b \in Bodies, NoneUnborn,
             SetPendingText(run[r].chat, b) \/ UNCHANGED messages
      PROVE  Shape' /\ Threads!Next
  <2>1. own' = own /\ UNCHANGED store
    BY <1>3 DEF Same
  <2>2. AllAlike(messages, messages')
    <3>1. CASE UNCHANGED messages
      BY <3>1, AlikeSelf
    <3>2. CASE SetPendingText(run[r].chat, b)
      <4>1. \A d \in Chats :
              /\ Len(messages'[d]) = Len(messages[d])
              /\ \A n \in 1 .. Len(messages[d]) : messages'[d][n].of = messages[d][n].of
        BY <1>1, <3>2, PendingText
      <4>2. \A d \in Chats : \A n \in 1 .. Len(messages[d]) :
              messages'[d][n].pending = messages[d][n].pending
        BY <1>3, <3>2, PendingOnly
      <4> QED BY <4>1, <4>2 DEF AllAlike, Alike
    <3> QED BY <1>3, <3>1, <3>2
  <2> QED BY <1>1, <1>3, <2>1, <2>2, TouchRefines
<1>n. ASSUME NEW x, run' = [run EXCEPT ![r] = x], x.st # "idle" PROVE NoneUnborn
  BY <1>1, <1>n DEF NoneUnborn
<1>g. ASSUME NEW l, Goto(r, l), l # "idle" PROVE NoneUnborn
  BY <1>1, <1>g DEF Goto, NoneUnborn, RunRec
<1>s. ASSUME NEW d, Sleep(r, d) PROVE NoneUnborn
  BY <1>1, <1>s DEF Sleep, NoneUnborn, RunRec
<1>4. CASE RunAborted(r) \/ PostFails(r) \/ PostAnswers(r) \/ StreamEnds(r) \/ StreamFails(r)
  BY <1>2, <1>4 DEF RunAborted, PostFails, PostAnswers, StreamEnds, StreamFails,
                    At, Live, LiveSts, Media
<1>5. CASE PollDone(r) \/ PollFails(r)
  <2>1. run[r].kind \in Media /\ "none" \in Media /\ Live(r)
    BY <1>1, <1>5 DEF PollDone, PollFails, At, Live, LiveSts, Polled, RunRec, Media
  <2> QED BY <1>2, <1>5, <2>1 DEF PollDone, PollFails
<1>6. CASE PostQueued(r) \/ StreamOpens(r)
  BY <1>3, <1>g, <1>6 DEF PostQueued, StreamOpens, At, Live, LiveSts
<1>7. CASE DeadlinePasses(r)
  <2>1. NoneUnborn
    BY <1>1, <1>7 DEF DeadlinePasses, NoneUnborn, RunRec
  <2> QED BY <1>3, <1>7, <2>1 DEF DeadlinePasses, Live, LiveSts
<1>8. CASE PollWaits(r) \/ PollRetries(r)
  BY <1>3, <1>s, <1>8 DEF PollWaits, PollRetries, Sleep, At, Live, LiveSts
<1>9. CASE Tick(r)
  <2>1. Live(r) /\ "none" \in Media
    BY <1>9 DEF Tick, At, Live, LiveSts, Media
  <2>2. CASE Goto(r, "poll") /\ UNCHANGED messages /\ Same(r)
    BY <1>3, <1>g, <2>1, <2>2
  <2>3. ASSUME NEW d, Sleep(r, d) PROVE Shape' /\ Threads!Next
    BY <1>3, <1>s, <2>1, <2>3 DEF Sleep
  <2>4. CASE Finish(r, "error", "none")
    BY <1>2, <2>1, <2>4
  <2> QED BY <1>9, <2>2, <2>3, <2>4 DEF Tick
<1>10. CASE StreamChunk(r)
  <2>1. PICK b \in Bodies : SetPendingText(run[r].chat, b) \/ UNCHANGED messages
    BY <1>10 DEF StreamChunk
  <2>2. NoneUnborn
    <3>1. PICK a : run' = [run EXCEPT ![r].acc = a]
      BY <1>10 DEF StreamChunk
    <3> QED BY <1>1, <3>1 DEF NoneUnborn, RunRec
  <2> QED BY <1>3, <1>10, <2>1, <2>2 DEF StreamChunk, At, Live, LiveSts
<1> QED BY <1>4, <1>5, <1>6, <1>7, <1>8, <1>9, <1>10 DEF RunStep, Ends, Polls

\* Every step of the playground is a step of ChatThreads, or leaves it alone.
LEMMA NextRefines ==
  ASSUME IInv, IInv', Shape, [Next]_vars
  PROVE  Shape' /\ (Threads!Next \/ UNCHANGED <<TurnsOf(messages), own, TurnsOf(store.messages)>>)
<1>0. Inv /\ Inv' /\ Polled /\ TabsOK' /\ ThreadsOK' /\ StoreOK /\ run \in [Runs -> RunRec]
  BY DEF IInv, Inv, RunsOK, RunsType
<1>a. AllAlike(messages, messages)
  BY AlikeSelf
<1>1. CASE UNCHANGED vars
  BY <1>0, <1>1 DEF vars, Shape, Sized, Unborn, EmptyStore
<1>2. CASE NewChat \/ \E c \in Chats : SwitchChat(c)
  <2>1. messages' = messages /\ own' = own /\ run' = run /\ Persist
    BY <1>2 DEF NewChat, SwitchChat
  <2>2. NoneUnborn
    BY <2>1 DEF NoneUnborn
  <2> QED BY <1>0, <1>a, <2>1, <2>2, TouchRefines
<1>3. CASE Stop
  <2>1. messages' = messages /\ own' = own /\ UNCHANGED store
    BY <1>3 DEF Stop
  <2>2. NoneUnborn
    BY <1>0, <1>3 DEF Stop, Abort, NoneUnborn, RunRec
  <2> QED BY <1>0, <1>a, <2>1, <2>2, TouchRefines
<1>4. CASE Reload
  BY <1>0, <1>4, ReloadRefines
<1>5. ASSUME NEW c \in Chats, CloseTab(c) PROVE Shape' /\ Threads!Next
  BY <1>0, <1>5, CloseTabRefines
<1>6. ASSUME NEW r \in Runs, RunStep(r) PROVE Shape' /\ Threads!Next
  BY <1>0, <1>6, RunStepRefines
<1>7. ASSUME NEW r \in Runs, NEW k \in Kinds, Submit(r, k) \/ Regenerate(r, k)
      PROVE  Shape' /\ Threads!Next
  BY <1>0, <1>7, SubmitRefines, RegenerateRefines
<1> QED BY <1>1, <1>2, <1>3, <1>4, <1>5, <1>6, <1>7 DEF Next

LEMMA InitRefines == Init => Shape /\ Threads!Init
<1> SUFFICES ASSUME Init PROVE Shape /\ Threads!Init
  OBVIOUS
<1>1. messages = [d \in Chats |-> << >>] /\ own = [d \in Chats |-> NoRun]
  BY DEF Init
<1>2. store.messages = messages
  BY <1>1 DEF Init, Pack, NoStore
<1>3. \A c \in Chats : messages[c] = << >> /\ Turned(messages[c], 0)
  BY <1>1 DEF Turned
<1>4. Sized(messages) /\ Unborn(messages)
  BY <1>3 DEF Sized, Even, Unborn, Absent
<1>5. TurnsOf(messages) = [c \in Chats |-> << >>]
  <2>1. ASSUME NEW c \in Chats PROVE TurnsOf(messages)[c] = << >>
    <3>1. PICK ms : ms = messages
      OBVIOUS
    <3>2. Turned(ms[c], 0) /\ 0 \in Nat
      BY <1>3, <3>1
    <3>3. TurnsOf(ms)[c] = [n \in 1 .. 0 |-> TurnOf(ms[c][2 * n])]
      BY <3>2, TurnsAt
    <3> QED BY <3>1, <3>3
  <2> QED BY <2>1, TurnsMap
<1> QED BY <1>1, <1>2, <1>3, <1>4, <1>5 DEF Shape, EmptyStore, Threads!Init, Threads!Nobody

\* The playground implements ChatThreads: answers land in the turn they were
\* asked for, whichever tab is shown, and a turn that has settled changes only
\* when it is generated again, closed or reloaded (submit, finishAssistant,
\* setPendingText, persist, restore).
THEOREM PlaygroundImplementsThreads == Spec => ImplementsThreads
<1>1. Init => Shape /\ Threads!Init
  BY InitRefines
<1>2. IInv /\ IInv' /\ Shape /\ [Next]_vars =>
        Shape' /\ [Threads!Next]_<<TurnsOf(messages), own, TurnsOf(store.messages)>>
  BY NextRefines
<1> QED BY <1>1, <1>2, Invariant, PTL DEF Spec, ImplementsThreads, Threads!Spec
=============================================================================
