---------------------------- MODULE AgentMailbox ----------------------------
(***************************************************************************)
(* The mailbox of one agent that has no URL of its own:                    *)
(* internal/a2aproxy/session.go, with the callers that use it in proxy.go, *)
(* groups.go and deliver.go.                                               *)
(*                                                                         *)
(* A caller of /a2a/u/{name} pushes a JSON-RPC call and waits up to 60 s   *)
(* for the answer; a group message is pushed and forgotten.  The agent     *)
(* holds GET /a2a/connect to take one item and answers a call with         *)
(* POST /a2a/connect, which finds the caller by the JSON-RPC id.  Ids are  *)
(* chosen by the clients, so two calls may well share one.                 *)
(*                                                                         *)
(* One action is one critical section of agentBox.mu with the channel      *)
(* operations that belong to it.                                           *)
(***************************************************************************)
EXTENDS Integers, Sequences, FiniteSets, FiniteSetsExt

CONSTANTS
  Calls,        \* JSON-RPC calls whose caller waits for an answer
  Posts,        \* group messages, pushed without a reply channel
  Polls,        \* connections the agent can hold at a time
  Ids,          \* JSON-RPC ids
  Id,           \* rpcID of a call's or a message's body
  QueueMax,     \* agentQueueMax
  NoId, NoItem, NoPoll

Items == Calls \cup Posts
Entry == [item : Items, reply : BOOLEAN]    \* queuedCall

ASSUME ItemsAssumption ==
  /\ Calls \cap Posts = {} /\ NoItem \notin Items
  /\ NoPoll \notin Polls /\ IsFiniteSet(Polls)
ASSUME IdAssumption ==
  /\ NoId \notin Ids
  /\ Id \in [Items -> Ids \cup {NoId}]
  /\ \A p \in Posts : Id[p] # NoId
ASSUME QueueMaxAssumption == QueueMax \in Nat \ {0}

VARIABLES
  q,          \* agentBox.q
  waiter,     \* agentBox.waiter: the connection whose channel it is
  waitReply,  \* agentBox.waitReply: id |-> the call whose reply channel it is
  chan,       \* what is buffered in a connection's channel
  poll,       \* a connection: closed, or open in TakeAgent's select
  call,       \* a call's handler: new, wait, or the status it answered
  post,       \* group messages not yet pushed
  reply,      \* what is buffered in a call's reply channel
  answer,     \* the item whose answer a 200 carries
  sending,    \* ReplyAgent between its lock and its send: item |-> call
  taken,      \* history: the items TakeAgent returned, in order
  replied,    \* history: the items the agent has answered
  refused     \* history: calls whose first answer got 404 although their caller
              \* was waiting

box    == <<q, waiter, waitReply, chan>>
caller == <<call, post, answer>>
agent  == <<poll, taken, replied, refused>>
vars   == <<box, caller, agent, reply, sending>>
-----------------------------------------------------------------------------
(***************************************************************************)
(* Faulty variants, one plausible mistake each; not part of the            *)
(* specification.                                                          *)
(***************************************************************************)
FullLate           == Len(q) > QueueMax
ForgetNot(wr, i)   == wr
KeptById(i)        == {n \in DOMAIN q : Id[q[n].item] # i}
CallOfAny(i) ==
  IF \E j \in Ids : waitReply[j] # NoItem
  THEN waitReply[CHOOSE j \in Ids : waitReply[j] # NoItem] ELSE NoItem
PushTwice(x, waits) ==
  /\ waiter # NoPoll
  /\ chan' = [chan EXCEPT ![waiter] = x] /\ waiter' = NoPoll
  /\ q' = Append(q, [item |-> x, reply |-> waits])
  /\ UNCHANGED waitReply
TakeOnlyWaits(k) ==
  /\ poll[k] = "closed" /\ waiter = NoPoll
  /\ waiter' = k
  /\ poll' = [poll EXCEPT ![k] = "open"]
  /\ UNCHANGED <<q, waitReply, chan, caller, taken, replied, refused, reply, sending>>
PushUnregistered(x, waits) ==
  /\ waiter # NoPoll
  /\ chan' = [chan EXCEPT ![waiter] = x] /\ waiter' = NoPoll
  /\ UNCHANGED <<q, waitReply>>

Waits(x) == x \in Calls /\ call[x] = "wait"
Forget(wr, i) == [wr EXCEPT ![i] = NoItem]
InQueue == {q[i].item : i \in DOMAIN q}

\* The queue is full: the oldest entry goes, and with it its reply channel.
Full == Len(q) >= QueueMax
MakeRoom(wr) ==
  IF ~Full THEN [q |-> q, wr |-> wr]
  ELSE [q |-> Tail(q),
        wr |-> IF Head(q).reply /\ Id[Head(q).item] # NoId
               THEN Forget(wr, Id[Head(q).item]) ELSE wr]

\* What CancelAgent keeps of the queue, in its order.
Kept(i)       == {n \in DOMAIN q : ~(q[n].reply /\ Id[q[n].item] = i)}
Increasing(D) == {f \in [1 .. Cardinality(D) -> D] :
                    \A a, b \in DOMAIN f : a < b => f[a] < f[b]}
-----------------------------------------------------------------------------
Init ==
  /\ q = << >> /\ waiter = NoPoll
  /\ waitReply = [i \in Ids |-> NoItem]
  /\ chan = [k \in Polls |-> NoItem]
  /\ poll = [k \in Polls |-> "closed"]
  /\ call = [c \in Calls |-> "new"]
  /\ post = Posts
  /\ reply = [c \in Calls |-> NoItem]
  /\ answer = [c \in Calls |-> NoItem]
  /\ sending = [x \in Items |-> NoItem]
  /\ taken = << >> /\ replied = {} /\ refused = {}

\* PushAgent, under the lock.
PushAgent(x, waits) ==
  LET wr   == IF waits THEN [waitReply EXCEPT ![Id[x]] = x] ELSE waitReply
      room == MakeRoom(wr)
  IN \/ /\ waiter # NoPoll
        /\ chan' = [chan EXCEPT ![waiter] = x]
        /\ waiter' = NoPoll
        /\ waitReply' = wr
        /\ UNCHANGED q
     \/ /\ waiter = NoPoll
        /\ q' = Append(room.q, [item |-> x, reply |-> waits])
        /\ waitReply' = room.wr
        /\ UNCHANGED <<waiter, chan>>

\* Proxy.connected: a body without an id is refused, any other is pushed.
Connected(c) ==
  /\ call[c] = "new"
  /\ \/ /\ Id[c] = NoId
        /\ call' = [call EXCEPT ![c] = "400"]
        /\ UNCHANGED box
     \/ /\ Id[c] # NoId
        /\ PushAgent(c, TRUE)
        /\ call' = [call EXCEPT ![c] = "wait"]
  /\ UNCHANGED <<post, answer, agent, reply, sending>>

\* ForwardPosted pushes the message to this agent.
ForwardPosted(p) ==
  /\ p \in post
  /\ PushAgent(p, FALSE)
  /\ post' = post \ {p}
  /\ UNCHANGED <<call, answer, agent, reply, sending>>

\* connected's select: the answer is there.
GetAnswer(c) ==
  /\ call[c] = "wait" /\ reply[c] # NoItem
  /\ call' = [call EXCEPT ![c] = "200"]
  /\ answer' = [answer EXCEPT ![c] = reply[c]]
  /\ UNCHANGED <<box, post, agent, reply, sending>>

\* connected's select: 60 s are over or the client has left; CancelAgent.
CancelAgent(c) ==
  /\ call[c] = "wait"
  /\ waitReply' = Forget(waitReply, Id[c])
  /\ \E f \in Increasing(Kept(Id[c])) : q' = [n \in DOMAIN f |-> q[f[n]]]
  /\ call' = [call EXCEPT ![c] = "504"]
  /\ UNCHANGED <<waiter, chan, post, answer, agent, reply, sending>>

\* GET /a2a/connect, TakeAgent's first critical section.  A second connection
\* gets 409 and stays closed.
TakeAgent(k) ==
  /\ poll[k] = "closed"
  /\ \/ /\ q # << >>
        /\ taken' = Append(taken, Head(q).item)
        /\ q' = Tail(q)
        /\ UNCHANGED <<waiter, poll>>
     \/ /\ q = << >> /\ waiter = NoPoll
        /\ waiter' = k
        /\ poll' = [poll EXCEPT ![k] = "open"]
        /\ UNCHANGED <<q, taken>>
  /\ UNCHANGED <<waitReply, chan, caller, replied, refused, reply, sending>>

\* TakeAgent's select: an item has come.
Receive(k) ==
  /\ poll[k] = "open" /\ chan[k] # NoItem
  /\ taken' = Append(taken, chan[k])
  /\ chan' = [chan EXCEPT ![k] = NoItem]
  /\ poll' = [poll EXCEPT ![k] = "closed"]
  /\ UNCHANGED <<q, waiter, waitReply, caller, replied, refused, reply, sending>>

\* TakeAgent's select: 25 s are over or the agent has left.  An item that came
\* too late goes back to the front of the queue, without its reply channel.
Reclaim(k) == IF chan[k] = NoItem THEN q
              ELSE <<[item |-> chan[k], reply |-> FALSE]>> \o q
Expire(k) ==
  /\ poll[k] = "open"
  /\ waiter' = IF waiter = k THEN NoPoll ELSE waiter
  /\ q' = Reclaim(k)
  /\ chan' = [chan EXCEPT ![k] = NoItem]
  /\ poll' = [poll EXCEPT ![k] = "closed"]
  /\ UNCHANGED <<waitReply, caller, taken, replied, refused, reply, sending>>

\* The caller whose reply channel waitReply holds under an id.
CallOf(i) == waitReply[i]

\* POST /a2a/connect: the agent answers something it took, once or again.
ReplyAgent(x) ==
  LET i == Id[x]
      c == CallOf(i)
  IN /\ x \in {taken[n] : n \in DOMAIN taken} /\ sending[x] = NoItem
     /\ sending' = [sending EXCEPT ![x] = c]
     /\ waitReply' = Forget(waitReply, i)
     /\ replied' = replied \cup {x}
     /\ refused' = IF c = NoItem /\ x \notin replied /\ Waits(x)
                   THEN refused \cup {x} ELSE refused
     /\ UNCHANGED <<q, waiter, chan, caller, poll, taken, reply>>

\* The non-blocking send, after the unlock.
ReplySend(x) ==
  LET c == sending[x]
  IN /\ c # NoItem
     /\ reply' = [reply EXCEPT ![c] = IF @ = NoItem THEN x ELSE @]
     /\ sending' = [sending EXCEPT ![x] = NoItem]
     /\ UNCHANGED <<box, caller, agent>>

Next ==
  \/ \E c \in Calls : Connected(c) \/ GetAnswer(c) \/ CancelAgent(c)
  \/ \E p \in Posts : ForwardPosted(p)
  \/ \E k \in Polls : TakeAgent(k) \/ Receive(k) \/ Expire(k)
  \/ \E x \in Items : ReplyAgent(x) \/ ReplySend(x)

Spec == Init /\ [][Next]_vars

\* The agent opens GET /a2a/connect again whenever it is closed, and no
\* connection outlives its 25 s.  Nobody has to call, post or answer.
FairSpec == Spec /\ \A k \in Polls : WF_vars(TakeAgent(k))
                                     /\ WF_vars(Receive(k) \/ Expire(k))
-----------------------------------------------------------------------------
\* Every variable keeps its type.
TypeOK ==
  /\ q \in Seq(Entry) /\ taken \in Seq(Items)
  /\ waiter \in Polls \cup {NoPoll}
  /\ waitReply \in [Ids -> Calls \cup {NoItem}]
  /\ chan \in [Polls -> Items \cup {NoItem}]
  /\ poll \in [Polls -> {"closed", "open"}]
  /\ call \in [Calls -> {"new", "wait", "200", "400", "504"}]
  /\ reply \in [Calls -> Items \cup {NoItem}]
  /\ answer \in [Calls -> Items \cup {NoItem}]
  /\ sending \in [Items -> Calls \cup {NoItem}]
  /\ post \subseteq Posts /\ replied \subseteq Items /\ refused \subseteq Items

\* A reply channel never outlives its caller: whatever order a push, a drop, an
\* answer and a deadline come in, an entry of waitReply names a caller that waits,
\* and no queued call still holds the channel of one that has given up.
WaitReplyLive ==
  /\ \A i \in Ids : waitReply[i] # NoItem
       => call[waitReply[i]] = "wait" /\ Id[waitReply[i]] = i
  /\ \A n \in DOMAIN q : q[n].reply => call[q[n].item] # "504"

\* A caller that gets 200 gets an answer to an item with its own id, also when
\* the answer was on its way while callers came and went.
AnswerMatches ==
  \A c \in Calls : call[c] = "200" => answer[c] # NoItem /\ Id[answer[c]] = Id[c]

\* An item is in one place only (queue, a connection's channel, or the agent's
\* hands), however often a late one is put back: the agent gets it once.
HandedOnce ==
  LET Places(x) == {<<"queue", n>> : n \in {m \in DOMAIN q : q[m].item = x}}
                     \cup {<<"chan", k>> : k \in {h \in Polls : chan[h] = x}}
                     \cup {<<"taken", n>> : n \in {m \in DOMAIN taken : taken[m] = x}}
  IN \A x \in Items : Cardinality(Places(x)) <= 1

\* A group message leaves the mailbox only for the agent's hands, or as the oldest
\* of a full queue whose place a push takes: neither a caller's deadline, which
\* filters the queue by id, nor a connection that closes takes one away.
InTransit(x) == x \in InQueue \/ \E k \in Polls : chan[k] = x
DroppedByPush(x) ==
  /\ Full /\ Head(q).item = x
  /\ \E e \in Entry : q' = Append(Tail(q), e)
PostsKept ==
  [][\A p \in Posts : InTransit(p) /\ ~InTransit(p)'
       => p \in {taken'[n] : n \in DOMAIN taken'} \/ DroppedByPush(p)]_vars

\* The queue is longer than agentQueueMax by at most the items that were put
\* back, one for each connection that was open while it filled up.
Open == {k \in Polls : poll[k] = "open"}
BacklogBounded ==
  Len(q) + Cardinality(Open) <= QueueMax + Cardinality(Polls)

\* A caller loses its answer only to a second item with its id: as long as no
\* other item with that id has been pushed, the agent's first answer is accepted.
AnswerAccepted ==
  \A x \in refused : \E y \in Items \ {x} :
    Id[y] = Id[x] /\ y \notin post /\ (y \in Calls => call[y] # "new")

\* A group message does not stay in the mailbox of an agent that keeps
\* connecting, although it may be put back behind a connection that waits.
PostDelivered == \A p \in Posts : InTransit(p) ~> ~InTransit(p)

\* docs/a2a.md: an answer gets 204 while the call it answers is still waiting.
FirstAnswerAccepted == refused = {}
=============================================================================
