---------------------------- MODULE MailboxProofs ----------------------------
(***************************************************************************)
(* Proofs about AgentMailbox, for every set of calls, messages and         *)
(* connections, every assignment of ids and every size of the queue.       *)
(***************************************************************************)
EXTENDS AgentMailbox, FiniteSetTheorems, TLAPS

(***************************************************************************)
(* The inductive invariant: types; what has an id keeps it on its way from *)
(* waitReply through sending and the reply channel to the caller, and has  *)
(* left waitReply by then; an open connection is counted against the bound *)
(* of the queue.                                                           *)
(***************************************************************************)
SendingMatches == \A x \in Items : sending[x] # NoItem => Id[sending[x]] = Id[x]
ReplyMatches   == \A c \in Calls : reply[c] # NoItem => Id[reply[c]] = Id[c]
Unlinked       == \A c \in Calls :
                    call[c] = "new" \/ (\E i \in Ids : waitReply[i] = c)
                      => reply[c] = NoItem /\ \A x \in Items : sending[x] # c
HasId          == /\ \A c \in Calls : call[c] = "wait" => Id[c] \in Ids
                  /\ \A n \in DOMAIN taken : Id[taken[n]] \in Ids
                  /\ \A n \in DOMAIN q : Id[q[n].item] \in Ids
                  /\ \A k \in Polls : chan[k] # NoItem => Id[chan[k]] \in Ids
EntriesLive    == \A i \in Ids : waitReply[i] # NoItem
                    => call[waitReply[i]] = "wait" /\ Id[waitReply[i]] = i
QueuedLive     == \A n \in DOMAIN q : q[n].reply
                    => q[n].item \in Calls /\ call[q[n].item] # "504"
IInv == /\ TypeOK /\ HasId /\ BacklogBounded /\ Unlinked /\ QueuedLive
        /\ EntriesLive /\ SendingMatches /\ ReplyMatches /\ AnswerMatches

USE ItemsAssumption, IdAssumption, QueueMaxAssumption

LEMMA CallsAreItems == Calls \subseteq Items /\ NoItem \notin Calls
  BY DEF Items

\* A filtered queue is a queue, of elements of the queue, and no longer.
LEMMA FilteredQueue ==
  ASSUME TypeOK, NEW D \in SUBSET DOMAIN q, NEW f \in Increasing(D)
  PROVE  LET s == [n \in DOMAIN f |-> q[f[n]]]
         IN /\ s \in Seq(Entry) /\ Len(s) \in Nat /\ Len(s) <= Len(q)
            /\ \A n \in DOMAIN s : \E m \in DOMAIN q : s[n] = q[m]
<1>1. q \in Seq(Entry) /\ DOMAIN q = 1 .. Len(q) /\ Len(q) \in Nat
  BY DEF TypeOK
<1>2. IsFiniteSet(1 .. Len(q)) /\ Cardinality(1 .. Len(q)) = Len(q)
  BY <1>1, FS_Interval
<1>3. IsFiniteSet(D) /\ Cardinality(D) \in Nat /\ Cardinality(D) <= Len(q)
  BY <1>1, <1>2, FS_Subset, FS_CardinalityType
<1>4. f \in [1 .. Cardinality(D) -> D]
  BY DEF Increasing
<1>5. \A n \in 1 .. Cardinality(D) : f[n] \in DOMAIN q /\ q[f[n]] \in Entry
  BY <1>1, <1>4
<1>6. [n \in DOMAIN f |-> q[f[n]]] \in [1 .. Cardinality(D) -> Entry]
  BY <1>4, <1>5
<1>7. /\ [n \in DOMAIN f |-> q[f[n]]] \in Seq(Entry)
      /\ Len([n \in DOMAIN f |-> q[f[n]]]) = Cardinality(D)
  BY <1>3, <1>6
<1> QED
  BY <1>3, <1>4, <1>5, <1>7

\* A step after which nobody new has given up, and a queued reply channel was
\* queued before.
LEMMA QueuedStay ==
  ASSUME IInv, \A d \in Calls : call'[d] = "504" => call[d] = "504",
         \A n \in DOMAIN q' : q'[n].reply => \E m \in DOMAIN q : q'[n] = q[m]
  PROVE  QueuedLive'
BY DEF IInv, QueuedLive

\* What a push does to the box, for a caller that begins to wait and for a
\* message nobody waits for.
LEMMA Push ==
  ASSUME IInv, NEW x \in Items, NEW waits \in BOOLEAN, Id[x] \in Ids,
         PushAgent(x, waits),
         waits => x \in Calls /\ call' = [call EXCEPT ![x] = "wait"],
         ~waits => call' = call,
         poll' = poll
  PROVE  /\ q' \in Seq(Entry) /\ waiter' \in Polls \cup {NoPoll}
         /\ waitReply' \in [Ids -> Calls \cup {NoItem}]
         /\ chan' \in [Polls -> Items \cup {NoItem}]
         /\ \A n \in DOMAIN q' : Id[q'[n].item] \in Ids
         /\ \A k \in Polls : chan'[k] # NoItem => Id[chan'[k]] \in Ids
         /\ EntriesLive' /\ QueuedLive' /\ BacklogBounded'
         /\ \A i \in Ids : \/ waitReply'[i] \in {NoItem, waitReply[i]}
                           \/ waits /\ waitReply'[i] = x
<1> DEFINE wr == IF waits THEN [waitReply EXCEPT ![Id[x]] = x] ELSE waitReply
<1>1. /\ wr \in [Ids -> Calls \cup {NoItem}]
      /\ \A i \in Ids : wr[i] # NoItem => call'[wr[i]] = "wait" /\ Id[wr[i]] = i
      /\ \A i \in Ids : wr[i] = waitReply[i] \/ (waits /\ wr[i] = x)
  BY DEF IInv, TypeOK, EntriesLive, Items
<1>2. Open' = Open
  BY DEF Open
<1>q. ASSUME \A n \in DOMAIN q' : q'[n] = [item |-> x, reply |-> waits]
                                  \/ \E m \in DOMAIN q : q'[n] = q[m]
      PROVE  QueuedLive'
  <2>1. \A d \in Calls : call'[d] = call[d] \/ call'[d] = "wait"
    BY DEF IInv, TypeOK
  <2>2. waits => x \in Calls /\ call'[x] = "wait"
    BY DEF IInv, TypeOK
  <2>3. ASSUME NEW n \in DOMAIN q', q'[n].reply
        PROVE  q'[n].item \in Calls /\ call'[q'[n].item] # "504"
    <3>1. CASE q'[n] = [item |-> x, reply |-> waits]
      BY <2>2, <2>3, <3>1
    <3>2. CASE \E m \in DOMAIN q : q'[n] = q[m]
      BY <2>1, <2>3, <3>2 DEF IInv, QueuedLive
    <3> QED BY <1>q, <3>1, <3>2
  <2> QED BY <2>3 DEF QueuedLive
<1>3. CASE waiter # NoPoll
  <2>1. waitReply' = wr /\ q' = q /\ waiter' = NoPoll /\ chan' = [chan EXCEPT ![waiter] = x]
    BY <1>3 DEF PushAgent
  <2>2. QueuedLive'
    BY <1>q, <2>1
  <2> QED
    BY <1>1, <1>2, <1>3, <2>1, <2>2 DEF IInv, TypeOK, EntriesLive, HasId, BacklogBounded
<1>4. CASE waiter = NoPoll
  <2> DEFINE e == [item |-> x, reply |-> waits]
  <2>1. e \in Entry /\ q \in Seq(Entry) /\ Len(q) \in Nat
    BY DEF Entry, IInv, TypeOK
  <2>2. UNCHANGED <<waiter, chan>>
    BY <1>4 DEF PushAgent
  <2>3. CASE ~Full
    <3>1. waitReply' = wr /\ q' = Append(q, e)
      BY <1>4, <2>3 DEF PushAgent, MakeRoom
    <3>2. q' \in Seq(Entry) /\ Len(q') = Len(q) + 1 /\ Len(q) + 1 <= QueueMax
      BY <2>1, <2>3, <3>1 DEF Full
    <3>3. \A n \in DOMAIN q' : Id[q'[n].item] \in Ids
      BY <2>1, <3>1 DEF IInv, HasId
    <3>4. Cardinality(Open) \in Nat /\ Cardinality(Open) <= Cardinality(Polls)
          /\ Cardinality(Polls) \in Nat
      BY FS_Subset, FS_CardinalityType DEF Open
    <3>5. BacklogBounded'
      BY <1>2, <2>1, <3>2, <3>4 DEF BacklogBounded
    <3>6. \A n \in DOMAIN q' : q'[n] = e \/ \E m \in DOMAIN q : q'[n] = q[m]
      BY <2>1, <3>1
    <3>7. QueuedLive'
      BY <1>q, <3>6
    <3> QED
      BY <1>1, <2>2, <3>1, <3>2, <3>3, <3>5, <3>7 DEF IInv, TypeOK, EntriesLive, HasId
  <2>4. CASE Full
    <3>1. q # << >>
      BY <2>1, <2>4 DEF Full
    <3>2. Head(q) \in Entry /\ Head(q) = q[1] /\ 1 \in DOMAIN q /\ Tail(q) \in Seq(Entry)
          /\ Len(Tail(q)) = Len(q) - 1
      BY <2>1, <3>1
    <3>3. q' = Append(Tail(q), e)
      BY <1>4, <2>4 DEF PushAgent, MakeRoom
    <3>4. \/ waitReply' = wr
          \/ waitReply' = [wr EXCEPT ![Id[Head(q).item]] = NoItem]
      BY <1>4, <2>4 DEF PushAgent, MakeRoom, Forget
    <3>5. /\ waitReply' \in [Ids -> Calls \cup {NoItem}]
          /\ EntriesLive'
          /\ \A i \in Ids : waitReply'[i] \in {NoItem, wr[i]}
      BY <1>1, <3>4 DEF EntriesLive
    <3>6. q' \in Seq(Entry) /\ Len(q') = Len(q)
      BY <2>1, <3>2, <3>3
    <3>7. \A n \in DOMAIN q' : q'[n] = e \/ \E m \in DOMAIN q : q'[n] = q[m]
      BY <2>1, <3>1, <3>2, <3>3
    <3>8. \A n \in DOMAIN q' : Id[q'[n].item] \in Ids
      BY <2>1, <3>7 DEF IInv, HasId
    <3>9. BacklogBounded'
      BY <1>2, <3>6 DEF IInv, BacklogBounded
    <3>10. QueuedLive'
      BY <1>q, <3>7
    <3> QED
      BY <1>1, <2>2, <3>5, <3>6, <3>8, <3>9, <3>10 DEF IInv, TypeOK, HasId
  <2> QED BY <2>3, <2>4
<1> QED BY <1>3, <1>4

LEMMA InitStep == Init => IInv
<1> SUFFICES ASSUME Init PROVE IInv
  OBVIOUS
<1>1. TypeOK
  BY DEF Init, TypeOK
<1>2. Open = {} /\ Cardinality(Open) = 0 /\ Cardinality(Polls) \in Nat
  BY FS_EmptySet, FS_CardinalityType DEF Init, Open
<1>3. BacklogBounded
  BY <1>2 DEF Init, BacklogBounded
<1> QED
  BY <1>1, <1>3, CallsAreItems DEF Init, IInv, Unlinked, HasId, EntriesLive, QueuedLive,
     SendingMatches, ReplyMatches, AnswerMatches

LEMMA CallerStep ==
  ASSUME IInv, NEW c \in Calls, Connected(c) \/ GetAnswer(c) \/ CancelAgent(c)
  PROVE  IInv'
<1> c \in Items
  BY DEF Items
<1>1. CASE Connected(c) /\ Id[c] = NoId
  <2>1. /\ call' = [call EXCEPT ![c] = "400"]
        /\ UNCHANGED <<box, post, answer, agent, reply, sending>>
        /\ call[c] = "new"
    BY <1>1 DEF Connected, box, agent, PushAgent
  <2>2. \A d \in Calls : call'[d] \in {"wait", "200"} => call'[d] = call[d]
    BY <2>1 DEF IInv, TypeOK
  <2>3. TypeOK'
    BY <2>1 DEF IInv, TypeOK, box, agent
  <2>4. HasId' /\ AnswerMatches'
    BY <2>1, <2>2 DEF IInv, TypeOK, HasId, AnswerMatches, box, agent
  <2>5. EntriesLive'
    BY <2>1 DEF IInv, TypeOK, EntriesLive, box
  <2>6. Unlinked'
    BY <2>1, CallsAreItems DEF IInv, TypeOK, Unlinked, box
  <2>7. QueuedLive'
    <3>1. q' = q /\ \A d \in Calls : call'[d] = "504" => call[d] = "504"
      BY <2>1 DEF IInv, TypeOK, box
    <3> QED BY <3>1, QueuedStay
  <2> QED
    BY <2>1, <2>3, <2>4, <2>5, <2>6, <2>7 DEF IInv, BacklogBounded, Open, SendingMatches,
       ReplyMatches, box, agent
<1>2. CASE Connected(c) /\ Id[c] # NoId
  <2>1. /\ PushAgent(c, TRUE) /\ call' = [call EXCEPT ![c] = "wait"]
        /\ UNCHANGED <<post, answer, poll, taken, replied, refused, reply, sending>>
        /\ Id[c] \in Ids /\ call[c] = "new"
    BY <1>2 DEF Connected, agent
  <2>2. /\ q' \in Seq(Entry) /\ waiter' \in Polls \cup {NoPoll}
        /\ waitReply' \in [Ids -> Calls \cup {NoItem}]
        /\ chan' \in [Polls -> Items \cup {NoItem}]
        /\ \A n \in DOMAIN q' : Id[q'[n].item] \in Ids
        /\ \A k \in Polls : chan'[k] # NoItem => Id[chan'[k]] \in Ids
        /\ EntriesLive' /\ QueuedLive' /\ BacklogBounded'
        /\ \A i \in Ids : waitReply'[i] \in {NoItem, waitReply[i], c}
    BY <2>1, Push
  <2>3. TypeOK'
    BY <2>1, <2>2 DEF IInv, TypeOK
  <2>4. HasId' /\ AnswerMatches'
    BY <2>1, <2>2 DEF IInv, TypeOK, HasId, AnswerMatches
  <2>5. Unlinked'
    BY <2>1, <2>2, CallsAreItems DEF IInv, TypeOK, Unlinked
  <2> QED
    BY <2>1, <2>2, <2>3, <2>4, <2>5 DEF IInv, SendingMatches, ReplyMatches
<1>3. CASE GetAnswer(c)
  <2>1. /\ call' = [call EXCEPT ![c] = "200"] /\ call[c] = "wait"
        /\ answer' = [answer EXCEPT ![c] = reply[c]] /\ reply[c] # NoItem
        /\ UNCHANGED <<q, waiter, waitReply, chan, post, poll, taken, replied,
                       refused, reply, sending>>
    BY <1>3 DEF GetAnswer, box, agent
  <2>2. TypeOK'
    BY <2>1 DEF IInv, TypeOK
  <2>3. HasId' /\ AnswerMatches'
    BY <2>1 DEF IInv, TypeOK, HasId, AnswerMatches, ReplyMatches
  <2>4. EntriesLive'
    BY <2>1 DEF IInv, TypeOK, EntriesLive, Unlinked
  <2>5. Unlinked'
    BY <2>1, CallsAreItems DEF IInv, TypeOK, Unlinked
  <2>6. QueuedLive'
    <3>1. \A d \in Calls : call'[d] = "504" => call[d] = "504"
      BY <2>1 DEF IInv, TypeOK
    <3> QED BY <2>1, <3>1, QueuedStay
  <2> QED
    BY <2>1, <2>2, <2>3, <2>4, <2>5, <2>6 DEF IInv, BacklogBounded, Open, SendingMatches,
       ReplyMatches
<1>4. CASE CancelAgent(c)
  <2>1. /\ call' = [call EXCEPT ![c] = "504"] /\ call[c] = "wait"
        /\ waitReply' = [waitReply EXCEPT ![Id[c]] = NoItem]
        /\ UNCHANGED <<waiter, chan, post, answer, poll, taken, replied, refused,
                       reply, sending>>
    BY <1>4 DEF CancelAgent, Forget, agent
  <2>2. PICK f \in Increasing(Kept(Id[c])) : q' = [n \in DOMAIN f |-> q[f[n]]]
    BY <1>4 DEF CancelAgent
  <2>3. /\ q' \in Seq(Entry) /\ Len(q') \in Nat /\ Len(q') <= Len(q)
        /\ \A n \in DOMAIN q' : \E m \in DOMAIN q : q'[n] = q[m]
    BY <2>2, FilteredQueue, Kept(Id[c]) \in SUBSET DOMAIN q DEF IInv, Kept
  <2>4. TypeOK'
    BY <2>1, <2>3 DEF IInv, TypeOK
  <2>5. HasId' /\ AnswerMatches'
    BY <2>1, <2>3 DEF IInv, TypeOK, HasId, AnswerMatches
  <2>6. EntriesLive'
    BY <2>1 DEF IInv, TypeOK, EntriesLive, HasId
  <2>7. BacklogBounded'
    <3>1. Open' = Open /\ Cardinality(Open) \in Nat /\ Cardinality(Polls) \in Nat
      BY <2>1, FS_Subset, FS_CardinalityType DEF Open
    <3> QED
      BY <2>3, <3>1 DEF IInv, TypeOK, BacklogBounded
  <2>8. Unlinked'
    BY <2>1, CallsAreItems DEF IInv, TypeOK, Unlinked
  <2>9. QueuedLive'
    <3>1. ASSUME NEW n \in DOMAIN q', q'[n].reply
          PROVE  q'[n].item \in Calls /\ call'[q'[n].item] # "504"
      <4>1. PICK m \in Kept(Id[c]) : q'[n] = q[m]
        BY <2>2, <3>1 DEF Increasing
      <4>2. m \in DOMAIN q /\ q[m].item \in Calls /\ call[q[m].item] # "504"
        BY <3>1, <4>1 DEF Kept, IInv, QueuedLive
      <4>3. q[m].item # c
        BY <3>1, <4>1 DEF Kept
      <4> QED BY <2>1, <4>1, <4>2, <4>3 DEF IInv, TypeOK
    <3> QED BY <3>1 DEF QueuedLive
  <2> QED
    BY <2>1, <2>4, <2>5, <2>6, <2>7, <2>8, <2>9 DEF IInv, SendingMatches, ReplyMatches
<1> QED BY <1>1, <1>2, <1>3, <1>4

LEMMA PostStep ==
  ASSUME IInv, NEW p \in Posts, ForwardPosted(p)
  PROVE  IInv'
<1>1. /\ PushAgent(p, FALSE) /\ p \in Items /\ post' = post \ {p}
      /\ UNCHANGED <<call, answer, poll, taken, replied, refused, reply, sending>>
      /\ Id[p] \in Ids
  BY DEF ForwardPosted, agent, Items
<1>2. /\ q' \in Seq(Entry) /\ waiter' \in Polls \cup {NoPoll}
      /\ waitReply' \in [Ids -> Calls \cup {NoItem}]
      /\ chan' \in [Polls -> Items \cup {NoItem}]
      /\ \A n \in DOMAIN q' : Id[q'[n].item] \in Ids
      /\ \A k \in Polls : chan'[k] # NoItem => Id[chan'[k]] \in Ids
      /\ EntriesLive' /\ QueuedLive' /\ BacklogBounded'
      /\ \A i \in Ids : waitReply'[i] \in {NoItem, waitReply[i]}
  BY <1>1, Push
<1>3. TypeOK' /\ HasId'
  BY <1>1, <1>2 DEF IInv, TypeOK, HasId
<1>4. Unlinked'
  BY <1>1, <1>2, CallsAreItems DEF IInv, TypeOK, Unlinked
<1> QED
  BY <1>1, <1>2, <1>3, <1>4 DEF IInv, SendingMatches, ReplyMatches, AnswerMatches

LEMMA PollStep ==
  ASSUME IInv, NEW k \in Polls, TakeAgent(k) \/ Receive(k) \/ Expire(k)
  PROVE  IInv'
<1>0. /\ q \in Seq(Entry) /\ Len(q) \in Nat
      /\ IsFiniteSet(Open) /\ Cardinality(Open) \in Nat
      /\ Cardinality(Polls) \in Nat
  BY FS_Subset, FS_CardinalityType DEF IInv, TypeOK, Open
<1>f. UNCHANGED <<waitReply, call, post, answer, replied, refused, reply, sending>>
  BY DEF TakeAgent, Receive, Expire, caller
<1>w. Unlinked' /\ EntriesLive' /\ SendingMatches' /\ ReplyMatches' /\ AnswerMatches'
  BY <1>f DEF IInv, Unlinked, EntriesLive, SendingMatches, ReplyMatches, AnswerMatches
<1>q. ASSUME \A n \in DOMAIN q' : q'[n].reply => \E m \in DOMAIN q : q'[n] = q[m]
      PROVE  QueuedLive'
  BY <1>f, <1>q, QueuedStay
<1>1. CASE TakeAgent(k) /\ q # << >>
  <2>1. /\ taken' = Append(taken, Head(q).item) /\ q' = Tail(q)
        /\ UNCHANGED <<waiter, poll, chan>>
    BY <1>1 DEF TakeAgent
  <2>2. /\ Head(q) = q[1] /\ 1 \in DOMAIN q /\ Head(q).item \in Items
        /\ q' \in Seq(Entry) /\ Len(q') = Len(q) - 1
        /\ \A n \in DOMAIN q' : \E m \in DOMAIN q : q'[n] = q[m]
    <3>1. /\ Head(q) = q[1] /\ 1 \in DOMAIN q /\ Head(q) \in Entry
          /\ q' \in Seq(Entry) /\ Len(q') = Len(q) - 1
      BY <1>0, <1>1, <2>1
    <3>2. \A n \in 1 .. Len(q) - 1 : Tail(q)[n] = q[n + 1] /\ n + 1 \in 1 .. Len(q)
      BY <1>0, <1>1
    <3> QED
      BY <1>0, <2>1, <3>1, <3>2 DEF Entry
  <2>3. TypeOK'
    BY <1>f, <2>1, <2>2 DEF IInv, TypeOK
  <2>4. \A n \in DOMAIN taken' : taken'[n] = Head(q).item
                                  \/ (n \in DOMAIN taken /\ taken'[n] = taken[n])
    BY <2>1, <2>2 DEF IInv, TypeOK
  <2>5. HasId'
    BY <1>f, <2>1, <2>2, <2>4 DEF IInv, HasId
  <2>6. BacklogBounded'
    BY <1>0, <2>1, <2>2 DEF IInv, BacklogBounded, Open
  <2>7. QueuedLive'
    BY <1>q, <2>2
  <2> QED BY <1>w, <2>3, <2>5, <2>6, <2>7 DEF IInv
<1>2. CASE TakeAgent(k) /\ q = << >>
  <2>1. /\ waiter' = k /\ poll' = [poll EXCEPT ![k] = "open"]
        /\ UNCHANGED <<q, taken, chan>>
    BY <1>2 DEF TakeAgent
  <2>2. TypeOK' /\ HasId'
    BY <1>f, <2>1 DEF IInv, TypeOK, HasId
  <2>3. Cardinality(Open') <= Cardinality(Polls) /\ Cardinality(Open') \in Nat
    BY FS_Subset, FS_CardinalityType DEF Open
  <2>4. BacklogBounded'
    BY <1>0, <1>2, <2>1, <2>3 DEF BacklogBounded
  <2>5. QueuedLive'
    BY <1>q, <2>1
  <2> QED BY <1>w, <2>2, <2>4, <2>5 DEF IInv
<1>3. CASE Receive(k) \/ Expire(k)
  <2>1. /\ poll' = [poll EXCEPT ![k] = "closed"] /\ poll[k] = "open"
        /\ chan' = [chan EXCEPT ![k] = NoItem]
    BY <1>3 DEF Receive, Expire
  <2>2. Open' = Open \ {k} /\ k \in Open
    BY <2>1 DEF Open, IInv, TypeOK
  <2>3. Cardinality(Open') = Cardinality(Open) - 1
    BY <1>0, <2>2, FS_RemoveElement
  <2>4. CASE Receive(k)
    <3>1. /\ taken' = Append(taken, chan[k]) /\ chan[k] # NoItem
          /\ UNCHANGED <<q, waiter>>
      BY <2>4 DEF Receive
    <3>2. TypeOK'
      BY <1>f, <2>1, <3>1 DEF IInv, TypeOK
    <3>3. \A n \in DOMAIN taken' : taken'[n] = chan[k]
                                    \/ (n \in DOMAIN taken /\ taken'[n] = taken[n])
      BY <3>1 DEF IInv, TypeOK
    <3>4. HasId'
      BY <1>f, <2>1, <3>1, <3>3 DEF IInv, TypeOK, HasId
    <3>5. BacklogBounded'
      BY <1>0, <2>3, <3>1 DEF IInv, BacklogBounded
    <3>6. QueuedLive'
      BY <1>q, <3>1
    <3> QED BY <1>w, <3>2, <3>4, <3>5, <3>6 DEF IInv
  <2>5. CASE Expire(k)
    <3> DEFINE e == [item |-> chan[k], reply |-> FALSE]
    <3>1. /\ q' = Reclaim(k) /\ taken' = taken
          /\ waiter' \in Polls \cup {NoPoll}
      BY <2>5 DEF Expire, IInv, TypeOK
    <3>2. /\ q' \in Seq(Entry) /\ Len(q') \in Nat /\ Len(q') <= Len(q) + 1
          /\ \A n \in DOMAIN q' : \/ chan[k] # NoItem /\ q'[n] = e
                                  \/ \E m \in DOMAIN q : q'[n] = q[m]
      <4>1. CASE chan[k] = NoItem
        BY <1>0, <3>1, <4>1 DEF Reclaim
      <4>2. CASE chan[k] # NoItem
        <5>1. q' = <<e>> \o q /\ e \in Entry
          BY <3>1, <4>2 DEF Reclaim, Entry, IInv, TypeOK
        <5>2. <<e>> \in Seq(Entry) /\ Len(<<e>>) = 1 /\ <<e>>[1] = e
          BY <5>1
        <5>3. q' \in Seq(Entry) /\ Len(q') = Len(q) + 1
          BY <1>0, <5>1, <5>2
        <5>4. \A n \in 1 .. Len(q) + 1 :
                 (<<e>> \o q)[n] = IF n <= 1 THEN <<e>>[n] ELSE q[n - 1]
          BY <1>0, <5>2
        <5>5. DOMAIN q' = 1 .. Len(q) + 1 /\ DOMAIN q = 1 .. Len(q)
          BY <1>0, <5>3
        <5>6. ASSUME NEW n \in 1 .. Len(q) + 1, n # 1
              PROVE  n - 1 \in 1 .. Len(q) /\ q'[n] = q[n - 1]
          BY <1>0, <5>1, <5>4, <5>6
        <5>7. q'[1] = e
          BY <1>0, <5>1, <5>2, <5>4
        <5>8. ASSUME NEW n \in DOMAIN q'
              PROVE  \/ chan[k] # NoItem /\ q'[n] = e
                     \/ \E m \in DOMAIN q : q'[n] = q[m]
          <6>1. CASE n = 1
            BY <4>2, <5>7, <6>1
          <6>2. CASE n # 1
            <7>1. n - 1 \in DOMAIN q /\ q'[n] = q[n - 1]
              BY <5>5, <5>6, <5>8, <6>2
            <7> QED BY <7>1
          <6> QED BY <6>1, <6>2
        <5>9. Len(q') \in Nat /\ Len(q') <= Len(q) + 1
          BY <1>0, <5>3
        <5> HIDE DEF e
        <5> QED BY <5>3, <5>8, <5>9
      <4> QED BY <4>1, <4>2
    <3>3. TypeOK'
      BY <1>f, <2>1, <3>1, <3>2 DEF IInv, TypeOK
    <3>4. HasId'
      BY <1>f, <2>1, <3>1, <3>2 DEF IInv, TypeOK, HasId
    <3>5. BacklogBounded'
      BY <1>0, <2>3, <3>2 DEF IInv, BacklogBounded
    <3>6. QueuedLive'
      BY <1>q, <3>2
    <3> QED BY <1>w, <3>3, <3>4, <3>5, <3>6 DEF IInv
  <2> QED BY <1>3, <2>4, <2>5
<1> QED BY <1>1, <1>2, <1>3

LEMMA ReplyStep ==
  ASSUME IInv, NEW x \in Items, ReplyAgent(x) \/ ReplySend(x)
  PROVE  IInv'
<1>1. CASE ReplyAgent(x)
  <2>1. /\ sending' = [sending EXCEPT ![x] = waitReply[Id[x]]]
        /\ waitReply' = [waitReply EXCEPT ![Id[x]] = NoItem]
        /\ replied' \subseteq Items /\ refused' \subseteq Items
        /\ UNCHANGED <<q, waiter, chan, call, post, answer, poll, taken, reply>>
    BY <1>1 DEF ReplyAgent, CallOf, Forget, caller, IInv, TypeOK
  <2>2. Id[x] \in Ids
    BY <1>1 DEF ReplyAgent, IInv, HasId
  <2>3. TypeOK' /\ HasId'
    BY <2>1, <2>2 DEF IInv, TypeOK, HasId
  <2>4. EntriesLive' /\ SendingMatches'
    BY <2>1, <2>2 DEF IInv, TypeOK, EntriesLive, SendingMatches
  <2>5. Unlinked'
    BY <2>1, <2>2, CallsAreItems DEF IInv, TypeOK, EntriesLive, Unlinked
  <2> QED
    BY <2>1, <2>3, <2>4, <2>5 DEF IInv, BacklogBounded, Open, ReplyMatches,
       AnswerMatches, QueuedLive
<1>2. CASE ReplySend(x)
  <2> DEFINE c == sending[x]
  <2>1. /\ reply' = [reply EXCEPT ![c] = IF reply[c] = NoItem THEN x ELSE reply[c]]
        /\ sending' = [sending EXCEPT ![x] = NoItem] /\ c # NoItem
        /\ UNCHANGED <<q, waiter, waitReply, chan, call, post, answer, poll, taken,
                       replied, refused>>
    BY <1>2 DEF ReplySend, box, caller, agent
  <2>2. c \in Calls /\ Id[c] = Id[x]
    BY <2>1 DEF IInv, TypeOK, SendingMatches
  <2>3. TypeOK' /\ HasId'
    BY <2>1, <2>2 DEF IInv, TypeOK, HasId
  <2>4. SendingMatches' /\ ReplyMatches'
    BY <2>1, <2>2 DEF IInv, TypeOK, SendingMatches, ReplyMatches
  <2>5. Unlinked'
    BY <2>1, <2>2, CallsAreItems DEF IInv, TypeOK, Unlinked
  <2> QED
    BY <2>1, <2>3, <2>4, <2>5 DEF IInv, BacklogBounded, Open, EntriesLive,
       AnswerMatches, QueuedLive
<1> QED BY <1>1, <1>2

LEMMA NextStep == IInv /\ [Next]_vars => IInv'
<1> SUFFICES ASSUME IInv, [Next]_vars PROVE IInv'
  OBVIOUS
<1>1. CASE UNCHANGED vars
  BY <1>1 DEF vars, box, caller, agent, IInv, TypeOK, HasId, BacklogBounded, Open,
     Unlinked, EntriesLive, QueuedLive, SendingMatches, ReplyMatches, AnswerMatches
<1> QED
  BY <1>1, CallerStep, PostStep, PollStep, ReplyStep DEF Next

LEMMA Invariant == Spec => []IInv
  BY InitStep, NextStep, PTL DEF Spec

\* agentBox keeps its types whatever its users do, for any number of them.
THEOREM MailboxTypeCorrect == Spec => []TypeOK
<1>1. IInv => TypeOK
  BY DEF IInv
<1> QED BY <1>1, Invariant, PTL

\* No reply channel outlives its caller, in waitReply or in the queue: PushAgent,
\* ReplyAgent and CancelAgent between them leave none behind.
THEOREM NoStaleReplyChannel == Spec => []WaitReplyLive
<1>1. IInv => WaitReplyLive
  BY DEF IInv, EntriesLive, QueuedLive, WaitReplyLive
<1> QED BY <1>1, Invariant, PTL

\* A caller of connected that gets 200 gets an answer under its own id, however
\* answers, deadlines and new calls interleave.
THEOREM AnswersMatchIds == Spec => []AnswerMatches
<1>1. IInv => AnswerMatches
  BY DEF IInv
<1> QED BY <1>1, Invariant, PTL

\* The queue exceeds agentQueueMax by no more than the connections that put a
\* late item back, so a box is bounded.
THEOREM BacklogIsBounded == Spec => []BacklogBounded
<1>1. IInv => BacklogBounded
  BY DEF IInv
<1> QED BY <1>1, Invariant, PTL
-----------------------------------------------------------------------------
(***************************************************************************)
(* Where an item can be.  Nothing new is pushed twice, an item that is     *)
(* moved leaves the place it was in, and the channel of the connection     *)
(* that waits is empty, so that a push never overwrites an item.  A caller *)
(* whose item is still on its way, or in the agent's hands and not yet     *)
(* answered, is in waitReply unless another item with its id was pushed.   *)
(***************************************************************************)
Pushed(x) == x \notin post /\ (x \in Calls => call[x] # "new")
Rival(x)  == \E y \in Items \ {x} : Id[y] = Id[x] /\ Pushed(y)
Held(x)   == \/ \E m \in DOMAIN q : q[m].item = x
             \/ \E n \in DOMAIN taken : taken[n] = x
             \/ \E k \in Polls : chan[k] = x

Distinct(s) == \A m, n \in DOMAIN s : s[m].item = s[n].item => m = n
DistinctPlaces ==
  /\ Distinct(q)
  /\ \A m, n \in DOMAIN taken : taken[m] = taken[n] => m = n
  /\ \A k, h \in Polls : chan[k] = chan[h] /\ chan[k] # NoItem => k = h
OnePlace ==
  /\ \A m \in DOMAIN q, n \in DOMAIN taken : q[m].item # taken[n]
  /\ \A m \in DOMAIN q, k \in Polls : q[m].item # chan[k]
  /\ \A n \in DOMAIN taken, k \in Polls : taken[n] # chan[k]
PlacedArePushed ==
  /\ \A m \in DOMAIN q : Pushed(q[m].item) /\ (q[m].reply => q[m].item \in Calls)
  /\ \A n \in DOMAIN taken : Pushed(taken[n])
  /\ \A k \in Polls : chan[k] # NoItem => Pushed(chan[k]) /\ poll[k] = "open"
WaiterIdle == waiter # NoPoll => poll[waiter] = "open" /\ chan[waiter] = NoItem
Registered ==
  \A c \in Calls : call[c] = "wait" /\ c \notin replied /\ Held(c)
                     => waitReply[Id[c]] = c \/ Rival(c)
Places == DistinctPlaces /\ OnePlace /\ PlacedArePushed /\ WaiterIdle
JInv   == Places /\ Registered /\ AnswerAccepted

\* The queue without its oldest entry.
LEMMA DistinctTail ==
  ASSUME NEW s \in Seq(Entry), s # << >>, Distinct(s)
  PROVE  /\ Tail(s) \in Seq(Entry) /\ Distinct(Tail(s))
         /\ Head(s) = s[1] /\ 1 \in DOMAIN s
         /\ \A n \in DOMAIN Tail(s) :
              /\ \E m \in DOMAIN s : Tail(s)[n] = s[m]
              /\ Tail(s)[n].item # Head(s).item
         /\ \A m \in DOMAIN s : m # 1 => \E n \in DOMAIN Tail(s) : Tail(s)[n] = s[m]
<1>1. Len(s) \in Nat /\ Len(s) # 0 /\ DOMAIN s = 1 .. Len(s) /\ Head(s) = s[1]
      /\ Tail(s) \in Seq(Entry) /\ DOMAIN Tail(s) = 1 .. (Len(s) - 1)
  OBVIOUS
<1>2. \A n \in 1 .. (Len(s) - 1) : Tail(s)[n] = s[n + 1] /\ n + 1 \in 1 .. Len(s) /\ n + 1 # 1
  BY <1>1
<1>3. 1 \in 1 .. Len(s)
  BY <1>1
<1>4. Distinct(Tail(s))
  BY <1>1, <1>2 DEF Distinct
<1>5. ASSUME NEW m \in DOMAIN s, m # 1 PROVE \E n \in DOMAIN Tail(s) : Tail(s)[n] = s[m]
  <2>1. m - 1 \in 1 .. (Len(s) - 1) /\ (m - 1) + 1 = m
    BY <1>1, <1>5
  <2> QED BY <1>1, <1>2, <2>1
<1> QED BY <1>1, <1>2, <1>3, <1>4, <1>5 DEF Distinct

\* The queue with a new entry at its end.
LEMMA DistinctAppend ==
  ASSUME NEW s \in Seq(Entry), NEW e \in Entry, Distinct(s),
         \A n \in DOMAIN s : s[n].item # e.item
  PROVE  /\ Distinct(Append(s, e))
         /\ \A n \in DOMAIN Append(s, e) :
              Append(s, e)[n] = e \/ \E m \in DOMAIN s : Append(s, e)[n] = s[m]
         /\ \A m \in DOMAIN s : \E n \in DOMAIN Append(s, e) : Append(s, e)[n] = s[m]
         /\ \E n \in DOMAIN Append(s, e) : Append(s, e)[n] = e
<1>1. Len(s) \in Nat /\ DOMAIN s = 1 .. Len(s) /\ DOMAIN Append(s, e) = 1 .. (Len(s) + 1)
  OBVIOUS
<1>2. /\ \A n \in 1 .. Len(s) : Append(s, e)[n] = s[n] /\ n \in 1 .. (Len(s) + 1)
      /\ Append(s, e)[Len(s) + 1] = e /\ Len(s) + 1 \in 1 .. (Len(s) + 1)
      /\ \A n \in 1 .. (Len(s) + 1) : n \in 1 .. Len(s) \/ n = Len(s) + 1
  BY <1>1
<1>3. Distinct(Append(s, e))
  BY <1>1, <1>2 DEF Distinct
<1> QED BY <1>1, <1>2, <1>3

\* The queue with an entry put back at its front.
LEMMA DistinctCons ==
  ASSUME NEW s \in Seq(Entry), NEW e \in Entry, Distinct(s),
         \A n \in DOMAIN s : s[n].item # e.item
  PROVE  /\ Distinct(<<e>> \o s)
         /\ \A n \in DOMAIN (<<e>> \o s) :
              (<<e>> \o s)[n] = e \/ \E m \in DOMAIN s : (<<e>> \o s)[n] = s[m]
         /\ \A m \in DOMAIN s : \E n \in DOMAIN (<<e>> \o s) : (<<e>> \o s)[n] = s[m]
         /\ \E n \in DOMAIN (<<e>> \o s) : (<<e>> \o s)[n] = e
<1> DEFINE t == <<e>> \o s
<1>1. <<e>> \in Seq(Entry) /\ Len(<<e>>) = 1 /\ <<e>>[1] = e
  OBVIOUS
<1>2. Len(s) \in Nat /\ DOMAIN s = 1 .. Len(s) /\ DOMAIN t = 1 .. (Len(s) + 1)
  BY <1>1
<1>3. \A n \in 1 .. (Len(s) + 1) : t[n] = IF n <= 1 THEN <<e>>[n] ELSE s[n - 1]
  BY <1>1, <1>2
<1>4. t[1] = e /\ 1 \in DOMAIN t
  BY <1>1, <1>2, <1>3
<1>5. ASSUME NEW n \in DOMAIN t, n # 1
      PROVE  n - 1 \in DOMAIN s /\ t[n] = s[n - 1]
  BY <1>2, <1>3, <1>5
<1>6. ASSUME NEW m \in DOMAIN s
      PROVE  m + 1 \in DOMAIN t /\ t[m + 1] = s[m]
  <2>1. m \in Nat /\ m + 1 \in DOMAIN t /\ m + 1 # 1 /\ (m + 1) - 1 = m
    BY <1>2
  <2> QED BY <1>5, <2>1
<1> HIDE DEF t
<1>7. ASSUME NEW m \in DOMAIN t, NEW n \in DOMAIN t, t[m].item = t[n].item
      PROVE  m = n
  <2>1. m \in Int /\ n \in Int
    BY <1>2
  <2>2. CASE m = 1 \/ n = 1
    BY <1>4, <1>5, <1>7, <2>2
  <2>3. CASE m # 1 /\ n # 1
    <3>1. m - 1 = n - 1
      BY <1>5, <1>7, <2>3 DEF Distinct
    <3> QED BY <2>1, <3>1
  <2> QED BY <2>2, <2>3
<1>8. \A n \in DOMAIN t : t[n] = e \/ \E m \in DOMAIN s : t[n] = s[m]
  BY <1>4, <1>5
<1>9. Distinct(t)
  BY <1>7 DEF Distinct
<1>10. \A m \in DOMAIN s : \E n \in DOMAIN t : t[n] = s[m]
  BY <1>6
<1> QED BY <1>4, <1>8, <1>9, <1>10 DEF t

\* An increasing enumeration of a set of positions meets every one of them,
\* once: nothing else than what CancelAgent skips is lost.
LEMMA DistinctFilter ==
  ASSUME TypeOK, Distinct(q), NEW D \in SUBSET DOMAIN q, NEW f \in Increasing(D)
  PROVE  LET s == [n \in DOMAIN f |-> q[f[n]]]
         IN /\ Distinct(s)
            /\ \A n \in DOMAIN s : \E m \in D : s[n] = q[m]
            /\ \A m \in D : \E n \in DOMAIN s : s[n] = q[m]
<1> DEFINE s == [n \in DOMAIN f |-> q[f[n]]]
<1>1. q \in Seq(Entry) /\ DOMAIN q = 1 .. Len(q) /\ Len(q) \in Nat
  BY DEF TypeOK
<1>2. IsFiniteSet(1 .. Len(q))
  BY <1>1, FS_Interval
<1>3. IsFiniteSet(D) /\ Cardinality(D) \in Nat
  BY <1>1, <1>2, FS_Subset, FS_CardinalityType
<1>4. /\ f \in [1 .. Cardinality(D) -> D] /\ DOMAIN f = 1 .. Cardinality(D)
      /\ \A a, b \in 1 .. Cardinality(D) : a < b => f[a] < f[b]
  BY DEF Increasing
<1>5. \A n \in 1 .. Cardinality(D) : f[n] \in D /\ f[n] \in Int
  BY <1>1, <1>4
<1>6. ASSUME NEW a \in 1 .. Cardinality(D), NEW b \in 1 .. Cardinality(D), f[a] = f[b]
      PROVE  a = b
  <2>1. ~(a < b) /\ ~(b < a)
    BY <1>4, <1>5, <1>6
  <2> QED BY <1>3, <2>1
<1>7. ASSUME NEW m \in D
      PROVE  \E n \in 1 .. Cardinality(D) : f[n] = m
  <2> SUFFICES ASSUME \A n \in 1 .. Cardinality(D) : f[n] # m
               PROVE  FALSE
    OBVIOUS
  <2>1. f \in [1 .. Cardinality(D) -> D \ {m}]
    BY <1>4, <1>5
  <2>2. IsFiniteSet(D \ {m}) /\ Cardinality(D \ {m}) = Cardinality(D) - 1
    BY <1>3, FS_RemoveElement
  <2>3. IsFiniteSet(1 .. Cardinality(D)) /\ Cardinality(1 .. Cardinality(D)) = Cardinality(D)
    BY <1>3, FS_Interval
  <2>4. Cardinality(D \ {m}) < Cardinality(1 .. Cardinality(D))
    BY <1>3, <2>2, <2>3
  <2> DEFINE A == 1 .. Cardinality(D)
             B == D \ {m}
  <2>5. f \in [A -> B] /\ IsFiniteSet(A) /\ IsFiniteSet(B) /\ Cardinality(B) < Cardinality(A)
    BY <2>1, <2>2, <2>3, <2>4
  <2> HIDE DEF A, B
  <2>6. \E a, b \in A : a # b /\ f[a] = f[b]
    BY <2>5, FS_PigeonHole
  <2> QED BY <1>6, <2>6 DEF A
<1>8. DOMAIN s = 1 .. Cardinality(D) /\ \A n \in DOMAIN s : s[n] = q[f[n]]
  BY <1>4
<1> HIDE DEF s
<1>9. Distinct(s)
  BY <1>1, <1>5, <1>6, <1>8 DEF Distinct
<1> QED BY <1>5, <1>7, <1>8, <1>9 DEF s

LEMMA EntryItem ==
  ASSUME NEW s \in Seq(Entry)
  PROVE  \A n \in DOMAIN s : s[n].item \in Items /\ s[n].item # NoItem
<1>1. \A n \in DOMAIN s : s[n] \in Entry
  OBVIOUS
<1>2. \A e \in Entry : e.item \in Items
  BY DEF Entry
<1> QED BY <1>1, <1>2

\* A step that brings x, or nothing, into the queue and moves nothing else.
LEMMA ToQueue ==
  ASSUME TypeOK, Places, NEW x \in Items \cup {NoItem},
         q' \in Seq(Entry), Distinct(q'),
         \A n \in DOMAIN q' : q'[n].item = x \/ \E m \in DOMAIN q : q'[n] = q[m],
         \A k \in Polls : chan'[k] \in {chan[k], NoItem},
         taken' = taken,
         x # NoItem => /\ \A n \in DOMAIN taken : taken[n] # x
                       /\ \A k \in Polls : chan'[k] # x
  PROVE  DistinctPlaces' /\ OnePlace'
<1>1. \A n \in DOMAIN q' : q'[n].item \in Items /\ q'[n].item # NoItem
  BY EntryItem
<1>2. \A n \in DOMAIN taken : taken[n] \in Items /\ taken[n] # NoItem
  BY DEF TypeOK
<1>3. DistinctPlaces'
  BY DEF Places, DistinctPlaces
<1>4. \A m \in DOMAIN q', n \in DOMAIN taken' : q'[m].item # taken'[n]
  BY <1>1 DEF Places, OnePlace
<1>5. \A m \in DOMAIN q', k \in Polls : q'[m].item # chan'[k]
  BY <1>1 DEF Places, OnePlace
<1>6. \A n \in DOMAIN taken', k \in Polls : taken'[n] # chan'[k]
  BY <1>2 DEF Places, OnePlace
<1> QED BY <1>3, <1>4, <1>5, <1>6 DEF OnePlace

\* A step that hands x to the agent.
LEMMA ToAgent ==
  ASSUME TypeOK, Places, NEW x \in Items,
         q' \in Seq(Entry), Distinct(q'),
         \A n \in DOMAIN q' : q'[n].item # x /\ \E m \in DOMAIN q : q'[n] = q[m],
         \A k \in Polls : chan'[k] # x /\ chan'[k] \in {chan[k], NoItem},
         taken' = Append(taken, x), \A n \in DOMAIN taken : taken[n] # x
  PROVE  DistinctPlaces' /\ OnePlace'
<1>1. taken \in Seq(Items) /\ Len(taken) \in Nat /\ DOMAIN taken = 1 .. Len(taken)
  BY DEF TypeOK
<1>2. /\ DOMAIN taken' = 1 .. (Len(taken) + 1)
      /\ \A n \in 1 .. Len(taken) : taken'[n] = taken[n]
      /\ taken'[Len(taken) + 1] = x
      /\ \A n \in 1 .. (Len(taken) + 1) : n \in 1 .. Len(taken) \/ n = Len(taken) + 1
  BY <1>1
<1>3. \A m, n \in DOMAIN taken' : taken'[m] = taken'[n] => m = n
  BY <1>1, <1>2 DEF Places, DistinctPlaces
<1>4. DistinctPlaces'
  BY <1>3 DEF Places, DistinctPlaces
<1>5. \A n \in DOMAIN taken' : taken'[n] = x \/ (n \in DOMAIN taken /\ taken'[n] = taken[n])
  BY <1>1, <1>2
<1>6. \A n \in DOMAIN taken' : taken'[n] \in Items /\ taken'[n] # NoItem
  BY <1>1, <1>5
<1>7. \A m \in DOMAIN q', n \in DOMAIN taken' : q'[m].item # taken'[n]
  BY <1>5 DEF Places, OnePlace
<1>8. \A m \in DOMAIN q', k \in Polls : q'[m].item # chan'[k]
  <2>1. \A m \in DOMAIN q' : q'[m].item \in Items /\ q'[m].item # NoItem
    BY EntryItem
  <2> QED BY <2>1 DEF Places, OnePlace
<1>9. \A n \in DOMAIN taken', k \in Polls : taken'[n] # chan'[k]
  BY <1>5, <1>6 DEF Places, OnePlace
<1> QED BY <1>4, <1>7, <1>8, <1>9 DEF OnePlace

\* What PushAgent does to the places, and who loses a reply channel by it.
LEMMA PushPlaces ==
  ASSUME IInv, Places, NEW x \in Items, NEW waits \in BOOLEAN, Id[x] \in Ids,
         PushAgent(x, waits), waits => x \in Calls,
         ~Pushed(x), Pushed(x)', \A y \in Items : Pushed(y) => Pushed(y)',
         UNCHANGED <<poll, taken>>
  PROVE  /\ Places'
         /\ \A y \in Items : Held(y)' => Held(y) \/ (y = x)
         /\ \A c \in Calls \ {x} :
              Held(c)' /\ Id[c] \in Ids /\ waitReply[Id[c]] = c
                => waitReply'[Id[c]] = c \/ Rival(c)'
         /\ waits => waitReply'[Id[x]] = x \/ Rival(x)'
         /\ \A y \in Items : InTransit(y) => InTransit(y)' \/ DroppedByPush(y)
<1> DEFINE wr == IF waits THEN [waitReply EXCEPT ![Id[x]] = x] ELSE waitReply
           e  == [item |-> x, reply |-> waits]
<1>0. /\ TypeOK /\ q \in Seq(Entry) /\ Distinct(q) /\ e \in Entry /\ e.item = x
      /\ e.reply = waits
  BY DEF IInv, TypeOK, Places, DistinctPlaces, Entry
<1>1. ~Held(x)
  BY DEF Places, PlacedArePushed, Held
<1>2. /\ wr \in [Ids -> Calls \cup {NoItem}]
      /\ waits => wr[Id[x]] = x
      /\ \A i \in Ids : wr[i] = waitReply[i] \/ (waits /\ i = Id[x])
  BY <1>0 DEF TypeOK, Items
<1>3. \A c \in Calls \ {x} : Id[c] = Id[x] => Rival(c)'
  BY DEF Rival
<1> HIDE DEF wr, e
<1>4. CASE waiter # NoPoll
  <2>1. /\ waitReply' = wr /\ q' = q /\ waiter' = NoPoll
        /\ chan' = [chan EXCEPT ![waiter] = x]
    BY <1>4 DEF PushAgent, wr
  <2>2. waiter \in Polls /\ poll[waiter] = "open" /\ chan[waiter] = NoItem
    BY <1>0, <1>4 DEF TypeOK, Places, WaiterIdle
  <2>3. \A k \in Polls : \/ k = waiter /\ chan'[k] = x
                         \/ k # waiter /\ chan'[k] = chan[k]
    BY <1>0, <2>1, <2>2 DEF TypeOK
  <2>4. DistinctPlaces'
    BY <1>1, <2>1, <2>3 DEF Places, DistinctPlaces, Held
  <2>5. OnePlace'
    BY <1>1, <2>1, <2>3 DEF Places, OnePlace, Held
  <2>5a. \A k \in Polls : chan[k] \in Items \cup {NoItem}
    BY <1>0 DEF TypeOK
  <2>5b. /\ \A n \in DOMAIN q : q[n].item \in Items
         /\ \A n \in DOMAIN taken : taken[n] \in Items
    BY <1>0, EntryItem DEF TypeOK
  <2>6. PlacedArePushed'
    BY <2>1, <2>2, <2>3, <2>5a, <2>5b DEF Places, PlacedArePushed
  <2>7. Places'
    BY <2>1, <2>4, <2>5, <2>6 DEF Places, WaiterIdle
  <2>8. \A y \in Items : Held(y)' => Held(y) \/ y = x
    BY <2>1, <2>3 DEF Held
  <2>9. \A y \in Items : InTransit(y) => InTransit(y)'
    BY <2>1, <2>2, <2>3 DEF InTransit, InQueue
  <2> QED BY <1>2, <1>3, <2>1, <2>7, <2>8, <2>9
<1>5. CASE waiter = NoPoll
  <2>1. UNCHANGED <<waiter, chan>>
    BY <1>5 DEF PushAgent
  <2> DEFINE r == IF Full THEN Tail(q) ELSE q
  <2>2. q' = Append(r, e)
    BY <1>5 DEF PushAgent, MakeRoom, e
  <2>3. Full => q # << >>
    BY <1>0 DEF Full
  <2>4. /\ r \in Seq(Entry) /\ Distinct(r)
        /\ \A n \in DOMAIN r : \E m \in DOMAIN q : r[n] = q[m]
        /\ Full => \A n \in DOMAIN r : r[n].item # Head(q).item
    BY <1>0, <2>3, DistinctTail
  <2>4a. ~Full => r = q
    OBVIOUS
  <2>4b. Full => Head(q) = q[1] /\ 1 \in DOMAIN q
    BY <1>0, <2>3, DistinctTail
  <2> HIDE DEF r
  <2>5. \A n \in DOMAIN r : r[n].item # e.item
    BY <1>0, <1>1, <2>4 DEF Held
  <2>6. /\ Distinct(q')
        /\ \A n \in DOMAIN q' : q'[n] = e \/ \E m \in DOMAIN r : q'[n] = r[m]
        /\ \A m \in DOMAIN r : \E n \in DOMAIN q' : q'[n] = r[m]
    BY <1>0, <2>2, <2>4, <2>5, DistinctAppend
  <2>7. \A n \in DOMAIN q' : q'[n] = e \/ \E m \in DOMAIN q : q'[n] = q[m]
    BY <2>4, <2>6
  <2>8. q' \in Seq(Entry)
    BY <1>0, <2>2, <2>4
  <2>9. x # NoItem => /\ \A n \in DOMAIN taken : taken[n] # x
                      /\ \A k \in Polls : chan'[k] # x
    BY <1>1, <2>1 DEF Held
  <2>10. DistinctPlaces' /\ OnePlace'
    BY <1>0, <2>1, <2>6, <2>7, <2>8, <2>9, ToQueue
  <2>11. /\ \A n \in DOMAIN q : q[n].item \in Items
         /\ \A n \in DOMAIN taken : taken[n] \in Items
         /\ \A k \in Polls : chan[k] \in Items \cup {NoItem}
    BY <1>0, EntryItem DEF TypeOK
  <2>12. PlacedArePushed'
    BY <1>0, <2>1, <2>7, <2>11 DEF Places, PlacedArePushed
  <2>13. Places'
    BY <2>1, <2>10, <2>12 DEF Places, WaiterIdle
  <2>14. \A y \in Items : Held(y)' => Held(y) \/ y = x
    BY <1>0, <2>1, <2>7 DEF Held
  <2>15. ASSUME NEW y \in Items, InTransit(y)
         PROVE  InTransit(y)' \/ DroppedByPush(y)
    <3>1. CASE \E k \in Polls : chan[k] = y
      BY <2>1, <3>1 DEF InTransit
    <3>2. CASE \E m \in DOMAIN q : q[m].item = y
      <4>1. PICK m \in DOMAIN q : q[m].item = y
        BY <3>2
      <4>2. CASE \E n \in DOMAIN r : r[n] = q[m]
        BY <2>6, <4>1, <4>2 DEF InTransit, InQueue
      <4>3. CASE ~\E n \in DOMAIN r : r[n] = q[m]
        <5>1. Full /\ r = Tail(q)
          BY <2>4a, <4>1, <4>3 DEF r
        <5>2. m = 1
          BY <1>0, <2>3, <4>1, <4>3, <5>1, DistinctTail
        <5>3. Head(q).item = y /\ q' = Append(Tail(q), e)
          BY <2>2, <2>4b, <4>1, <5>1, <5>2
        <5> QED BY <1>0, <5>1, <5>3 DEF DroppedByPush
      <4> QED BY <4>2, <4>3
    <3> QED BY <2>15, <3>1, <3>2 DEF InTransit, InQueue
  <2>16. \/ waitReply' = wr
         \/ /\ Full /\ Id[Head(q).item] \in Ids
            /\ waitReply' = [wr EXCEPT ![Id[Head(q).item]] = NoItem]
    <3>1. Full => Id[Head(q).item] \in Ids
      BY <2>4b DEF IInv, HasId
    <3> QED BY <1>5, <3>1 DEF PushAgent, MakeRoom, Forget, wr
  <2>17. ASSUME NEW c \in Calls \ {x}, Held(c)', Id[c] \in Ids, waitReply[Id[c]] = c
         PROVE  waitReply'[Id[c]] = c \/ Rival(c)'
    <3>1. CASE Id[c] = Id[x]
      BY <1>3, <3>1
    <3>2. CASE Id[c] # Id[x]
      <4>1. wr[Id[c]] = c
        BY <1>2, <2>17, <3>2
      <4>2. CASE waitReply' = wr
        BY <4>1, <4>2
      <4>3. CASE Full /\ waitReply' = [wr EXCEPT ![Id[Head(q).item]] = NoItem]
        <5>0. PICK h \in Items : h = Head(q).item
          BY <2>4b, <2>11, <4>3
        <5>1. CASE Id[h] # Id[c]
          BY <1>2, <2>17, <4>1, <4>3, <5>0, <5>1
        <5>2. CASE Id[h] = Id[c]
          <6>1. Pushed(h)'
            BY <2>4b, <4>3, <5>0 DEF Places, PlacedArePushed
          <6>2. h # c
            <7> SUFFICES ASSUME h = c PROVE FALSE
              OBVIOUS
            <7>1. \A n \in DOMAIN q' : q'[n].item # c
              BY <1>0, <2>4, <2>6, <4>3, <5>0
            <7>2. /\ \A n \in DOMAIN taken : taken[n] # c
                  /\ \A k \in Polls : chan[k] # c
              BY <2>4b, <4>3, <5>0 DEF Places, OnePlace
            <7> QED BY <2>1, <2>17, <7>1, <7>2 DEF Held
          <6> QED BY <5>2, <6>1, <6>2 DEF Rival
        <5> QED BY <5>1, <5>2
      <4> QED BY <2>16, <4>2, <4>3
    <3> QED BY <3>1, <3>2
  <2>18. waits => waitReply'[Id[x]] = x \/ Rival(x)'
    <3>1. CASE Full /\ Id[Head(q).item] = Id[x]
      <4>1. PICK h \in Items : h = Head(q).item
        BY <2>4b, <2>11, <3>1
      <4>2. Pushed(h)' /\ h # x
        BY <1>1, <2>4b, <3>1, <4>1 DEF Places, PlacedArePushed, Held
      <4> QED BY <3>1, <4>1, <4>2 DEF Rival
    <3>2. CASE ~(Full /\ Id[Head(q).item] = Id[x])
      BY <1>2, <2>16, <3>2
    <3> QED BY <3>1, <3>2
  <2> QED BY <2>13, <2>14, <2>15, <2>17, <2>18
<1> QED BY <1>4, <1>5

LEMMA AcceptedIsRival == AnswerAccepted <=> \A x \in refused : Rival(x)
  BY DEF AnswerAccepted, Rival, Pushed

\* What was pushed stays pushed.
LEMMA PushedStays ==
  ASSUME TypeOK, post' \subseteq post,
         \A c \in Calls : call'[c] = "new" => call[c] = "new"
  PROVE  /\ \A y \in Items : Pushed(y) => Pushed(y)'
         /\ \A y \in Items : Rival(y) => Rival(y)'
<1>1. \A y \in Items : Pushed(y) => Pushed(y)'
  BY DEF Pushed
<1>2. \A y \in Items : Rival(y) => Rival(y)'
  BY <1>1 DEF Rival
<1> QED BY <1>1, <1>2

\* A step that takes no reply channel from a caller without a rival.
LEMMA RegisteredStays ==
  ASSUME Registered, \A y \in Items : Rival(y) => Rival(y)',
         \A c \in Calls : call'[c] = "wait" => call[c] = "wait",
         replied \subseteq replied',
         \A y \in Items : Held(y)' => Held(y),
         \A c \in Calls : call'[c] = "wait" /\ c \notin replied' /\ waitReply[Id[c]] = c
                            => waitReply'[Id[c]] = c \/ Rival(c)'
  PROVE  Registered'
<1> SUFFICES ASSUME NEW c \in Calls, call'[c] = "wait", c \notin replied', Held(c)'
             PROVE  waitReply'[Id[c]] = c \/ Rival(c)'
  BY DEF Registered
<1>1. c \in Items /\ call[c] = "wait" /\ c \notin replied /\ Held(c)
  BY CallsAreItems
<1>2. waitReply[Id[c]] = c \/ Rival(c)
  BY <1>1 DEF Registered
<1> QED BY <1>1, <1>2

LEMMA CallerPlaces ==
  ASSUME IInv, JInv, NEW c \in Calls, Connected(c) \/ GetAnswer(c) \/ CancelAgent(c)
  PROVE  /\ JInv'
         /\ \A p \in Posts : InTransit(p) => InTransit(p)' \/ DroppedByPush(p)
<1> c \in Items
  BY DEF Items
<1>t. TypeOK /\ Places /\ Registered
  BY DEF IInv, JInv
<1>1. CASE (Connected(c) /\ Id[c] = NoId) \/ GetAnswer(c)
  <2>1. /\ UNCHANGED <<q, waiter, waitReply, chan, post, poll, taken, replied, refused>>
        /\ \A d \in Calls : call'[d] = "new" => call[d] = "new"
        /\ \A d \in Calls : call'[d] = "wait" => call[d] = "wait"
    BY <1>1, <1>t DEF Connected, GetAnswer, PushAgent, box, agent, TypeOK
  <2>2. /\ \A y \in Items : Pushed(y) => Pushed(y)'
        /\ \A y \in Items : Rival(y) => Rival(y)'
    BY <1>t, <2>1, PushedStays
  <2>3. /\ \A n \in DOMAIN q : q[n].item \in Items
        /\ \A n \in DOMAIN taken : taken[n] \in Items
        /\ \A k \in Polls : chan[k] \in Items \cup {NoItem}
        /\ \A x \in refused : x \in Items
    BY <1>t, EntryItem DEF TypeOK
  <2>4. PlacedArePushed'
    BY <1>t, <2>1, <2>2, <2>3 DEF Places, PlacedArePushed
  <2>5. Places'
    BY <1>t, <2>1, <2>4 DEF Places, DistinctPlaces, Distinct, OnePlace, WaiterIdle
  <2>6. Registered'
    BY <1>t, <2>1, <2>2, RegisteredStays DEF Held
  <2>7. AnswerAccepted'
    <3>1. \A x \in refused' : Rival(x)'
      BY <2>1, <2>2, <2>3, AcceptedIsRival DEF JInv
    <3> QED BY <3>1 DEF AnswerAccepted, Rival, Pushed
  <2> QED BY <2>1, <2>5, <2>6, <2>7 DEF JInv, InTransit, InQueue
<1>2. CASE Connected(c) /\ Id[c] # NoId
  <2>1. /\ PushAgent(c, TRUE) /\ call' = [call EXCEPT ![c] = "wait"]
        /\ UNCHANGED <<post, poll, taken, replied, refused>>
        /\ Id[c] \in Ids /\ call[c] = "new"
    BY <1>2 DEF Connected, agent
  <2>2. /\ \A d \in Calls : call'[d] = "new" => call[d] = "new"
        /\ \A d \in Calls : call'[d] = "wait" => call[d] = "wait" \/ d = c
        /\ call'[c] = "wait"
    BY <1>t, <2>1 DEF TypeOK
  <2>3. /\ \A y \in Items : Pushed(y) => Pushed(y)'
        /\ \A y \in Items : Rival(y) => Rival(y)'
    BY <1>t, <2>1, <2>2, PushedStays
  <2>4. ~Pushed(c) /\ Pushed(c)'
    BY <1>t, <2>1, <2>2 DEF Pushed, TypeOK
  <2>5. /\ Places'
        /\ \A y \in Items : Held(y)' => Held(y) \/ y = c
        /\ \A d \in Calls \ {c} :
             Held(d)' /\ Id[d] \in Ids /\ waitReply[Id[d]] = d
               => waitReply'[Id[d]] = d \/ Rival(d)'
        /\ waitReply'[Id[c]] = c \/ Rival(c)'
        /\ \A y \in Items : InTransit(y) => InTransit(y)' \/ DroppedByPush(y)
    BY <1>t, <2>1, <2>3, <2>4, PushPlaces
  <2>6. Registered'
    <3> SUFFICES ASSUME NEW d \in Calls, call'[d] = "wait", d \notin replied', Held(d)'
                 PROVE  waitReply'[Id[d]] = d \/ Rival(d)'
      BY DEF Registered
    <3>1. CASE d = c
      BY <2>5, <3>1
    <3>2. CASE d # c
      <4>1. d \in Items /\ call[d] = "wait" /\ d \notin replied /\ Held(d) /\ Id[d] \in Ids
        BY <2>1, <2>2, <2>5, <3>2, CallsAreItems DEF IInv, HasId
      <4>2. waitReply[Id[d]] = d \/ Rival(d)
        BY <1>t, <4>1 DEF Registered
      <4> QED BY <2>3, <2>5, <3>2, <4>1, <4>2
    <3> QED BY <3>1, <3>2
  <2>7. AnswerAccepted'
    <3>1. \A x \in refused' : Rival(x)'
      BY <1>t, <2>1, <2>3, AcceptedIsRival DEF JInv, TypeOK
    <3> QED BY <3>1 DEF AnswerAccepted, Rival, Pushed
  <2> QED BY <2>5, <2>6, <2>7 DEF JInv, Items
<1>3. CASE CancelAgent(c)
  <2>1. /\ call' = [call EXCEPT ![c] = "504"] /\ call[c] = "wait"
        /\ waitReply' = [waitReply EXCEPT ![Id[c]] = NoItem]
        /\ UNCHANGED <<waiter, chan, post, poll, taken, replied, refused>>
    BY <1>3 DEF CancelAgent, Forget, agent
  <2>2. PICK f \in Increasing(Kept(Id[c])) : q' = [n \in DOMAIN f |-> q[f[n]]]
    BY <1>3 DEF CancelAgent
  <2>3. /\ Distinct(q')
        /\ \A n \in DOMAIN q' : \E m \in Kept(Id[c]) : q'[n] = q[m]
        /\ \A m \in Kept(Id[c]) : \E n \in DOMAIN q' : q'[n] = q[m]
    <3>1. Kept(Id[c]) \in SUBSET DOMAIN q
      BY DEF Kept
    <3>2. TypeOK /\ Distinct(q)
      BY <1>t DEF Places, DistinctPlaces
    <3>3. LET s == [n \in DOMAIN f |-> q[f[n]]]
          IN /\ Distinct(s)
             /\ \A n \in DOMAIN s : \E m \in Kept(Id[c]) : s[n] = q[m]
             /\ \A m \in Kept(Id[c]) : \E n \in DOMAIN s : s[n] = q[m]
      <4> HIDE DEF Kept, Distinct, TypeOK
      <4> QED BY <3>1, <3>2, DistinctFilter
    <3> QED BY <2>2, <3>3
  <2>4. /\ q' \in Seq(Entry)
        /\ \A n \in DOMAIN q' : \E m \in DOMAIN q : q'[n] = q[m]
    BY <1>t, <2>2, FilteredQueue, Kept(Id[c]) \in SUBSET DOMAIN q DEF Kept
  <2>5. /\ \A d \in Calls : call'[d] = "new" => call[d] = "new"
        /\ \A d \in Calls : call'[d] = "wait" => call[d] = "wait" /\ d # c
    BY <1>t, <2>1 DEF TypeOK
  <2>6. /\ \A y \in Items : Pushed(y) => Pushed(y)'
        /\ \A y \in Items : Rival(y) => Rival(y)'
    BY <1>t, <2>1, <2>5, PushedStays
  <2>7. /\ \A n \in DOMAIN q : q[n].item \in Items
        /\ \A n \in DOMAIN taken : taken[n] \in Items
        /\ \A k \in Polls : chan[k] \in Items \cup {NoItem}
        /\ \A x \in refused : x \in Items
    BY <1>t, EntryItem DEF TypeOK
  <2>8. DistinctPlaces' /\ OnePlace'
    BY <1>t, <2>1, <2>3, <2>4, ToQueue
  <2>9. PlacedArePushed'
    BY <1>t, <2>1, <2>4, <2>6, <2>7 DEF Places, PlacedArePushed
  <2>10. Places'
    BY <1>t, <2>1, <2>8, <2>9 DEF Places, WaiterIdle
  <2>11. \A y \in Items : Held(y)' => Held(y)
    BY <2>1, <2>4 DEF Held
  <2>12. Pushed(c)'
    BY <1>t, <2>1 DEF Pushed, TypeOK
  <2>13. ASSUME NEW d \in Calls, call'[d] = "wait", waitReply[Id[d]] = d
         PROVE  waitReply'[Id[d]] = d \/ Rival(d)'
    <3>1. CASE Id[d] = Id[c]
      BY <2>5, <2>12, <2>13, <3>1 DEF Rival
    <3>2. CASE Id[d] # Id[c]
      <4>1. Id[d] \in Ids
        BY <2>5, <2>13 DEF IInv, HasId
      <4> QED BY <1>t, <2>1, <2>13, <3>2, <4>1 DEF TypeOK
    <3> QED BY <3>1, <3>2
  <2>14. Registered'
    BY <1>t, <2>1, <2>5, <2>6, <2>11, <2>13, RegisteredStays
  <2>15. AnswerAccepted'
    <3>1. \A x \in refused' : Rival(x)'
      BY <2>1, <2>6, <2>7, AcceptedIsRival DEF JInv
    <3> QED BY <3>1 DEF AnswerAccepted, Rival, Pushed
  <2>16. ASSUME NEW p \in Posts, InTransit(p)
         PROVE  InTransit(p)'
    <3>1. CASE \E k \in Polls : chan[k] = p
      BY <2>1, <3>1 DEF InTransit
    <3>2. CASE \E m \in DOMAIN q : q[m].item = p
      <4>1. PICK m \in DOMAIN q : q[m].item = p
        BY <3>2
      <4>2. ~q[m].reply
        BY <1>t, <4>1 DEF Places, PlacedArePushed
      <4>3. m \in Kept(Id[c])
        BY <4>1, <4>2 DEF Kept
      <4>4. PICK n \in DOMAIN q' : q'[n] = q[m]
        BY <2>3, <4>3
      <4> QED BY <4>1, <4>4 DEF InTransit, InQueue
    <3> QED BY <2>16, <3>1, <3>2 DEF InTransit, InQueue
  <2> QED BY <2>10, <2>14, <2>15, <2>16 DEF JInv
<1> QED BY <1>1, <1>2, <1>3

LEMMA PostPlaces ==
  ASSUME IInv, JInv, NEW p \in Posts, ForwardPosted(p)
  PROVE  /\ JInv'
         /\ \A y \in Posts : InTransit(y) => InTransit(y)' \/ DroppedByPush(y)
<1>t. TypeOK /\ Places /\ Registered
  BY DEF IInv, JInv
<1>1. /\ PushAgent(p, FALSE) /\ p \in Items /\ p \notin Calls
      /\ p \in post /\ post' = post \ {p}
      /\ UNCHANGED <<call, poll, taken, replied, refused>> /\ Id[p] \in Ids
  BY DEF ForwardPosted, agent, Items
<1>2. /\ \A y \in Items : Pushed(y) => Pushed(y)'
      /\ \A y \in Items : Rival(y) => Rival(y)'
  BY <1>t, <1>1, PushedStays
<1>3. ~Pushed(p) /\ Pushed(p)'
  BY <1>1 DEF Pushed
<1>4. /\ Places'
      /\ \A y \in Items : Held(y)' => Held(y) \/ y = p
      /\ \A d \in Calls \ {p} :
           Held(d)' /\ Id[d] \in Ids /\ waitReply[Id[d]] = d
             => waitReply'[Id[d]] = d \/ Rival(d)'
      /\ \A y \in Items : InTransit(y) => InTransit(y)' \/ DroppedByPush(y)
  BY <1>t, <1>1, <1>2, <1>3, PushPlaces
<1>5. Registered'
  <2> SUFFICES ASSUME NEW d \in Calls, call'[d] = "wait", d \notin replied', Held(d)'
               PROVE  waitReply'[Id[d]] = d \/ Rival(d)'
    BY DEF Registered
  <2>1. d \in Items /\ d # p /\ call[d] = "wait" /\ d \notin replied /\ Held(d) /\ Id[d] \in Ids
    BY <1>1, <1>4, CallsAreItems DEF IInv, HasId
  <2>2. waitReply[Id[d]] = d \/ Rival(d)
    BY <1>t, <2>1 DEF Registered
  <2> QED BY <1>2, <1>4, <2>1, <2>2
<1>6. AnswerAccepted'
  <2>1. \A x \in refused' : Rival(x)'
    BY <1>t, <1>1, <1>2, AcceptedIsRival DEF JInv, TypeOK
  <2> QED BY <2>1 DEF AnswerAccepted, Rival, Pushed
<1> QED BY <1>4, <1>5, <1>6 DEF JInv, Items

\* A step of the agent's connections keeps Registered and AnswerAccepted when no
\* item comes to be held that was not.
LEMMA PollFrame ==
  ASSUME TypeOK, JInv, UNCHANGED <<waitReply, call, post, replied, refused>>,
         \A y \in Items : Held(y)' => Held(y)
  PROVE  /\ Registered' /\ AnswerAccepted'
         /\ \A y \in Items : Pushed(y) => Pushed(y)'
<1>1. /\ \A y \in Items : Pushed(y) => Pushed(y)'
      /\ \A y \in Items : Rival(y) => Rival(y)'
  BY PushedStays
<1>2. Registered'
  BY <1>1, RegisteredStays DEF JInv
<1>3. \A x \in refused' : Rival(x)'
  BY <1>1, AcceptedIsRival DEF JInv, TypeOK
<1>4. AnswerAccepted'
  BY <1>3 DEF AnswerAccepted, Rival, Pushed
<1> QED BY <1>1, <1>2, <1>4

LEMMA PollPlaces ==
  ASSUME IInv, JInv, NEW k \in Polls, TakeAgent(k) \/ Receive(k) \/ Expire(k)
  PROVE  /\ JInv'
         /\ \A p \in Posts : InTransit(p) =>
              InTransit(p)' \/ \E n \in DOMAIN taken' : taken'[n] = p
<1>t. TypeOK /\ Places /\ q \in Seq(Entry) /\ Distinct(q) /\ taken \in Seq(Items)
  BY DEF IInv, JInv, TypeOK, Places, DistinctPlaces
<1>f. UNCHANGED <<waitReply, call, post, replied, refused>>
  BY DEF TakeAgent, Receive, Expire, caller
<1>i. /\ \A n \in DOMAIN q : q[n].item \in Items /\ q[n].item # NoItem
      /\ \A n \in DOMAIN taken : taken[n] \in Items
      /\ \A h \in Polls : chan[h] \in Items \cup {NoItem}
  BY <1>t, EntryItem DEF TypeOK
<1>a. ASSUME NEW x \in Items, taken' = Append(taken, x)
      PROVE  /\ \A n \in DOMAIN taken' : taken'[n] = x \/ \E m \in DOMAIN taken : taken'[n] = taken[m]
             /\ \E n \in DOMAIN taken' : taken'[n] = x
  <2>1. Len(taken) \in Nat /\ DOMAIN taken = 1 .. Len(taken)
        /\ DOMAIN taken' = 1 .. (Len(taken) + 1)
    BY <1>t, <1>a
  <2>2. /\ \A n \in 1 .. (Len(taken) + 1) :
             (n \in 1 .. Len(taken) /\ taken'[n] = taken[n]) \/ taken'[n] = x
        /\ taken'[Len(taken) + 1] = x /\ Len(taken) + 1 \in 1 .. (Len(taken) + 1)
    BY <1>t, <1>a, <2>1
  <2> QED BY <2>1, <2>2
<1>1. CASE TakeAgent(k) /\ q # << >>
  <2>1. PICK x \in Items : x = Head(q).item
    BY <1>1, <1>t, <1>i, DistinctTail
  <2>2. /\ taken' = Append(taken, x) /\ q' = Tail(q) /\ UNCHANGED <<waiter, poll, chan>>
    BY <1>1, <2>1 DEF TakeAgent
  <2>3. /\ q' \in Seq(Entry) /\ Distinct(q') /\ x = q[1].item /\ 1 \in DOMAIN q
        /\ \A n \in DOMAIN q' : q'[n].item # x /\ \E m \in DOMAIN q : q'[n] = q[m]
    BY <1>1, <1>t, <2>1, <2>2, DistinctTail
  <2>4. /\ \A n \in DOMAIN taken : taken[n] # x
        /\ \A h \in Polls : chan'[h] # x
    BY <1>t, <2>2, <2>3 DEF Places, OnePlace
  <2>5. DistinctPlaces' /\ OnePlace'
    BY <1>t, <2>2, <2>3, <2>4, ToAgent
  <2>6. \A y \in Items : Held(y)' => Held(y)
    BY <1>a, <2>2, <2>3 DEF Held
  <2>7. /\ Registered' /\ AnswerAccepted'
        /\ \A y \in Items : Pushed(y) => Pushed(y)'
    BY <1>t, <1>f, <2>6, PollFrame
  <2>8. PlacedArePushed'
    BY <1>t, <1>i, <1>a, <2>2, <2>3, <2>7 DEF Places, PlacedArePushed
  <2>9. Places'
    BY <1>t, <2>2, <2>5, <2>8 DEF Places, WaiterIdle
  <2>10. ASSUME NEW p \in Posts, InTransit(p)
         PROVE  InTransit(p)' \/ \E n \in DOMAIN taken' : taken'[n] = p
    <3>1. CASE \E h \in Polls : chan[h] = p
      BY <2>2, <3>1 DEF InTransit
    <3>2. CASE \E m \in DOMAIN q : q[m].item = p
      <4>1. PICK m \in DOMAIN q : q[m].item = p
        BY <3>2
      <4>2. CASE m = 1
        BY <1>a, <2>2, <2>3, <4>1, <4>2
      <4>3. CASE m # 1
        <5>1. Len(q) \in Nat /\ DOMAIN q = 1 .. Len(q) /\ DOMAIN Tail(q) = 1 .. (Len(q) - 1)
          BY <1>t, <1>1
        <5>2. m - 1 \in DOMAIN Tail(q) /\ Tail(q)[m - 1] = q[m]
          BY <1>t, <1>1, <4>1, <4>3, <5>1
        <5> QED BY <2>2, <4>1, <5>2 DEF InTransit, InQueue
      <4> QED BY <4>2, <4>3
    <3> QED BY <2>10, <3>1, <3>2 DEF InTransit, InQueue
  <2> QED BY <2>7, <2>9, <2>10 DEF JInv
<1>2. CASE TakeAgent(k) /\ q = << >>
  <2>1. /\ waiter' = k /\ poll' = [poll EXCEPT ![k] = "open"] /\ poll[k] = "closed"
        /\ UNCHANGED <<q, taken, chan>>
    BY <1>2 DEF TakeAgent
  <2>2. chan[k] = NoItem
    BY <1>t, <2>1 DEF Places, PlacedArePushed
  <2>3. /\ Registered' /\ AnswerAccepted'
        /\ \A y \in Items : Pushed(y) => Pushed(y)'
    BY <1>t, <1>f, <2>1, PollFrame DEF Held
  <2>4. PlacedArePushed'
    BY <1>t, <1>i, <2>1, <2>3 DEF TypeOK, Places, PlacedArePushed
  <2>5. WaiterIdle'
    BY <1>t, <2>1, <2>2 DEF TypeOK, WaiterIdle
  <2>6. Places'
    BY <1>t, <2>1, <2>4, <2>5 DEF Places, DistinctPlaces, Distinct, OnePlace
  <2> QED BY <2>1, <2>3, <2>6 DEF JInv, InTransit, InQueue
<1>3. CASE Receive(k)
  <2>1. PICK x \in Items : x = chan[k]
    BY <1>3, <1>i DEF Receive
  <2>2. /\ taken' = Append(taken, x) /\ UNCHANGED <<q, waiter>> /\ poll[k] = "open"
        /\ chan' = [chan EXCEPT ![k] = NoItem] /\ poll' = [poll EXCEPT ![k] = "closed"]
    BY <1>3, <2>1 DEF Receive
  <2>3. \A h \in Polls : \/ h # k /\ chan'[h] = chan[h] /\ poll'[h] = poll[h]
                         \/ h = k /\ chan'[h] = NoItem
    BY <1>t, <2>2 DEF TypeOK
  <2>4. /\ \A n \in DOMAIN taken : taken[n] # x
        /\ \A h \in Polls : chan'[h] # x
        /\ \A n \in DOMAIN q : q[n].item # x
    BY <1>t, <2>1, <2>3 DEF Places, OnePlace, DistinctPlaces
  <2>5. DistinctPlaces' /\ OnePlace'
    BY <1>t, <2>2, <2>3, <2>4, ToAgent
  <2>6. \A y \in Items : Held(y)' => Held(y)
    BY <1>a, <2>1, <2>2, <2>3 DEF Held
  <2>7. /\ Registered' /\ AnswerAccepted'
        /\ \A y \in Items : Pushed(y) => Pushed(y)'
    BY <1>t, <1>f, <2>6, PollFrame
  <2>8. PlacedArePushed'
    BY <1>t, <1>i, <1>a, <2>1, <2>2, <2>3, <2>7 DEF Places, PlacedArePushed
  <2>9. WaiterIdle'
    BY <1>t, <2>1, <2>2, <2>3 DEF Places, TypeOK, WaiterIdle
  <2>10. Places'
    BY <2>5, <2>8, <2>9 DEF Places
  <2>11. \A p \in Posts : InTransit(p) =>
           InTransit(p)' \/ \E n \in DOMAIN taken' : taken'[n] = p
    BY <1>a, <2>1, <2>2, <2>3 DEF InTransit, InQueue
  <2> QED BY <2>7, <2>10, <2>11 DEF JInv
<1>4. CASE Expire(k)
  <2>1. PICK x \in Items \cup {NoItem} : x = chan[k]
    BY <1>i
  <2> DEFINE e == [item |-> x, reply |-> FALSE]
  <2>2. /\ q' = IF x = NoItem THEN q ELSE <<e>> \o q
        /\ waiter' = IF waiter = k THEN NoPoll ELSE waiter
        /\ chan' = [chan EXCEPT ![k] = NoItem] /\ poll' = [poll EXCEPT ![k] = "closed"]
        /\ poll[k] = "open" /\ taken' = taken
    BY <1>4, <2>1 DEF Expire, Reclaim
  <2>3. \A h \in Polls : \/ h # k /\ chan'[h] = chan[h] /\ poll'[h] = poll[h]
                         \/ h = k /\ chan'[h] = NoItem
    BY <1>t, <2>2 DEF TypeOK
  <2>4. /\ \A n \in DOMAIN taken : taken[n] # x
        /\ x # NoItem => \A h \in Polls : chan'[h] # x
        /\ \A n \in DOMAIN q : q[n].item # x
    BY <1>t, <2>1, <2>3 DEF Places, OnePlace, DistinctPlaces
  <2>5. /\ q' \in Seq(Entry) /\ Distinct(q')
        /\ \A n \in DOMAIN q' : \/ x # NoItem /\ q'[n] = e
                                \/ \E m \in DOMAIN q : q'[n] = q[m]
        /\ \A m \in DOMAIN q : \E n \in DOMAIN q' : q'[n] = q[m]
        /\ x # NoItem => \E n \in DOMAIN q' : q'[n] = e
    <3>1. CASE x = NoItem
      BY <1>t, <2>2, <3>1
    <3>2. CASE x # NoItem
      <4>1. e \in Entry /\ e.item = x /\ q' = <<e>> \o q
        BY <2>1, <2>2, <3>2 DEF Entry
      <4> HIDE DEF e
      <4>2. \A n \in DOMAIN q : q[n].item # e.item
        BY <2>4, <4>1
      <4>3. /\ Distinct(q')
            /\ \A n \in DOMAIN q' : q'[n] = e \/ \E m \in DOMAIN q : q'[n] = q[m]
            /\ \A m \in DOMAIN q : \E n \in DOMAIN q' : q'[n] = q[m]
            /\ \E n \in DOMAIN q' : q'[n] = e
        <5>1. q \in Seq(Entry) /\ e \in Entry /\ Distinct(q)
          BY <1>t, <4>1
        <5>2. /\ Distinct(<<e>> \o q)
              /\ \A n \in DOMAIN (<<e>> \o q) :
                   (<<e>> \o q)[n] = e \/ \E m \in DOMAIN q : (<<e>> \o q)[n] = q[m]
              /\ \A m \in DOMAIN q : \E n \in DOMAIN (<<e>> \o q) : (<<e>> \o q)[n] = q[m]
              /\ \E n \in DOMAIN (<<e>> \o q) : (<<e>> \o q)[n] = e
          BY <4>2, <5>1, DistinctCons
        <5>3. q' = <<e>> \o q
          BY <4>1
        <5> QED BY <5>2, <5>3, Zenon
      <4>4. q' \in Seq(Entry)
        BY <1>t, <4>1
      <4> QED BY <3>2, <4>3, <4>4
    <3> QED BY <3>1, <3>2
  <2>6. e.item = x /\ e.reply = FALSE
    OBVIOUS
  <2> HIDE DEF e
  <2>7. DistinctPlaces' /\ OnePlace'
    <3>1. \A n \in DOMAIN q' : q'[n].item = x \/ \E m \in DOMAIN q : q'[n] = q[m]
      BY <2>5, <2>6
    <3>2. \A h \in Polls : chan'[h] \in {chan[h], NoItem}
      BY <2>3
    <3> QED BY <1>t, <2>2, <2>4, <2>5, <3>1, <3>2, ToQueue
  <2>8. \A y \in Items : Held(y)' => Held(y)
    BY <2>1, <2>2, <2>3, <2>5, <2>6 DEF Held
  <2>9. /\ Registered' /\ AnswerAccepted'
        /\ \A y \in Items : Pushed(y) => Pushed(y)'
    BY <1>t, <1>f, <2>8, PollFrame
  <2>10. PlacedArePushed'
    <3>1. x # NoItem => Pushed(x)'
      BY <1>t, <2>1, <2>9 DEF Places, PlacedArePushed
    <3> QED
      BY <1>t, <1>i, <2>2, <2>3, <2>5, <2>6, <2>9, <3>1 DEF Places, PlacedArePushed
  <2>11. WaiterIdle'
    BY <1>t, <2>2, <2>3 DEF Places, TypeOK, WaiterIdle
  <2>12. Places'
    BY <2>7, <2>10, <2>11 DEF Places
  <2>13. \A p \in Posts : InTransit(p) => InTransit(p)'
    <3>1. \A p \in Posts : p # NoItem
      BY DEF Items
    <3> QED BY <2>1, <2>3, <2>5, <2>6, <3>1 DEF InTransit, InQueue
  <2> QED BY <2>9, <2>12, <2>13 DEF JInv
<1> QED BY <1>1, <1>2, <1>3, <1>4

LEMMA ReplyPlaces ==
  ASSUME IInv, JInv, NEW x \in Items, ReplyAgent(x) \/ ReplySend(x)
  PROVE  JInv' /\ \A p \in Posts : InTransit(p) => InTransit(p)'
<1>t. TypeOK /\ Places /\ Registered
  BY DEF IInv, JInv
<1>1. /\ UNCHANGED <<q, waiter, chan, call, post, poll, taken>>
      /\ replied \subseteq replied'
  BY DEF ReplyAgent, ReplySend, box, caller, agent
<1>2. /\ \A y \in Items : Pushed(y) => Pushed(y)'
      /\ \A y \in Items : Rival(y) => Rival(y)'
  BY <1>t, <1>1, PushedStays
<1>3. Places' /\ \A y \in Items : Held(y)' => Held(y)
  BY <1>t, <1>1 DEF Places, DistinctPlaces, Distinct, OnePlace, PlacedArePushed, Pushed,
     WaiterIdle, Held
<1>4. \A p \in Posts : InTransit(p) => InTransit(p)'
  BY <1>1 DEF InTransit, InQueue
<1>5. CASE ReplySend(x)
  <2>1. UNCHANGED <<waitReply, replied, refused>>
    BY <1>5 DEF ReplySend, box, agent
  <2>2. Registered'
    BY <1>t, <1>1, <1>2, <1>3, <2>1, RegisteredStays
  <2>3. \A y \in refused' : Rival(y)'
    BY <1>t, <1>2, <2>1, AcceptedIsRival DEF JInv, TypeOK
  <2>4. AnswerAccepted'
    BY <2>3 DEF AnswerAccepted, Rival, Pushed
  <2> QED BY <1>3, <1>4, <2>2, <2>4 DEF JInv
<1>6. CASE ReplyAgent(x)
  <2>1. /\ waitReply' = [waitReply EXCEPT ![Id[x]] = NoItem]
        /\ replied' = replied \cup {x}
        /\ refused' = IF waitReply[Id[x]] = NoItem /\ x \notin replied /\ Waits(x)
                      THEN refused \cup {x} ELSE refused
    BY <1>6 DEF ReplyAgent, CallOf, Forget
  <2>2. Id[x] \in Ids /\ Pushed(x) /\ Held(x)
    BY <1>6, <1>t DEF ReplyAgent, IInv, HasId, Places, PlacedArePushed, Held
  <2>3. ASSUME NEW c \in Calls, call'[c] = "wait", c \notin replied', waitReply[Id[c]] = c
        PROVE  waitReply'[Id[c]] = c \/ Rival(c)'
    <3>1. c # x /\ Id[c] \in Ids
      BY <1>1, <2>1, <2>3 DEF IInv, HasId
    <3>2. CASE Id[c] = Id[x]
      BY <1>2, <2>2, <3>1, <3>2 DEF Rival
    <3>3. CASE Id[c] # Id[x]
      BY <1>t, <2>1, <2>2, <2>3, <3>1, <3>3 DEF TypeOK
    <3> QED BY <3>2, <3>3
  <2>4. Registered'
    BY <1>t, <1>1, <1>2, <1>3, <2>3, RegisteredStays
  <2>5. ASSUME waitReply[Id[x]] = NoItem, x \notin replied, Waits(x)
        PROVE  Rival(x)
    BY <1>t, <2>2, <2>5, CallsAreItems DEF Registered, Waits
  <2>6. \A y \in refused' : Rival(y)'
    BY <1>t, <1>2, <2>1, <2>5, AcceptedIsRival DEF JInv, TypeOK
  <2>7. AnswerAccepted'
    BY <2>6 DEF AnswerAccepted, Rival, Pushed
  <2> QED BY <1>3, <1>4, <2>4, <2>7 DEF JInv
<1> QED BY <1>5, <1>6

LEMMA PlacesStep == IInv /\ JInv /\ [Next]_vars => JInv'
<1> SUFFICES ASSUME IInv, JInv, [Next]_vars PROVE JInv'
  OBVIOUS
<1>1. CASE UNCHANGED vars
  BY <1>1 DEF vars, box, caller, agent, JInv, Places, DistinctPlaces, Distinct, OnePlace,
     PlacedArePushed, Pushed, WaiterIdle, Registered, Held, Rival, AnswerAccepted
<1> QED
  BY <1>1, CallerPlaces, PostPlaces, PollPlaces, ReplyPlaces DEF Next

LEMMA PlacesInit == Init => JInv
<1> SUFFICES ASSUME Init PROVE JInv
  OBVIOUS
<1>1. DOMAIN q = {} /\ DOMAIN taken = {}
  BY DEF Init
<1>2. \A k \in Polls : chan[k] = NoItem
  BY DEF Init
<1>3. Places
  BY <1>1, <1>2 DEF Init, Places, DistinctPlaces, Distinct, OnePlace, PlacedArePushed,
     WaiterIdle
<1>4. Registered /\ AnswerAccepted
  BY DEF Init, Registered, AnswerAccepted
<1> QED BY <1>3, <1>4 DEF JInv

LEMMA PlacesInvariant == Spec => [](IInv /\ JInv)
  BY Invariant, PlacesInit, PlacesStep, PTL DEF Spec

\* The set of places in the words of HandedOnce has at most one member.
LEMMA AtMostOne ==
  ASSUME NEW S, \A a, b \in S : a = b
  PROVE  Cardinality(S) <= 1
<1>1. CASE S = {}
  BY <1>1, FS_EmptySet
<1>2. CASE S # {}
  <2>1. PICK a \in S : TRUE
    BY <1>2
  <2>2. S = {a}
    BY <2>1
  <2>3. Cardinality({a}) = 1
    BY FS_Singleton
  <2> QED BY <2>2, <2>3
<1> QED BY <1>1, <1>2

\* An item of the mailbox is in one place only: neither a push, a cancelled
\* call, nor TakeAgent putting a late item back can make the agent get it twice.
THEOREM ItemsAreHandedOnce == Spec => []HandedOnce
<1>1. ASSUME IInv, JInv PROVE HandedOnce
  <2> SUFFICES ASSUME NEW x \in Items
               PROVE  Cardinality({<<"queue", n>> : n \in {m \in DOMAIN q : q[m].item = x}}
                        \cup {<<"chan", k>> : k \in {h \in Polls : chan[h] = x}}
                        \cup {<<"taken", n>> : n \in {m \in DOMAIN taken : taken[m] = x}}) <= 1
    BY DEF HandedOnce
  <2> DEFINE S == {<<"queue", n>> : n \in {m \in DOMAIN q : q[m].item = x}}
                    \cup {<<"chan", k>> : k \in {h \in Polls : chan[h] = x}}
                    \cup {<<"taken", n>> : n \in {m \in DOMAIN taken : taken[m] = x}}
  <2>1. x # NoItem /\ DistinctPlaces /\ OnePlace
    BY <1>1 DEF JInv, Places
  <2>2. \A a \in S : \/ \E n \in DOMAIN q : q[n].item = x /\ a = <<"queue", n>>
                     \/ \E k \in Polls : chan[k] = x /\ a = <<"chan", k>>
                     \/ \E n \in DOMAIN taken : taken[n] = x /\ a = <<"taken", n>>
    OBVIOUS
  <2> HIDE DEF S
  <2>3. ASSUME NEW a \in S, NEW b \in S PROVE a = b
    <3>1. CASE \E n \in DOMAIN q : q[n].item = x /\ a = <<"queue", n>>
      BY <2>1, <2>2, <3>1 DEF DistinctPlaces, Distinct, OnePlace
    <3>2. CASE \E k \in Polls : chan[k] = x /\ a = <<"chan", k>>
      BY <2>1, <2>2, <3>2 DEF DistinctPlaces, Distinct, OnePlace
    <3>3. CASE \E n \in DOMAIN taken : taken[n] = x /\ a = <<"taken", n>>
      BY <2>1, <2>2, <3>3 DEF DistinctPlaces, Distinct, OnePlace
    <3> QED BY <2>2, <3>1, <3>2, <3>3
  <2>4. Cardinality(S) <= 1
    BY <2>3, AtMostOne
  <2> QED BY <2>4 DEF S
<1> QED BY <1>1, PlacesInvariant, PTL

\* ReplyAgent refuses a first answer only when a second item with the same id has
\* been pushed: with unique ids no waiting caller loses its answer.
THEOREM FirstAnswersAreAccepted == Spec => []AnswerAccepted
<1>1. JInv => AnswerAccepted
  BY DEF JInv
<1> QED BY <1>1, PlacesInvariant, PTL

\* A group message leaves the mailbox only for the agent or as the oldest of a full
\* queue in which PushAgent made room for another: CancelAgent and TakeAgent's
\* deadline never lose one.
THEOREM PostsAreKept == Spec => PostsKept
<1>1. ASSUME IInv, JInv, [Next]_vars
      PROVE  [\A p \in Posts : InTransit(p) /\ ~InTransit(p)'
                => p \in {taken'[n] : n \in DOMAIN taken'} \/ DroppedByPush(p)]_vars
  <2> SUFFICES ASSUME Next, NEW p \in Posts, InTransit(p), ~InTransit(p)', ~DroppedByPush(p)
               PROVE  \E n \in DOMAIN taken' : taken'[n] = p
    BY <1>1
  <2> QED
    BY <1>1, CallerPlaces, PostPlaces, PollPlaces, ReplyPlaces DEF Next
<1> QED BY <1>1, PlacesInvariant, PTL DEF Spec, PostsKept

=============================================================================
