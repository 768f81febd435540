----------------------------- MODULE ProxyProofs -----------------------------
(***************************************************************************)
(* Proofs about Proxy: its types, that the fallback loop keeps to the      *)
(* key's aliases, calls none twice and sends every body as it was, that a  *)
(* request gets one response and the log one row per call, and that the    *)
(* connection counts are exact.                                            *)
(***************************************************************************)
EXTENDS Proxy, TLAPS, FiniteSetTheorems

\* A request from its pick to the end of its call has a backend.
Targeted == \A r \in Requests : pc[r] \in Holding \cup {"guard", "inc"} => target[r] \in Ids
TInv == TypeOK /\ Targeted

LEMMA InitType == Init => TInv
BY RequestsAssumption, BackendsAssumption, AliasesAssumption, RowsAssumption, BoundsAssumption
DEF Init, TInv, Targeted, TypeOK, Ids, PCs, Idle, Rows, Holding

\* What Inc and Dec do to the counters' type.
LEMMA IncType == ASSUME conn \in [Ids -> Nat], NEW b \in Ids, Inc(b) PROVE conn' \in [Ids -> Nat]
BY DEF Inc
LEMMA DecType == ASSUME conn \in [Ids -> Nat], NEW b \in Ids, Dec(b) PROVE conn' \in [Ids -> Nat]
BY DEF Dec

\* What writing to the log and to the client does to the histories' types.
LEMMA LogType ==
  ASSUME logs \in [Requests -> Nat], NEW r \in Requests, Log(r)
  PROVE  logs' \in [Requests -> Nat]
BY DEF Log
LEMMA WriteType ==
  ASSUME resp \in [Requests -> Seq(Codes)], NEW r \in Requests, NEW s \in Codes, Write(r, s)
  PROVE  resp' \in [Requests -> Seq(Codes)]
BY DEF Write

\* Edits of a row.
LEMMA RowEdits ==
  ASSUME NEW m \in Rows, NEW x \in Aliases \cup {NoAlias}
  PROVE  /\ m.fallback \in Aliases \cup {NoAlias}
         /\ [m EXCEPT !.fallback = x] \in Rows
         /\ [m EXCEPT !.exists = FALSE, !.on = FALSE] \in Rows
BY DEF Rows

\* The steps that edit tables and statuses keep the types.
LEMMA AdminType ==
  ASSUME TInv, (AdminStep \/ \E b \in Backends : Check(b)) /\ UNCHANGED entry
  PROVE  TInv'
<1>a. Targeted'
  BY DEF TInv, Targeted, AdminStep, Check, SetBackendEnabled, DeleteBackend, SaveModel, Unreference,
         SaveUnlink, SaveLink, DeleteModel, Requestless, forw
<1> USE BackendsAssumption, AliasesAssumption, RowsAssumption
    DEF TInv, TypeOK, Requestless, admin, forw, outs
<1>1. CASE \E b \in Backends : SetBackendEnabled(b)
  BY <1>1, <1>a DEF SetBackendEnabled
<1>2. CASE \E b \in Backends : DeleteBackend(b)
  BY <1>2, <1>a DEF DeleteBackend
<1>3. CASE \E a \in Aliases : SaveModel(a)
  <2>0. PICK a \in Aliases : SaveModel(a)
    BY <1>3
  <2>1. PICK f \in Saves[a] :
          /\ models' = [models EXCEPT ![a] =
                         [f.row EXCEPT !.fallback = IF @ = a THEN NoAlias ELSE @]]
          /\ saving' = [alias |-> a, step |-> "unlink", todo |-> f.links]
    BY <2>0 DEF SaveModel
  <2>2. f.row \in Rows /\ f.links \in SUBSET Backends
    BY <2>1
  <2>3. [f.row EXCEPT !.fallback = IF @ = a THEN NoAlias ELSE @] \in Rows
    BY <2>2, RowEdits DEF Rows
  <2>4. models' \in [Aliases -> Rows]
    BY <2>1, <2>3
  <2>5. saving' \in [alias : Aliases \cup {NoAlias}, todo : SUBSET Backends,
                    step : {"none", "unlink", "link", "delete"}]
    BY <2>1, <2>2
  <2> QED BY <2>0, <1>a, <2>4, <2>5 DEF SaveModel
<1>4. CASE \E a \in Aliases : Unreference(a)
  <2>1. PICK a \in Aliases : Unreference(a)
    BY <1>4
  <2>2. ASSUME NEW x \in Aliases
        PROVE  [models[x] EXCEPT !.fallback = IF @ = a THEN NoAlias ELSE @] \in Rows
    BY RowEdits DEF Rows
  <2>3. models' \in [Aliases -> Rows]
    BY <2>1, <2>2 DEF Unreference
  <2> QED BY <2>1, <2>3, <1>a DEF Unreference
<1>5. CASE SaveUnlink
  BY <1>5, <1>a DEF SaveUnlink, Idle
<1>6. CASE SaveLink
  <2>1. PICK b \in saving.todo :
          IF backs[b] = "none" THEN saving' = Idle /\ UNCHANGED links
          ELSE /\ links' = [links EXCEPT ![saving.alias] = @ \cup {b}]
               /\ saving' = IF saving.todo = {b} THEN Idle
                            ELSE [saving EXCEPT !.todo = @ \ {b}]
    BY <1>6 DEF SaveLink
  <2>2. b \in Backends
    BY <2>1
  <2>3. links' \in [Aliases -> SUBSET Backends]
    <3>1. CASE backs[b] = "none"
      BY <3>1, <2>1
    <3>2. CASE backs[b] # "none"
      <4>1. links' = [links EXCEPT ![saving.alias] = links[saving.alias] \cup {b}]
        BY <3>2, <2>1
      <4>2. \A x \in Aliases : links'[x] \subseteq Backends
        BY <4>1, <2>2
      <4> QED BY <4>1, <4>2
    <3> QED BY <3>1, <3>2
  <2>4. saving' \in [alias : Aliases \cup {NoAlias}, todo : SUBSET Backends,
                    step : {"none", "unlink", "link", "delete"}]
    <3>1. saving.todo \ {b} \in SUBSET Backends
      OBVIOUS
    <3>2. [saving EXCEPT !.todo = @ \ {b}] \in
            [alias : Aliases \cup {NoAlias}, todo : SUBSET Backends,
             step : {"none", "unlink", "link", "delete"}]
      BY <3>1
    <3> QED BY <2>1, <3>2 DEF Idle
  <2> QED BY <1>6, <2>3, <2>4, <1>a DEF SaveLink
<1>7. CASE DeleteModel
  <2>1. models' \in [Aliases -> Rows]
    <3> DEFINE d == [models[saving.alias] EXCEPT !.exists = FALSE, !.on = FALSE]
    <3>1. models' = [models EXCEPT ![saving.alias] = d]
      BY <1>7 DEF DeleteModel
    <3>2. saving.alias \in Aliases => d \in Rows
      BY RowEdits
    <3> HIDE DEF d
    <3>3. models \in [Aliases -> Rows]
      OBVIOUS
    <3> QED BY ONLY <3>1, <3>2, <3>3
  <2> QED BY <1>7, <2>1, <1>a DEF DeleteModel, Idle
<1>8. CASE \E b \in Backends : Check(b)
  BY <1>8, <1>a DEF Check
<1> QED BY <1>1, <1>2, <1>3, <1>4, <1>5, <1>6, <1>7, <1>8 DEF AdminStep

\* The body of a call is made of marks.
LEMMA PayloadType ==
  ASSUME TypeOK, NEW r \in Requests
  PROVE  Payload(r) \in SUBSET Marks
BY DEF TypeOK, Payload, Marks

\* A request's own steps keep the types.
LEMMA RequestType ==
  ASSUME TInv, NEW r \in Requests, RequestStep(r)
  PROVE  TInv'
<1> USE BackendsAssumption, AliasesAssumption, BoundsAssumption
    DEF TInv, TypeOK, Targeted, Holding, admin, forw, outs, Return, Goto, Write, Log, PCs, Codes
<1>1. CASE TryRoute(r) /\ UNCHANGED entry
  <2>1. rr' = (rr + 1) % Cycle \/ rr' = rr
    BY ONLY <1>1 DEF TryRoute, CountTurn
  <2>2. rr' \in 0..(Cycle - 1)
    BY <2>1
  <2>3. pc' \in [Requests -> PCs] /\ (pc'[r] \in {"new", "entry"})
        /\ \A q \in Requests \ {r} : pc'[q] = pc[q]
    BY <1>1 DEF TryRoute
  <2>4. UNCHANGED <<backs, admin, stat, conn, forw, outs>>
    BY ONLY <1>1 DEF TryRoute
  <2>5. Targeted'
    BY <2>3, <2>4
  <2> QED BY <1>1, <2>2, <2>3, <2>4, <2>5
<1>2. CASE Refuse(r) /\ UNCHANGED entry
  BY <1>2 DEF Refuse
<1>3. CASE Persist(r) /\ UNCHANGED entry
  BY <1>3 DEF Persist
<1>4. CASE Enter(r) /\ UNCHANGED entry
  BY <1>4 DEF Enter
<1>5. CASE Leave(r) /\ UNCHANGED entry
  BY <1>5 DEF Leave
<1>6. CASE Pick(r) /\ UNCHANGED entry
  <2> DEFINE a == model[r]
             m == models[a]
             C == IF IsHub(m, a) THEN {} ELSE Candidates(m, links[a], a)
  <2>1. m \in Rows /\ C \subseteq Backends /\ a \in Aliases
    BY DEF Candidates
  <2>2. rr' \in 0..(Cycle - 1)
    <3>1. rr' = (rr + 1) % Cycle \/ rr' = rr
      BY ONLY <1>6 DEF Pick, PickNoting, CountTurn
    <3> QED BY <3>1
  <2>3. tried' \in [Requests -> SUBSET Aliases]
    BY <1>6, <2>1 DEF Pick, PickNoting
  <2>4. CASE \E b \in Ids, u \in Aliases : Picked(r, b, u)
    BY <1>6, <2>2, <2>3, <2>4 DEF Pick, PickNoting, Picked
  <2>5. CASE Goto(r, "next") /\ UNCHANGED <<target, up>>
    BY <1>6, <2>2, <2>3, <2>5 DEF Pick, PickNoting
  <2> QED BY <1>6, <2>1, <2>4, <2>5 DEF Pick, PickNoting, Ids, Rows
<1>7. CASE NotRelayed(r) /\ UNCHANGED entry
  BY <1>7 DEF NotRelayed
<1>8. CASE Blocked(r) /\ UNCHANGED entry
  BY <1>8 DEF Blocked
<1>9. CASE Guard(r) /\ UNCHANGED entry
  BY <1>9 DEF Guard, Marks
<1>10. CASE Count(r) /\ UNCHANGED entry
  <2>1. conn' \in [Ids -> Nat]
    BY <1>10, IncType DEF Count
  <2> QED BY <1>10, <2>1 DEF Count
<1>11. CASE Unsent(r) /\ UNCHANGED entry
  <2>1. conn' \in [Ids -> Nat]
    BY <1>11, DecType DEF Unsent
  <2>2. (Log(r) /\ Write(r, "session")) \/ (Write(r, "unsent") /\ UNCHANGED logs)
    BY <1>11 DEF Unsent
  <2>3. logs' \in [Requests -> Nat]
    BY <2>2, LogType
  <2>4. resp' \in [Requests -> Seq(Codes)]
    BY <2>2, WriteType
  <2> QED BY <1>11, <2>1, <2>3, <2>4 DEF Unsent
<1>12. CASE Send(r) /\ UNCHANGED entry
  <2>1. [alias |-> model[r], to |-> target[r], body |-> Payload(r)] \in Calls
    BY <1>12, PayloadType DEF Send, Calls
  <2>2. sent' \in [Requests -> Seq(Calls)]
    BY <1>12, <2>1 DEF Send
  <2> QED BY <1>12, <2>2 DEF Send
<1>13. CASE Refused(r) /\ UNCHANGED entry
  <2>1. conn' \in [Ids -> Nat]
    BY <1>13, DecType DEF Refused
  <2> QED BY <1>13, <2>1 DEF Refused
<1>14. CASE Answer(r) /\ UNCHANGED entry
  <2>1. conn' \in [Ids -> Nat]
    BY <1>14, DecType DEF Answer
  <2> QED BY <1>14, <2>1 DEF Answer
<1>15. CASE StreamHead(r) /\ UNCHANGED entry
  BY <1>15 DEF StreamHead
<1>16. CASE StreamEnd(r) /\ UNCHANGED entry
  <2>1. conn' \in [Ids -> Nat]
    BY <1>16, DecType DEF StreamEnd
  <2> QED BY <1>16, <2>1 DEF StreamEnd
<1>17. CASE Onward(r) /\ UNCHANGED entry
  BY <1>17 DEF Onward, FallbackOf, Rows
<1>18. CASE GiveUp(r) /\ UNCHANGED entry
  BY <1>18 DEF GiveUp
<1> QED
  BY <1>1, <1>2, <1>3, <1>4, <1>5, <1>6, <1>7, <1>8, <1>9, <1>10, <1>11, <1>12,
     <1>13, <1>14, <1>15, <1>16, <1>17, <1>18 DEF RequestStep, Advance

LEMMA StepType == ASSUME TInv, [Next]_vars PROVE TInv'
<1>1. CASE UNCHANGED vars
  BY <1>1 DEF vars, admin, forw, outs, TInv, TypeOK, Targeted
<1> QED BY <1>1, AdminType, RequestType DEF Next

\* The tables, the checker's maps and the requests' locals keep their types.
THEOREM TypeCorrect == Spec => []TypeOK
<1>1. TInv /\ [Next]_vars => TInv'
  BY StepType
<1>2. TInv => TypeOK
  BY DEF TInv
<1> QED BY InitType, <1>1, <1>2, PTL DEF Spec
-----------------------------------------------------------------------------
(***************************************************************************)
(* The fallback loop, one request at a time.                               *)
(***************************************************************************)
Local(q) == <<entry[q], pc[q], model[q], tried[q], target[q], body[q], sent[q], resp[q], logs[q]>>

\* A step of one request leaves the others alone, and so do table edits.
LEMMA Others ==
  ASSUME TInv, NEW r \in Requests, RequestStep(r), NEW q \in Requests \ {r}
  PROVE  UNCHANGED Local(q)
<1> USE DEF TInv, TypeOK, Local, admin, forw, outs, Return, Goto, Write, Log
<1>1. CASE TryRoute(r) \/ Refuse(r) \/ Persist(r)
  BY <1>1 DEF RequestStep, Advance, TryRoute, Refuse, Persist
<1>2. CASE Enter(r) \/ Leave(r) \/ NotRelayed(r) \/ Blocked(r) \/ Guard(r) \/ Count(r)
  BY <1>2 DEF RequestStep, Advance, Enter, Leave, NotRelayed, Blocked, Guard, Count
<1>3. CASE Pick(r)
  BY <1>3 DEF RequestStep, Advance, Pick, PickNoting, Picked
<1>4. CASE Unsent(r) \/ Send(r) \/ Refused(r) \/ Answer(r)
  BY <1>4 DEF RequestStep, Advance, Unsent, Send, Refused, Answer
<1>5. CASE StreamHead(r) \/ StreamEnd(r) \/ Onward(r) \/ GiveUp(r)
  BY <1>5 DEF RequestStep, Advance, StreamHead, StreamEnd, Onward, GiveUp
<1> QED BY <1>1, <1>2, <1>3, <1>4, <1>5 DEF RequestStep, Advance
LEMMA Edits ==
  ASSUME (AdminStep \/ \E b \in Backends : Check(b)) /\ UNCHANGED entry
  PROVE  UNCHANGED conn /\ \A q \in Requests : UNCHANGED Local(q)
BY DEF AdminStep, Check, SetBackendEnabled, DeleteBackend, SaveModel, Unreference, SaveUnlink,
       SaveLink, DeleteModel, Requestless, forw, outs, Local

\* What the loop knows of a request: the alias it is about to call may be used,
\* is noted as tried and was not called; every call so far was for a tried
\* alias; and Forward's filtered body holds nothing of a hop.
MayCall(r, a) == AllowedFor(r, a) \/ (a = Model[r] /\ ~ChecksModel(r))
Before  == {"new", "entry"}
Calling == {"guard", "inc", "send"}
Aim(r) ==
  /\ pc[r] \in Before => tried[r] = {}
  /\ pc[r] \in Before \cup {"hop"} /\ tried[r] = {} => model[r] = Model[r] /\ sent[r] = << >>
  /\ pc[r] = "hop" /\ tried[r] = {} => MayCall(r, model[r])
  /\ pc[r] \in Calling => MayCall(r, model[r])
  /\ pc[r] \in Calling \cup {"wait", "stream", "next"} => model[r] \in tried[r]
Past(r) ==
  /\ pc[r] # "done" => \A i \in DOMAIN sent[r] : sent[r][i].alias \in tried[r]
  /\ pc[r] \in Calling => \A i \in DOMAIN sent[r] : sent[r][i].alias # model[r]
  /\ \A i \in DOMAIN sent[r] : MayCall(r, sent[r][i].alias)
  /\ \A i, j \in DOMAIN sent[r] : sent[r][i].alias = sent[r][j].alias => i = j
Clean(r) ==
  /\ \A a \in Aliases : <<"params", a>> \notin body[r]
  /\ <<"cache">> \notin body[r]
  /\ \A i \in DOMAIN sent[r] :
       /\ \A a \in Aliases : <<"params", a>> \in sent[r][i].body => a = sent[r][i].alias
       /\ <<"cache">> \in sent[r][i].body => KindOf(sent[r][i].to) = "openrouter"
\* The calls made and the one to come are counted by tried.
Hops(r) ==
  /\ Cardinality(tried[r]) <= MaxHops
  /\ pc[r] # "done" => Len(sent[r]) <= Cardinality(tried[r])
  /\ pc[r] \in Calling => Len(sent[r]) < Cardinality(tried[r])
  /\ Len(sent[r]) <= MaxHops

LEMMA TriedFinite ==
  ASSUME TypeOK, NEW r \in Requests
  PROVE  IsFiniteSet(tried[r]) /\ Cardinality(tried[r]) \in Nat
BY AliasesAssumption, FS_Subset, FS_CardinalityType DEF TypeOK

LEMMA AimStep ==
  ASSUME TInv, NEW r \in Requests, Aim(r), RequestStep(r)
  PROVE  Aim(r)'
<1> USE DEF TInv, TypeOK, Aim, Before, Calling, MayCall, AllowedFor, ChecksModel, admin, forw, outs,
            Return, Goto
<1>1. CASE TryRoute(r) \/ Refuse(r) \/ Persist(r)
  BY <1>1 DEF RequestStep, Advance, TryRoute, Refuse, Persist
<1>2. CASE Enter(r)
  BY <1>2, AliasesAssumption DEF RequestStep, Advance, Enter, Ready
<1>3. CASE Leave(r) \/ NotRelayed(r) \/ Blocked(r) \/ Guard(r) \/ Count(r)
  BY <1>3 DEF RequestStep, Advance, Leave, NotRelayed, Blocked, Guard, Count
<1>4. CASE Pick(r)
  BY <1>4 DEF RequestStep, Advance, Pick, PickNoting, Picked, MayUse
<1>5. CASE Unsent(r) \/ Send(r) \/ Refused(r) \/ Answer(r)
  BY <1>5 DEF RequestStep, Advance, Unsent, Send, Refused, Answer
<1>6. CASE StreamHead(r) \/ StreamEnd(r) \/ GiveUp(r)
  BY <1>6 DEF RequestStep, Advance, StreamHead, StreamEnd, GiveUp
<1>7. CASE Onward(r)
  BY <1>7 DEF RequestStep, Advance, Onward
<1> QED BY <1>1, <1>2, <1>3, <1>4, <1>5, <1>6, <1>7 DEF RequestStep, Advance

\* The entries of a sequence with one more at its end.
LEMMA Appended ==
  ASSUME NEW S, NEW s \in Seq(S), NEW c, NEW t, t = Append(s, c), NEW i \in DOMAIN t
  PROVE  \/ i \in DOMAIN s /\ t[i] = s[i]
         \/ i = Len(s) + 1 /\ i \notin DOMAIN s /\ t[i] = c
OBVIOUS

LEMMA PastStep ==
  ASSUME TInv, NEW r \in Requests, Aim(r), Past(r), RequestStep(r)
  PROVE  Past(r)'
<1> USE DEF TInv, TypeOK, Past, Before, Calling, MayCall, AllowedFor, ChecksModel, admin, forw, outs,
            Return, Goto
<1>1. CASE TryRoute(r) \/ Refuse(r) \/ Persist(r) \/ Enter(r)
  BY <1>1 DEF RequestStep, Advance, TryRoute, Refuse, Persist, Enter, Ready
<1>2. CASE Leave(r) \/ NotRelayed(r) \/ Blocked(r) \/ Guard(r) \/ Count(r)
  BY <1>2 DEF RequestStep, Advance, Leave, NotRelayed, Blocked, Guard, Count
<1>3. CASE Pick(r)
  BY <1>3 DEF RequestStep, Advance, Pick, PickNoting, Picked, MayTry
<1>4. CASE Unsent(r) \/ Refused(r) \/ Answer(r)
  BY <1>4 DEF RequestStep, Advance, Unsent, Refused, Answer
<1>5. CASE Send(r)
  <2> DEFINE c == [alias |-> model[r], to |-> target[r], body |-> Payload(r)]
  <2>1. sent'[r] = Append(sent[r], c) /\ pc'[r] = "wait" /\ UNCHANGED <<tried, entry, model>>
    BY <1>5 DEF RequestStep, Advance, Send
  <2>2. c.alias = model[r]
    OBVIOUS
  <2>3. model[r] \in tried[r] /\ MayCall(r, model[r])
        /\ \A i \in DOMAIN sent[r] : sent[r][i].alias # model[r]
    BY <1>5 DEF Send, Aim
  <2>4. sent[r] \in Seq(Calls)
    OBVIOUS
  <2> HIDE DEF c
  <2>5. \A i \in DOMAIN sent'[r] :
          \/ i \in DOMAIN sent[r] /\ sent'[r][i] = sent[r][i]
          \/ i = Len(sent[r]) + 1 /\ i \notin DOMAIN sent[r] /\ sent'[r][i] = c
    BY <2>1, <2>4, Appended
  <2>6. \A i \in DOMAIN sent'[r] : sent'[r][i].alias \in tried'[r]
    BY <2>1, <2>2, <2>3, <2>5, <1>5 DEF Send
  <2>7. (\A i \in DOMAIN sent[r] : MayCall(r, sent[r][i].alias))'
    <3>1. \A i \in DOMAIN sent[r] : MayCall(r, sent[r][i].alias)
      OBVIOUS
    <3>2. SUFFICES ASSUME NEW i \in DOMAIN sent'[r]
                   PROVE  entry'[r] = "admin" \/ sent'[r][i].alias \in Allowed[r]
                          \/ (sent'[r][i].alias = Model[r] /\ entry'[r] \notin {"chat", "image", "single"})
      OBVIOUS
    <3> QED BY ONLY <3>1, <2>1, <2>2, <2>3, <2>5, <3>2 DEF MayCall, AllowedFor, ChecksModel
  <2>8. \A i, j \in DOMAIN sent'[r] : sent'[r][i].alias = sent'[r][j].alias => i = j
    <3>1. \A i, j \in DOMAIN sent[r] : sent[r][i].alias = sent[r][j].alias => i = j
      OBVIOUS
    <3> QED BY ONLY <3>1, <2>2, <2>3, <2>5
  <2> QED BY <2>1, <2>6, <2>7, <2>8
<1>6. CASE StreamHead(r) \/ StreamEnd(r) \/ Onward(r) \/ GiveUp(r)
  BY <1>6 DEF RequestStep, Advance, StreamHead, StreamEnd, Onward, GiveUp
<1> QED BY <1>1, <1>2, <1>3, <1>4, <1>5, <1>6 DEF RequestStep, Advance

LEMMA CleanStep ==
  ASSUME TInv, NEW r \in Requests, Clean(r), RequestStep(r)
  PROVE  Clean(r)'
<1> USE DEF TInv, TypeOK, Clean, KindOf, admin, forw, outs, Return, Goto
<1>1. CASE TryRoute(r) \/ Refuse(r) \/ Persist(r) \/ Enter(r)
  BY <1>1 DEF RequestStep, Advance, TryRoute, Refuse, Persist, Enter, Ready
<1>2. CASE Leave(r) \/ NotRelayed(r) \/ Blocked(r) \/ Count(r)
  BY <1>2 DEF RequestStep, Advance, Leave, NotRelayed, Blocked, Count
<1>3. CASE Pick(r)
  BY <1>3 DEF RequestStep, Advance, Pick, PickNoting, Picked, MayTry
<1>4. CASE Unsent(r) \/ Refused(r) \/ Answer(r)
  BY <1>4 DEF RequestStep, Advance, Unsent, Refused, Answer
<1>5. CASE Send(r)
  <2> DEFINE c == [alias |-> model[r], to |-> target[r], body |-> Payload(r)]
  <2>1. sent'[r] = Append(sent[r], c) /\ UNCHANGED body
    BY <1>5 DEF RequestStep, Advance, Send
  <2>2. /\ \A a \in Aliases : <<"params", a>> \in c.body => a = c.alias
        /\ <<"cache">> \in c.body => KindOf(c.to) = "openrouter"
    BY DEF Payload
  <2>4. sent[r] \in Seq(Calls)
    OBVIOUS
  <2> HIDE DEF c
  <2>5. \A i \in DOMAIN sent'[r] :
          \/ i \in DOMAIN sent[r] /\ sent'[r][i] = sent[r][i]
          \/ i = Len(sent[r]) + 1 /\ i \notin DOMAIN sent[r] /\ sent'[r][i] = c
    BY <2>1, <2>4, Appended
  <2> QED BY <2>1, <2>2, <2>5
<1>6. CASE StreamHead(r) \/ StreamEnd(r) \/ Onward(r) \/ GiveUp(r)
  BY <1>6 DEF RequestStep, Advance, StreamHead, StreamEnd, Onward, GiveUp
<1>7. CASE Guard(r)
  BY <1>7 DEF RequestStep, Advance, Guard
<1> QED BY <1>1, <1>2, <1>3, <1>4, <1>5, <1>6, <1>7 DEF RequestStep, Advance

LEMMA HopsStep ==
  ASSUME TInv, NEW r \in Requests, Hops(r), RequestStep(r)
  PROVE  Hops(r)'
<1>0. IsFiniteSet(tried[r]) /\ Cardinality(tried[r]) \in Nat /\ Len(sent[r]) \in Nat /\ MaxHops \in Nat
  BY TriedFinite, BoundsAssumption DEF TInv, TypeOK
<1> USE <1>0 DEF TInv, TypeOK, Hops, Calling, admin, forw, outs, Return, Goto
<1>1. CASE TryRoute(r) \/ Persist(r) \/ Enter(r) \/ Guard(r) \/ Count(r)
  BY <1>1 DEF RequestStep, Advance, TryRoute, Persist, Enter, Ready, Guard, Count
<1>2. CASE Refuse(r) \/ Leave(r) \/ NotRelayed(r) \/ Blocked(r)
  <2>1. tried'[r] = {} /\ sent' = sent /\ pc'[r] = "done"
    BY <1>2 DEF Refuse, Leave, NotRelayed, Blocked
  <2> QED BY <2>1, FS_EmptySet
<1>3. CASE Pick(r)
  <2>1. Cardinality(tried'[r]) = Cardinality(tried[r]) + 1
    <3>1. tried'[r] = tried[r] \cup {model[r]} /\ model[r] \notin tried[r]
      BY <1>3 DEF Pick, PickNoting, MayTry
    <3> QED BY ONLY <1>0, <3>1, FS_AddElement
  <2>2. Cardinality(tried[r]) + 1 <= MaxHops /\ sent' = sent /\ pc[r] = "hop"
    BY <1>3 DEF Pick, PickNoting, MayTry
  <2> QED BY <2>1, <2>2
<1>4. CASE Unsent(r) \/ Answer(r) \/ StreamEnd(r) \/ GiveUp(r)
  <2>1. tried'[r] = {} /\ sent' = sent /\ pc'[r] = "done"
    BY <1>4 DEF Unsent, Answer, StreamEnd, GiveUp
  <2> QED BY <2>1, FS_EmptySet
<1>5. CASE Send(r)
  <2>1. Len(sent'[r]) = Len(sent[r]) + 1
    BY <1>5 DEF Send
  <2>2. tried' = tried /\ pc[r] = "send" /\ pc'[r] = "wait"
    BY <1>5 DEF Send
  <2> QED BY <2>1, <2>2
<1>6. CASE StreamHead(r) \/ Onward(r) \/ Refused(r)
  BY <1>6 DEF RequestStep, Advance, StreamHead, Onward, Refused
<1> QED BY <1>1, <1>2, <1>3, <1>4, <1>5, <1>6 DEF RequestStep, Advance

\* The whole invariant, and the same request seen after somebody else's step.
LInv == TInv /\ \A r \in Requests : Aim(r) /\ Past(r) /\ Clean(r) /\ Hops(r)

LEMMA Untouched ==
  ASSUME NEW q \in Requests, UNCHANGED Local(q), Aim(q), Past(q), Clean(q), Hops(q)
  PROVE  Aim(q)' /\ Past(q)' /\ Clean(q)' /\ Hops(q)'
BY DEF Local, Aim, Past, Clean, Hops, MayCall, AllowedFor, ChecksModel, KindOf

LEMMA LStep == LInv /\ [Next]_vars => LInv'
<1> SUFFICES ASSUME LInv, [Next]_vars PROVE LInv'
  OBVIOUS
<1>1. TInv /\ TInv'
  BY StepType DEF LInv
<1> SUFFICES ASSUME NEW q \in Requests PROVE (Aim(q) /\ Past(q) /\ Clean(q) /\ Hops(q))'
  BY <1>1 DEF LInv
<1>2. Aim(q) /\ Past(q) /\ Clean(q) /\ Hops(q)
  BY DEF LInv
<1>3. CASE RequestStep(q)
  BY <1>1, <1>2, <1>3, AimStep, PastStep, CleanStep, HopsStep
<1>4. CASE UNCHANGED Local(q)
  BY <1>2, <1>4, Untouched
<1>5. CASE UNCHANGED vars
  BY <1>5, <1>4 DEF vars, forw, outs, Local
<1> QED BY <1>1, <1>3, <1>4, <1>5, Others, Edits DEF Next

LEMMA LInit == Init => LInv
<1> SUFFICES ASSUME Init PROVE LInv
  OBVIOUS
<1>1. ASSUME NEW r \in Requests PROVE Aim(r) /\ Past(r) /\ Clean(r)
  BY DEF Init, Aim, Past, Clean, Before, Calling
<1>2. ASSUME NEW r \in Requests PROVE Hops(r)
  BY FS_EmptySet, BoundsAssumption DEF Init, Hops, Calling
<1> QED BY <1>1, <1>2, InitType DEF LInv

\* Every call Forward makes is for an alias the key allows, however the
\* fallbacks are edited meanwhile.
THEOREM KeyAlwaysRespected == Spec => []KeyRespected
<1>1. LInv => KeyRespected
  BY DEF LInv, Past, MayCall, KeyRespected
<1> QED BY LInit, LStep, <1>1, PTL DEF Spec

\* The loop ends for every graph of fallbacks and every edit of it: no alias is
\* called twice, and there are at most MaxHops calls.
THEOREM LoopBounded == Spec => []NoAliasTwice
<1>1. LInv => NoAliasTwice
  BY DEF LInv, Past, Hops, NoAliasTwice
<1> QED BY LInit, LStep, <1>1, PTL DEF Spec

\* What one hop puts on the body is never seen by another.
THEOREM PayloadsLocal == Spec => []PayloadLocal
<1>1. LInv => PayloadLocal
  BY DEF LInv, Clean, PayloadLocal
<1> QED BY LInit, LStep, <1>1, PTL DEF Spec
-----------------------------------------------------------------------------
(***************************************************************************)
(* One response and one log row for each call.                             *)
(***************************************************************************)
Sett(r) ==
  /\ pc[r] \notin {"stream", "done"} => resp[r] = << >>
  /\ pc[r] = "stream" => resp[r] = <<"answer">>
  /\ pc[r] = "done" => Len(resp[r]) = 1 /\ logs[r] = Logged(r)
  /\ pc[r] \notin {"wait", "stream", "done"} => logs[r] = Len(sent[r])
  /\ pc[r] \in {"wait", "stream"} => logs[r] + 1 = Len(sent[r])

LEMMA SettStep ==
  ASSUME TInv, NEW r \in Requests, Sett(r), RequestStep(r)
  PROVE  Sett(r)'
<1>0. ASSUME NEW x PROVE Append(<< >>, x) = <<x>> /\ Len(<<x>>) = 1
  OBVIOUS
<1>a. Len(sent[r]) \in Nat
  BY DEF TInv, TypeOK
<1>b. /\ Len(<<"refused">>) = 1 /\ <<"refused">> \notin {<<"guard">>, <<"session">>}
      /\ Len(<<"failed">>) = 1 /\ <<"failed">> \notin {<<"guard">>, <<"session">>}
      /\ Len(<<"answer">>) = 1 /\ <<"answer">> \notin {<<"guard">>, <<"session">>}
  OBVIOUS
<1> USE <1>0, <1>a DEF TInv, TypeOK, Sett, Logged, admin, forw, outs, Return, Goto, Write, Log
<1>1. CASE TryRoute(r) \/ Persist(r) \/ Enter(r) \/ Guard(r) \/ Count(r)
  BY <1>1 DEF TryRoute, Persist, Enter, Ready, Guard, Count
<1>2. CASE Refuse(r) \/ Leave(r) \/ NotRelayed(r) \/ GiveUp(r)
  <2>1. /\ pc[r] \notin {"wait", "stream", "done"} /\ pc'[r] = "done"
        /\ UNCHANGED <<sent, logs>>
        /\ resp'[r] = <<"refused">> \/ resp'[r] = <<"failed">>
    BY <1>2 DEF Refuse, Leave, NotRelayed, GiveUp
  <2>2. Len(resp'[r]) = 1 /\ resp'[r] \notin {<<"guard">>, <<"session">>}
    BY ONLY <2>1, <1>b
  <2> QED BY <2>1, <2>2
<1>3. CASE Blocked(r)
  BY <1>3 DEF Blocked
<1>4. CASE Unsent(r)
  BY <1>4 DEF Unsent
<1>5. CASE Pick(r)
  BY <1>5 DEF Pick, PickNoting, Picked
<1>6. CASE Send(r)
  <2>1. Len(sent'[r]) = Len(sent[r]) + 1
    BY <1>6 DEF Send
  <2> QED BY <1>6, <2>1 DEF Send
<1>7. CASE Answer(r)
  BY <1>7 DEF Answer
<1>8. CASE StreamHead(r)
  BY <1>8 DEF StreamHead
<1>9. CASE StreamEnd(r)
  <2>1. /\ pc[r] = "stream" /\ pc'[r] = "done"
        /\ UNCHANGED <<sent, resp>> /\ logs'[r] = logs[r] + 1
    BY <1>9 DEF StreamEnd
  <2>2. resp[r] = <<"answer">>
    BY <2>1
  <2>3. Len(resp[r]) = 1 /\ resp[r] \notin {<<"guard">>, <<"session">>}
    BY ONLY <2>2, <1>b
  <2> QED BY <2>1, <2>3
<1>10. CASE Onward(r) \/ Refused(r)
  BY <1>10 DEF Onward, Refused
<1> QED BY <1>1, <1>2, <1>3, <1>4, <1>5, <1>6, <1>7, <1>8, <1>9, <1>10 DEF RequestStep, Advance

SInv == TInv /\ \A r \in Requests : Sett(r)

LEMMA SStep == SInv /\ [Next]_vars => SInv'
<1> SUFFICES ASSUME SInv, [Next]_vars PROVE SInv'
  OBVIOUS
<1>1. TInv /\ TInv'
  BY StepType DEF SInv
<1> SUFFICES ASSUME NEW q \in Requests PROVE Sett(q)'
  BY <1>1 DEF SInv
<1>2. Sett(q)
  BY DEF SInv
<1>3. CASE RequestStep(q)
  BY <1>1, <1>2, <1>3, SettStep
<1>4. CASE UNCHANGED Local(q)
  BY <1>2, <1>4 DEF Local, Sett, Logged
<1>5. CASE UNCHANGED vars
  BY <1>5, <1>4 DEF vars, forw, outs, Local
<1> QED BY <1>1, <1>3, <1>4, <1>5, Others, Edits DEF Next

\* A request gets one response, never two and never one before its fallbacks are
\* done with, and request_log gets a row for each call.
THEOREM AlwaysSettled == Spec => []Settled
<1>1. Init => SInv
  BY InitType DEF Init, SInv, Sett
<1>2. SInv => Settled
  <2> SUFFICES ASSUME SInv, NEW r \in Requests
               PROVE  /\ Len(resp[r]) = IF pc[r] \in {"stream", "done"} THEN 1 ELSE 0
                      /\ pc[r] = "done" => logs[r] = Logged(r)
    BY DEF Settled
  <2>1. Len(<< >>) = 0 /\ Len(<<"answer">>) = 1
    OBVIOUS
  <2> QED BY <2>1 DEF SInv, Sett
<1> QED BY <1>1, SStep, <1>2, PTL DEF Spec
-----------------------------------------------------------------------------
(***************************************************************************)
(* The connection counters.                                                *)
(***************************************************************************)
On(b) == {r \in Requests : pc[r] \in Holding /\ target[r] = b}

\* A step of r that leaves it where it was, on a backend or on none, changes no
\* set On(b); Inc adds it to one and Dec takes it out.
LEMMA OnFinite == ASSUME NEW b PROVE IsFiniteSet(On(b)) /\ Cardinality(On(b)) \in Nat
BY RequestsAssumption, FS_Subset, FS_CardinalityType DEF On

LEMMA ConnsKept ==
  ASSUME ConnsExact, UNCHANGED conn, \A q \in Requests, b \in Ids : q \in On(b) <=> q \in On(b)'
  PROVE  ConnsExact'
<1>1. ASSUME NEW b \in Ids PROVE On(b)' = On(b)
  BY DEF On
<1> QED BY <1>1 DEF ConnsExact, On

LEMMA ConnsInc ==
  ASSUME TInv, ConnsExact, NEW r \in Requests, pc[r] \notin Holding, target[r] \in Ids,
         Inc(target[r]), pc' = [pc EXCEPT ![r] = "send"], UNCHANGED target
  PROVE  ConnsExact'
<1> SUFFICES ASSUME NEW b \in Ids PROVE conn'[b] = Cardinality(On(b)')
  BY DEF ConnsExact, On
<1>1. conn[b] = Cardinality(On(b)) /\ conn \in [Ids -> Nat]
  BY DEF ConnsExact, On, TInv, TypeOK
<1>2. CASE b = target[r]
  <2>1. On(b)' = On(b) \cup {r} /\ r \notin On(b)
    BY <1>2 DEF On, TInv, TypeOK, Holding
  <2>2. Cardinality(On(b)') = Cardinality(On(b)) + 1
    BY <2>1, OnFinite, FS_AddElement
  <2> QED BY <1>1, <1>2, <2>2 DEF Inc
<1>3. CASE b # target[r]
  <2>1. On(b)' = On(b)
    BY <1>3 DEF On, TInv, TypeOK, Holding
  <2> QED BY <1>1, <1>3, <2>1 DEF Inc
<1> QED BY <1>2, <1>3

LEMMA ConnsDec ==
  ASSUME TInv, ConnsExact, NEW r \in Requests, pc[r] \in Holding, Dec(target[r]),
         NEW l \in PCs \ Holding, pc' = [pc EXCEPT ![r] = l],
         \A q \in Requests \ {r} : target'[q] = target[q]
  PROVE  ConnsExact'
<1> SUFFICES ASSUME NEW b \in Ids PROVE conn'[b] = Cardinality(On(b)')
  BY DEF ConnsExact, On
<1>1. conn[b] = Cardinality(On(b)) /\ conn \in [Ids -> Nat]
  BY DEF ConnsExact, On, TInv, TypeOK
<1>2. CASE b = target[r]
  <2>1. On(b)' = On(b) \ {r} /\ r \in On(b)
    BY <1>2 DEF On, TInv, TypeOK
  <2>2. Cardinality(On(b)') = Cardinality(On(b)) - 1
    BY <2>1, OnFinite, FS_RemoveElement
  <2>3. Cardinality(On(b)) > 0
    BY <2>1, OnFinite, FS_EmptySet
  <2> QED BY <1>1, <1>2, <2>2, <2>3, OnFinite DEF Dec
<1>3. CASE b # target[r]
  <2>1. On(b)' = On(b)
    BY <1>3 DEF On, TInv, TypeOK
  <2> QED BY <1>1, <1>3, <2>1 DEF Dec
<1> QED BY <1>2, <1>3

LEMMA ConnsStep ==
  ASSUME TInv, ConnsExact, NEW r \in Requests, RequestStep(r)
  PROVE  ConnsExact'
<1>1. CASE Count(r)
  <2>1. target[r] \in Ids /\ pc[r] \notin Holding
    BY <1>1 DEF Count, TInv, Targeted, Holding
  <2> QED BY <1>1, <2>1, ConnsInc DEF Count, Goto, forw
<1>2. CASE Unsent(r) \/ Answer(r) \/ StreamEnd(r)
  <2>1. pc[r] \in Holding /\ Dec(target[r]) /\ pc' = [pc EXCEPT ![r] = "done"]
        /\ target' = [target EXCEPT ![r] = NoBackend]
    BY <1>2 DEF Unsent, Answer, StreamEnd, Return, Goto, Holding
  <2>2. "done" \in PCs \ Holding /\ \A q \in Requests \ {r} : target'[q] = target[q]
    BY <2>1 DEF PCs, Holding, TInv, TypeOK
  <2> QED BY <2>1, <2>2, ConnsDec
<1>3. CASE Refused(r)
  <2>1. pc[r] \in Holding /\ Dec(target[r]) /\ pc' = [pc EXCEPT ![r] = "next"] /\ target' = target
    BY <1>3 DEF Refused, Goto, Holding, forw
  <2>2. "next" \in PCs \ Holding
    BY DEF PCs, Holding
  <2> QED BY <2>1, <2>2, ConnsDec
<1>4. CASE Send(r) \/ StreamHead(r) \/ Persist(r)
  <2>1. UNCHANGED <<conn, target>> /\ pc[r] \in Holding /\ pc'[r] \in Holding
    BY <1>4 DEF Send, StreamHead, Persist, Goto, forw, Holding, TInv, TypeOK
  <2> QED BY <2>1, Others, ConnsKept DEF Local, On
<1>5. CASE \/ TryRoute(r) \/ Refuse(r) \/ Enter(r) \/ Leave(r) \/ Pick(r) \/ NotRelayed(r)
          \/ Blocked(r) \/ Guard(r) \/ Onward(r) \/ GiveUp(r)
  <2>1. UNCHANGED conn /\ pc[r] \notin Holding /\ pc'[r] \notin Holding
    BY <1>5 DEF TryRoute, Refuse, Enter, Ready, Leave, Pick, PickNoting, Picked, NotRelayed, Blocked,
                Guard, Onward, GiveUp, Return, Goto, Holding, TInv, TypeOK
  <2> QED BY <2>1, Others, ConnsKept DEF Local, On
<1> QED BY <1>1, <1>2, <1>3, <1>4, <1>5 DEF RequestStep, Advance

\* Checker.conn counts the calls under way, for any number of requests and
\* whatever is edited meanwhile.
THEOREM ConnsAlwaysExact == Spec => []ConnsExact
<1>1. Init => ConnsExact
  <2> SUFFICES ASSUME Init, NEW b \in Ids PROVE conn[b] = Cardinality(On(b))
    BY DEF ConnsExact, On
  <2>1. On(b) = {}
    BY DEF Init, Holding, On
  <2>2. conn[b] = 0
    BY DEF Init
  <2> QED BY <2>1, <2>2, FS_EmptySet
<1>2. TInv /\ ConnsExact /\ [Next]_vars => ConnsExact'
  <2> SUFFICES ASSUME TInv, ConnsExact, [Next]_vars PROVE ConnsExact'
    OBVIOUS
  <2>1. CASE UNCHANGED conn /\ \A q \in Requests : UNCHANGED Local(q)
    BY <2>1, ConnsKept DEF Local, On
  <2>2. CASE UNCHANGED vars
    BY <2>2, <2>1 DEF vars, forw, outs, Local
  <2> QED BY <2>1, <2>2, ConnsStep, Edits DEF Next
<1>3. TInv /\ [Next]_vars => TInv'
  BY StepType
<1> QED BY InitType, <1>1, <1>2, <1>3, PTL DEF Spec
=============================================================================
