-------------------------------- MODULE Proxy --------------------------------
(***************************************************************************)
(* The request path of internal/proxy: Proxy.Forward with its fallback     *)
(* loop, pick and choose, the single-call endpoints (embeddings, decision) *)
(* and the media endpoints, together with what they share: the tables      *)
(* backends, models and model_backends, the statuses and connection counts *)
(* of health.Checker, and the round robin counter.                         *)
(*                                                                         *)
(* A request is a goroutine of its own.  An action is one read of the      *)
(* store, the rest of one pick, one critical section of Checker.mu, or the *)
(* end of one upstream call with the writes that follow it.  Model edits   *)
(* come one after another, statement by statement; servers are edited and  *)
(* statuses stored, also ones that are out of date, at any moment.         *)
(*                                                                         *)
(* A body is the set of marks the gateway has put on it, and a status is   *)
(* only the reason it was written for; text, headers, prices and latencies *)
(* are left out.                                                           *)
(***************************************************************************)
EXTENDS Integers, Sequences, FiniteSets

CONSTANTS
  Requests,
  Aliases,     \* gateway aliases
  Backends,    \* ids of table backends: integers, listed in this order
  Kind,        \* backend |-> "plain", "openrouter", "comfy", "codex" or "grok"
  Serves,      \* backend |-> the aliases its catalogue names
  Twin,        \* backend |-> the id it gets if it is inserted anew
  HubId,       \* the id of hub backends: 0 in the code
  HubNames,    \* aliases of the form hub|node|model
  HubAliases,  \* aliases some online hub peer offers
  Mixes,       \* which handlers the requests may come in by
  Model,       \* request |-> the alias it names
  Allowed,     \* request |-> the aliases its key allows
  Stream,      \* requests with "stream": true
  Attached,    \* security_targets: <<"alias", "model" or "queue", name, phase>>
  InitModels,  \* alias |-> its first row
  InitLinks,   \* alias |-> the backends it is linked to
  Saves,       \* alias |-> the rows and links an administrator may save
  Managed,     \* backends an administrator edits
  Flaky,       \* backends whose status changes
  MaxHops,     \* 4 in the code
  Cycle,       \* rr is kept modulo this multiple of every list's length
  NoAlias, NoBackend

ASSUME RequestsAssumption == IsFiniteSet(Requests) /\ Stream \subseteq Requests
ASSUME BackendsAssumption ==
  /\ IsFiniteSet(Backends) /\ Backends \subseteq Int
  /\ Kind \in [Backends -> {"plain", "openrouter", "comfy", "codex", "grok"}]
  /\ Serves \in [Backends -> SUBSET Aliases]
  /\ Twin \in [Backends -> Backends]
  /\ HubId \in Int \ Backends /\ NoBackend \notin Backends \cup {HubId}
  /\ Flaky \subseteq Backends /\ Managed \subseteq Backends
Entries == {"chat", "admin", "image", "video", "poll", "step", "single"}
ASSUME AliasesAssumption ==
  /\ NoAlias \notin Aliases /\ IsFiniteSet(Aliases)
  /\ HubAliases \subseteq Aliases /\ HubNames \subseteq Aliases
  /\ Model \in [Requests -> Aliases]
  /\ Allowed \in [Requests -> SUBSET Aliases]
  /\ Mixes \subseteq [Requests -> Entries]
  /\ Attached \subseteq {"alias", "model", "queue"} \X Aliases \X {"pre", "post"}

Rows == [exists : BOOLEAN, on : BOOLEAN, hub : BOOLEAN, upstream : Aliases,
         policy : {"least_conn", "round_robin", "failover"},
         fallback : Aliases \cup {NoAlias}]

ASSUME RowsAssumption ==
  /\ InitModels \in [Aliases -> Rows]
  /\ InitLinks \in [Aliases -> SUBSET Backends]
  /\ Saves \in [Aliases -> SUBSET [row : Rows, links : SUBSET Backends]]
ASSUME BoundsAssumption == MaxHops \in Nat \ {0} /\ Cycle \in Nat \ {0}

VARIABLES
  backs,   \* table backends: those that exist, and whether they are enabled
  models,  \* table models
  links,   \* table model_backends
  saving,  \* a SaveModel or DeleteModel between its statements
  stat,    \* Checker.stat: "down", "bare" (no catalogue) or "full"
  conn,    \* Checker.conn
  rr,      \* Proxy.rr
  entry,   \* the handler a request comes in by
  pc,      \* where a request is
  model,   \* Forward's model
  tried,   \* Forward's tried; its size is hop
  target,  \* the backend pick returned
  up,      \* the upstream name pick returned
  body,    \* Forward's filtered
  sent,    \* history: the calls made upstream
  resp,    \* history: the statuses written to the client
  logs     \* history: rows written to request_log

admin == <<models, links, saving>>
forw  == <<model, tried, target, up, body>>
outs  == <<sent, resp, logs>>
vars  == <<backs, admin, stat, conn, rr, entry, pc, forw, outs>>
-----------------------------------------------------------------------------
Ids    == Backends \cup {HubId}
PCs    == {"new", "entry", "hop", "guard", "inc", "send", "wait",
           "stream", "next", "done"}
Holding == {"send", "wait", "stream"}     \* between Inc and Dec
Phases == {"pre", "post"}

Goto(r, l)  == pc' = [pc EXCEPT ![r] = l]
\* Forward returns and its locals are gone.
Return(r) ==
  /\ Goto(r, "done")
  /\ model' = [model EXCEPT ![r] = Model[r]]
  /\ tried' = [tried EXCEPT ![r] = {}]
  /\ target' = [target EXCEPT ![r] = NoBackend]
  /\ up' = [up EXCEPT ![r] = NoAlias]
  /\ body' = [body EXCEPT ![r] = {}]
Write(r, s) == resp' = [resp EXCEPT ![r] = Append(@, s)]
Log(r)      == logs' = [logs EXCEPT ![r] = @ + 1]
Inc(b)      == conn' = [conn EXCEPT ![b] = @ + 1]
Dec(b)      == conn' = [conn EXCEPT ![b] = IF @ > 0 THEN @ - 1 ELSE @]

\* Forward runs; the single-call endpoints have no fallback and no guard.
Loops(r)    == entry[r] # "single"
KindOf(b)   == IF b = HubId THEN "hub" ELSE Kind[b]
Session(r)  == Loops(r) /\ KindOf(target[r]) \in {"codex", "grok"}
\* Forward makes the call itself; only these are retried on the fallback.
Falls(r)    == Loops(r) /\ target[r] # HubId /\ ~Session(r)
AllowedFor(r, a) == entry[r] = "admin" \/ a \in Allowed[r]

(***************************************************************************)
(* pick: the alias's live backends, else every live backend that has the   *)
(* alias in its catalogue or has no catalogue.  Lists are in order of id.  *)
(***************************************************************************)
Live(b)     == backs[b] = "on" /\ stat[b] # "down"
HasModel(b, a) == stat[b] = "bare" \/ a \in Serves[b]
Candidates(m, ls, a) ==
  LET linked == {b \in ls : m.on /\ Live(b)}
  IN IF linked # {} THEN linked ELSE {b \in Backends : Live(b) /\ HasModel(b, a)}

\* choose: b is the backend of the list C the policy takes.
Least(b, C) == \A c \in C : b <= c
Chosen(b, C, policy) ==
  CASE policy = "round_robin" ->
         Cardinality({c \in C : c < b}) = rr % Cardinality(C)
    [] policy = "failover"    -> Least(b, C)
    [] OTHER -> /\ \A c \in C : conn[b] <= conn[c]
                /\ Least(b, {c \in C : conn[c] = conn[b]})
PolicyOf(m) == IF m.on THEN m.policy ELSE "least_conn"
CountTurn(m, C) ==
  rr' = IF PolicyOf(m) = "round_robin" /\ C # {} THEN (rr + 1) % Cycle ELSE rr

\* Aliases that pick sends to the hub before it looks for a backend.
IsHub(m, a) == a \in HubNames \/ (m.on /\ m.hub)

\* The phases of the policies attached to the alias, as the table has it now,
\* to the queue the request is a step of, and to the upstream name.
PoliciesFor(r) ==
  {p \in Phases : \/ models[model[r]].on /\ <<"alias", model[r], p>> \in Attached
                  \/ entry[r] = "step" /\ <<"queue", Model[r], p>> \in Attached
                  \/ <<"model", up[r], p>> \in Attached}

\* What Inject and Prepare make of a body for one hop.  A poll is a GET.
Payload(r) ==
  IF entry[r] = "poll" /\ Falls(r) THEN {} ELSE
  body[r] \cup {x \in {<<"params", model[r]>>} :
                  /\ Loops(r) /\ models[model[r]].exists
                  /\ KindOf(target[r]) \notin {"hub", "comfy"}}
          \cup {x \in {<<"cache">>} : Loops(r) /\ KindOf(target[r]) = "openrouter"}
-----------------------------------------------------------------------------
IsTwin(b) == \E c \in Backends : c # b /\ Twin[c] = b
Idle == [alias |-> NoAlias, step |-> "none", todo |-> {}]

Init ==
  /\ backs = [b \in Backends |-> IF IsTwin(b) THEN "none" ELSE "on"]
  /\ models = InitModels /\ links = InitLinks
  /\ saving = Idle
  /\ stat = [b \in Backends |-> IF IsTwin(b) THEN "down" ELSE "full"]
  /\ conn = [b \in Ids |-> 0]
  /\ rr = 0
  /\ entry \in Mixes
  /\ pc = [r \in Requests |-> "new"]
  /\ model = Model
  /\ tried = [r \in Requests |-> {}]
  /\ target = [r \in Requests |-> NoBackend]
  /\ up = [r \in Requests |-> NoAlias]
  /\ body = [r \in Requests |-> {}]
  /\ sent = [r \in Requests |-> << >>]
  /\ resp = [r \in Requests |-> << >>]
  /\ logs = [r \in Requests |-> 0]
-----------------------------------------------------------------------------
(***************************************************************************)
(* Handlers up to Forward.                                                 *)
(***************************************************************************)
\* serveImages and serveVideosCreate look at the kind of the backend, and the
\* queue's dispatcher tries its steps, by a pick of their own, which takes a
\* turn of round robin.  A step may be tried any number of times.
Peeks == {"image", "video"}
TryRoute(r) ==
  LET a == model[r]
      m == models[a]
  IN /\ pc[r] = "new" /\ entry[r] \in Peeks \cup {"step"}
     /\ CountTurn(m, IF IsHub(m, a) THEN {} ELSE Candidates(m, links[a], a))
     /\ Goto(r, IF entry[r] = "step" THEN "new" ELSE "entry")
     /\ UNCHANGED <<backs, admin, stat, conn, forw, outs>>

\* A bad body or model (400), no key (401) or too many requests (429).  The
\* image handler reads the body before its pick and the key after it; steps are
\* checked already.
Refusable(r) == CASE entry[r] = "step"  -> FALSE
                  [] entry[r] = "image" -> TRUE
                  [] OTHER              -> pc[r] = "new"
\* The key's allow list (403), which the video endpoints and the queue's runner
\* do not look at.
ChecksModel(r) == entry[r] \in {"chat", "image", "single"}
Ready(r)       == pc[r] = IF entry[r] \in Peeks THEN "entry" ELSE "new"
Refuse(r) ==
  /\ pc[r] \in {"new", "entry"}
  /\ Refusable(r) \/ (Ready(r) /\ ChecksModel(r) /\ model[r] \notin Allowed[r])
  /\ Write(r, "refused") /\ Return(r)
  /\ UNCHANGED <<backs, admin, stat, conn, rr, sent, logs>>
Enter(r) ==
  /\ Ready(r)
  /\ ChecksModel(r) => model[r] \in Allowed[r]
  /\ Goto(r, "hop")
  /\ UNCHANGED <<backs, admin, stat, conn, rr, forw, outs>>

(***************************************************************************)
(* Forward.                                                                *)
(***************************************************************************)
\* The head of the loop.
MayUseAny(r) == TRUE
MayTry(r) == Cardinality(tried[r]) < MaxHops /\ model[r] \notin tried[r]
MayUse(r) == tried[r] # {} => AllowedFor(r, model[r])
LeaveRetries(r) ==
  /\ pc[r] = "hop" /\ ~MayTry(r)
  /\ Write(r, "failed") /\ Return(r)
  /\ UNCHANGED <<backs, admin, stat, conn, rr, sent, logs>>
Leave(r) ==
  /\ pc[r] = "hop" /\ ~(MayTry(r) /\ MayUse(r))
  /\ Write(r, "failed") /\ Return(r)
  /\ UNCHANGED <<backs, admin, stat, conn, rr, sent, logs>>

\* pick.  With no backend in the table the hub's catalogue is not looked at.
Offered(a) == a \in HubAliases /\ \E b \in Backends : backs[b] # "none"
Picked(r, b, u) ==
  /\ target' = [target EXCEPT ![r] = b]
  /\ up' = [up EXCEPT ![r] = u]
  /\ Goto(r, IF Loops(r) /\ <<"guard">> \notin body[r] THEN "guard" ELSE "inc")
PickNoting(r, seen) ==
  LET a == model[r]
      m == models[a]
      u == IF m.on THEN m.upstream ELSE a
      C == IF IsHub(m, a) THEN {} ELSE Candidates(m, links[a], a)
  IN /\ pc[r] = "hop" /\ MayTry(r) /\ MayUse(r)
     /\ tried' = [tried EXCEPT ![r] = seen]
     /\ \/ \E b \in C : Chosen(b, C, PolicyOf(m)) /\ Picked(r, b, u)
        \/ C = {} /\ IsHub(m, a) /\ Picked(r, HubId, u)
        \/ C = {} /\ ~IsHub(m, a) /\ Offered(a) /\ Picked(r, HubId, a)
        \/ C = {} /\ ~IsHub(m, a) /\ ~Offered(a)
           /\ Goto(r, "next") /\ UNCHANGED <<target, up>>
     /\ CountTurn(m, C)
     /\ UNCHANGED <<backs, admin, stat, conn, model, body, outs>>

PickOnlyLast(r) == PickNoting(r, {model[r]})
Pick(r) == PickNoting(r, tried[r] \cup {model[r]})

\* Embeddings and decisions are not relayed to the hub.
NotRelayed(r) ==
  /\ pc[r] = "inc" /\ ~Loops(r) /\ target[r] = HubId
  /\ Write(r, "refused") /\ Return(r)
  /\ UNCHANGED <<backs, admin, stat, conn, rr, sent, logs>>

\* The filters before the first call; their result is kept for every hop.
Blocked(r) ==
  /\ pc[r] = "guard" /\ "pre" \in PoliciesFor(r)
  /\ Log(r) /\ Write(r, "guard") /\ Return(r)
  /\ UNCHANGED <<backs, admin, stat, conn, rr, sent>>
Guard(r) ==
  /\ pc[r] = "guard"
  /\ body' = [body EXCEPT ![r] = @ \cup {<<"guard">>} \cup
                {x \in {<<"post">>} : "post" \in PoliciesFor(r)}]
  /\ Goto(r, "inc")
  /\ UNCHANGED <<backs, admin, stat, conn, rr, model, tried, target, up, outs>>

Count(r) ==
  /\ pc[r] = "inc" /\ (Loops(r) \/ target[r] # HubId)
  /\ Inc(target[r]) /\ Goto(r, "send")
  /\ UNCHANGED <<backs, admin, stat, rr, forw, outs>>

\* The request cannot be built or the hub is not configured, or the session of
\* a subscription does not parse; only the last is logged.
Unsent(r) ==
  /\ pc[r] = "send"
  /\ Dec(target[r])
  /\ IF Session(r) THEN Log(r) /\ Write(r, "session")
     ELSE Write(r, "unsent") /\ UNCHANGED logs
  /\ Return(r)
  /\ UNCHANGED <<backs, admin, stat, rr, sent>>

SendInPlace(r) ==
  /\ pc[r] = "send"
  /\ body' = [body EXCEPT ![r] = Payload(r)]
  /\ sent' = [sent EXCEPT ![r] =
                Append(@, [alias |-> model[r], to |-> target[r], body |-> Payload(r)])]
  /\ Goto(r, "wait")
  /\ UNCHANGED <<backs, admin, stat, conn, rr, model, tried, target, up, resp, logs>>
Send(r) ==
  /\ pc[r] = "send"
  /\ sent' = [sent EXCEPT ![r] =
                Append(@, [alias |-> model[r], to |-> target[r], body |-> Payload(r)])]
  /\ Goto(r, "wait")
  /\ UNCHANGED <<backs, admin, stat, conn, rr, forw, resp, logs>>

\* No answer, or one that says there is no credit left.
RefusedUncounted(r) ==
  /\ pc[r] = "wait" /\ Falls(r)
  /\ Log(r)
  /\ Goto(r, "next")
  /\ UNCHANGED <<backs, admin, stat, conn, rr, forw, sent, resp>>
RefusedWritten(r) ==
  /\ pc[r] = "wait" /\ Falls(r)
  /\ Dec(target[r]) /\ Log(r) /\ Write(r, "failed")
  /\ Goto(r, "next")
  /\ UNCHANGED <<backs, admin, stat, rr, forw, sent>>
Refused(r) ==
  /\ pc[r] = "wait" /\ Falls(r)
  /\ Dec(target[r]) /\ Log(r)
  /\ Goto(r, "next")
  /\ UNCHANGED <<backs, admin, stat, rr, forw, sent, resp>>

\* The answer as a whole: an upstream error, the reply, or what the filters
\* after the call make of it.
Answer(r) ==
  /\ pc[r] = "wait"
  /\ Dec(target[r]) /\ Log(r)
  /\ Write(r, "answer") /\ Return(r)
  /\ UNCHANGED <<backs, admin, stat, rr, sent>>

\* A reply whose head is written before its end: a stream, or more than the
\* usage buffer holds.  Codex answers are whole, and so are those that filters
\* look at.
PostGuarded(r) == Falls(r) /\ <<"post">> \in body[r] /\ r \notin Stream
StreamHead(r) ==
  /\ pc[r] = "wait"
  /\ Loops(r) /\ KindOf(target[r]) # "codex" /\ ~PostGuarded(r)
  /\ Write(r, "answer") /\ Goto(r, "stream")
  /\ UNCHANGED <<backs, admin, stat, conn, rr, forw, sent, logs>>
StreamEnd(r) ==
  /\ pc[r] = "stream"
  /\ Dec(target[r]) /\ Log(r) /\ Return(r)
  /\ UNCHANGED <<backs, admin, stat, rr, sent, resp>>

\* A subscription's token is renewed, once or twice in a call, and saved by
\* UpsertBackend with the other columns as they were when the backend was
\* picked: the row is enabled, and inserted anew if it is gone.
Persist(r) ==
  LET b == target[r]
  IN /\ pc[r] = "wait" /\ Session(r)
     /\ backs' = [backs EXCEPT ![IF backs[b] = "none" THEN Twin[b] ELSE b] = "on"]
     /\ UNCHANGED <<admin, stat, conn, rr, pc, forw, outs>>

\* fallbackOf: as the table says now, not when the alias was picked.
FallbackOf(a) == IF models[a].exists /\ models[a].fallback # a
                 THEN models[a].fallback ELSE NoAlias
Onward(r) ==
  LET a == FallbackOf(model[r])
  IN /\ pc[r] = "next" /\ Loops(r) /\ a \notin tried[r] \cup {NoAlias}
     /\ model' = [model EXCEPT ![r] = a]
     /\ Goto(r, "hop")
     /\ UNCHANGED <<backs, admin, stat, conn, rr, tried, target, up, body, outs>>
GiveUp(r) ==
  /\ pc[r] = "next"
  /\ Loops(r) => FallbackOf(model[r]) \in tried[r] \cup {NoAlias}
  /\ Write(r, "failed") /\ Return(r)
  /\ UNCHANGED <<backs, admin, stat, conn, rr, sent, logs>>
-----------------------------------------------------------------------------
(***************************************************************************)
(* Checkers and administrators.                                            *)
(***************************************************************************)
\* One backend of CheckOnce or RefreshBackend: the row was read and the server
\* probed earlier, so any result may be stored now.
Check(b) ==
  /\ b \in Flaky
  /\ \E s \in {"down", "bare", "full"} : s # stat[b] /\ stat' = [stat EXCEPT ![b] = s]
  /\ UNCHANGED <<backs, admin, conn, rr, pc, forw, outs>>

Requestless == UNCHANGED <<stat, conn, rr, pc, forw, outs>>

SetBackendEnabled(b) ==
  /\ b \in Managed /\ backs[b] # "none"
  /\ backs' = [backs EXCEPT ![b] = IF @ = "on" THEN "off" ELSE "on"]
  /\ UNCHANGED admin /\ Requestless
\* The links of a backend go with it.
DeleteBackend(b) ==
  /\ b \in Managed /\ backs[b] # "none"
  /\ backs' = [backs EXCEPT ![b] = "none"]
  /\ links' = [a \in Aliases |-> links[a] \ {b}]
  /\ UNCHANGED <<models, saving>> /\ Requestless

\* SaveModel: the row, then the links, one statement after the other.  A link
\* to a backend that is gone breaks the foreign key and ends it.
SaveModel(a) ==
  /\ saving = Idle
  /\ \E f \in Saves[a] :
       /\ models' = [models EXCEPT ![a] =
                       [f.row EXCEPT !.fallback = IF @ = a THEN NoAlias ELSE @]]
       /\ saving' = [alias |-> a, step |-> "unlink", todo |-> f.links]
  /\ UNCHANGED <<backs, links>> /\ Requestless
SaveUnlink ==
  /\ saving.step = "unlink"
  /\ links' = [links EXCEPT ![saving.alias] = {}]
  /\ saving' = IF saving.todo = {} THEN Idle ELSE [saving EXCEPT !.step = "link"]
  /\ UNCHANGED <<backs, models>> /\ Requestless
SaveLink ==
  /\ saving.step = "link"
  /\ \E b \in saving.todo :
       /\ Least(b, saving.todo)
       /\ IF backs[b] = "none" THEN saving' = Idle /\ UNCHANGED links
          ELSE /\ links' = [links EXCEPT ![saving.alias] = @ \cup {b}]
               /\ saving' = IF saving.todo = {b} THEN Idle
                            ELSE [saving EXCEPT !.todo = @ \ {b}]
  /\ UNCHANGED <<backs, models>> /\ Requestless

\* DeleteModel: first the fallbacks that name the alias, then its row.
Unreference(a) ==
  /\ saving = Idle /\ models[a].exists /\ Saves[a] # {}
  /\ models' = [x \in Aliases |->
       [models[x] EXCEPT !.fallback = IF @ = a THEN NoAlias ELSE @]]
  /\ saving' = [alias |-> a, step |-> "delete", todo |-> {}]
  /\ UNCHANGED <<backs, links>> /\ Requestless
DeleteModel ==
  /\ saving.step = "delete"
  /\ models' = [models EXCEPT ![saving.alias] = [@ EXCEPT !.exists = FALSE, !.on = FALSE]]
  /\ links' = [links EXCEPT ![saving.alias] = {}]
  /\ saving' = Idle
  /\ UNCHANGED backs /\ Requestless

Advance(r) ==
  /\ \/ Enter(r) \/ Leave(r) \/ Pick(r) \/ NotRelayed(r) \/ Blocked(r) \/ Guard(r)
     \/ Count(r) \/ Unsent(r) \/ Send(r) \/ Refused(r) \/ Answer(r)
     \/ StreamHead(r) \/ StreamEnd(r) \/ Onward(r) \/ GiveUp(r)
  /\ UNCHANGED entry
RequestStep(r) ==
  \/ Advance(r)
  \/ (TryRoute(r) \/ Refuse(r) \/ Persist(r)) /\ UNCHANGED entry
AdminStep ==
  \/ \E b \in Backends : SetBackendEnabled(b) \/ DeleteBackend(b)
  \/ \E a \in Aliases : SaveModel(a) \/ Unreference(a)
  \/ SaveUnlink \/ SaveLink \/ DeleteModel
Next == \/ \E r \in Requests : RequestStep(r)
        \/ (AdminStep \/ \E b \in Backends : Check(b)) /\ UNCHANGED entry

\* Goroutines run, upstream calls end, and a body that has begun ends too.
Fairness == \A r \in Requests : WF_vars(Advance(r))
Spec == Init /\ [][Next]_vars /\ Fairness
-----------------------------------------------------------------------------
Marks == {<<"guard">>, <<"post">>, <<"cache">>} \cup ({"params"} \X Aliases)
Calls == [alias : Aliases, to : Ids, body : SUBSET Marks]
Codes == {"refused", "guard", "session", "unsent", "answer", "failed"}

\* The tables, the checker's maps and every request's locals keep their types.
TypeOK ==
  /\ backs \in [Backends -> {"on", "off", "none"}]
  /\ models \in [Aliases -> Rows]
  /\ links \in [Aliases -> SUBSET Backends]
  /\ saving \in [alias : Aliases \cup {NoAlias}, todo : SUBSET Backends,
                 step : {"none", "unlink", "link", "delete"}]
  /\ stat \in [Backends -> {"down", "bare", "full"}]
  /\ conn \in [Ids -> Nat]
  /\ rr \in 0..(Cycle - 1)
  /\ entry \in [Requests -> Entries]
  /\ pc \in [Requests -> PCs]
  /\ model \in [Requests -> Aliases]
  /\ tried \in [Requests -> SUBSET Aliases]
  /\ target \in [Requests -> Ids \cup {NoBackend}]
  /\ up \in [Requests -> Aliases \cup {NoAlias}]
  /\ body \in [Requests -> SUBSET Marks]
  /\ sent \in [Requests -> Seq(Calls)]
  /\ resp \in [Requests -> Seq(Codes)]
  /\ logs \in [Requests -> Nat]

\* Checker.conn is exactly the number of calls under way, whatever ends them
\* and whatever becomes of the backend's row meanwhile: least_conn never
\* shuns a backend for calls that are over.
ConnsExact ==
  \A b \in Ids :
    conn[b] = Cardinality({r \in Requests : pc[r] \in Holding /\ target[r] = b})

\* Every call is for an alias the key allows, also when an administrator has
\* changed the fallbacks since the request came in.  The alias a video, a poll
\* or a step names itself is not looked at.
KeyRespected ==
  \A r \in Requests : \A i \in DOMAIN sent[r] :
    \/ AllowedFor(r, sent[r][i].alias)
    \/ sent[r][i].alias = Model[r] /\ ~ChecksModel(r)

\* The fallback loop calls an alias at most once, and no more than MaxHops of
\* them, also when edits close a cycle of fallbacks under way.
NoAliasTwice ==
  \A r \in Requests :
    /\ \A i, j \in DOMAIN sent[r] : sent[r][i].alias = sent[r][j].alias => i = j
    /\ Len(sent[r]) <= MaxHops

\* The client gets one response: nothing is written while a fallback may still
\* be tried, a response that has begun is never followed by another, and in
\* the end there is one, with a row in request_log for each call and for a
\* request stopped by a filter or a bad session.
Logged(r) == Len(sent[r]) +
  IF resp[r] \in {<<"guard">>, <<"session">>} THEN 1 ELSE 0
Settled ==
  \A r \in Requests :
    /\ Len(resp[r]) = IF pc[r] \in {"stream", "done"} THEN 1 ELSE 0
    /\ pc[r] = "done" => logs[r] = Logged(r)

\* What is put on a body for one hop is not seen by the next: a call carries
\* the parameter profile of its own alias only, and the cache marks of
\* OpenRouter go to OpenRouter only.
PayloadLocal ==
  \A r \in Requests : \A i \in DOMAIN sent[r] :
    LET c == sent[r][i]
    IN /\ \A a \in Aliases : <<"params", a>> \in c.body => a = c.alias
       /\ <<"cache">> \in c.body => KindOf(c.to) = "openrouter"

\* A request that has reached the fallback loop is answered, however often
\* administrators edit fallbacks and servers while it runs.
LoopAnswers == \A r \in Requests : pc[r] = "hop" ~> pc[r] = "done"
=============================================================================
