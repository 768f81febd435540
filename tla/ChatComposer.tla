---------------------------- MODULE ChatComposer ----------------------------
(***************************************************************************)
(* The composer of the chat playground (internal/web/static/app.js): type  *)
(* of content, model, reference pictures, the model's parameter schema,    *)
(* and what submit checks before it posts.                                 *)
(*                                                                         *)
(* Two things happen behind the user's back: reference files are read in   *)
(* the background, and the schema of a model is fetched from               *)
(* /admin/model-params and kept in a cache.  A schema is named by the      *)
(* model it describes; of its fields only the required reference matters.  *)
(* Tabs keep their own type and model; the composer and its references     *)
(* are shared by all tabs.                                                 *)
(***************************************************************************)
EXTENDS Integers, Sequences, FiniteSets

CONSTANTS
  Options,    \* the model list, in its order
  MediaOf,    \* model |-> what it generates besides text (data-media)
  Needs,      \* models whose schema requires a reference
  Chats,      \* tabs
  InitTabs,   \* types and models tabs may have been stored with
  Slots,      \* groups of files that may be read at a time
  MAX_REFS,   \* 6
  NoModel,    \* the list shows no model: its value is empty
  Gone        \* a stored model that is no longer in the list

Models == {Options[n] : n \in DOMAIN Options}
Medias == {"image", "video"}
Modes  == {"chat"} \cup Medias
Tab    == [mode : Modes, model : Models \cup {NoModel, Gone}]

ASSUME OptionsAssumption == Options \in Seq(Models) /\ {NoModel, Gone} \cap Models = {}
ASSUME MediaAssumption   == MediaOf \in [Models -> SUBSET Medias] /\ Needs \subseteq Models
ASSUME TabsAssumption    == InitTabs \subseteq Tab
ASSUME SizesAssumption   == MAX_REFS \in Nat

VARIABLES
  mode, model,  \* the two lists
  refs,         \* how many references are attached
  reads,        \* slot |-> files being read for one addRefFiles
  params,       \* schema and cache; current: the request numbered paramsReq, if
                \* in flight; late: requests in flight with older numbers; and
                \* hit: the last loadModelParams made no request (history)
  saved,        \* tab |-> the type and model stored with it
  active,       \* the tab that is shown
  sent          \* the request the last step posted (history)

vars == <<mode, model, refs, reads, params, saved, active, sent>>

Schemas == Models \cup {"null", "blank"}
Keys    == Modes \X Models
NoKey   == <<"none", NoModel>>
Params  == [schema : Schemas, current : Keys \cup {NoKey}, late : SUBSET Keys,
            cache : [Keys -> Models \cup {"none", "blank"}], hit : BOOLEAN]
Nothing == [kind |-> "none", model |-> NoModel, refs |-> FALSE, again |-> FALSE]
-----------------------------------------------------------------------------
(***************************************************************************)
(* Faulty variants, one plausible mistake each; not part of the            *)
(* specification.                                                          *)
(***************************************************************************)
FilterNothing(md, x) == x         \* filterModels without picking another model
SendAsChosen(md, x)  == md        \* submit trusts the chosen type
ArriveAnyway ==                   \* without the test of paramsReq
  \E k \in params.late :
    params' = [params EXCEPT !.late = @ \ {k}, !.cache[k] = k[2], !.schema = k[2]]

\* mediaKind of the chosen option; a model of both kinds is left to the user.
MediaKind(x) ==
  IF x # NoModel /\ MediaOf[x] \in {{k} : k \in Medias} THEN CHOOSE k \in MediaOf[x] : TRUE
  ELSE "chat"

\* filterModels: an option that lacks the type is hidden and, if chosen, gives
\* way to the first that has it.
Offers(x, md) == md = "chat" \/ md \in MediaOf[x]
FirstFor(md)  == Options[CHOOSE n \in DOMAIN Options :
                   /\ Offers(Options[n], md)
                   /\ \A k \in 1 .. n - 1 : ~Offers(Options[k], md)]
FilterModel(md, x) ==
  IF x # NoModel /\ ~Offers(x, md) /\ \E y \in Models : Offers(y, md)
  THEN FirstFor(md) ELSE x

\* loadModelParams: nothing to load, a schema from the cache, or a request.
LoadParams(p, md, x) ==
  IF x = NoModel THEN [p EXCEPT !.schema = "null", !.hit = TRUE]
  ELSE IF p.cache[<<md, x>>] # "none"
       THEN [p EXCEPT !.schema = p.cache[<<md, x>>], !.hit = TRUE]
       ELSE [p EXCEPT !.current = <<md, x>>, !.late = @ \cup ({p.current} \ {NoKey}),
                      !.hit = FALSE]

\* syncModeToModel: a model of one kind of media sets the type.
SyncMode(md, x) == IF MediaKind(x) # "chat" THEN MediaKind(x) ELSE md

\* What filterModels leaves, called for type md and model x.
Filtered(p, md, x) ==
  LET y == FilterModel(md, x) IN [mode |-> md, model |-> y, params |-> LoadParams(p, md, y)]
Synced(p, md, x) == Filtered(p, SyncMode(md, x), x)

Show(v) == mode' = v.mode /\ model' = v.model /\ params' = v.params
\* clearRefs, which filterModels calls for the type chat.
KeepRefs(mds) == refs' = IF "chat" \in mds THEN 0 ELSE refs
Quiet    == sent' = Nothing
Snapshot == [saved EXCEPT ![active] = [mode |-> mode, model |-> model]]
-----------------------------------------------------------------------------
\* restore: the stored tab's type and model are set, then filterModels runs and
\* paintThread calls syncModeToModel, which a new page calls once more.
Chosen(m, now)  == IF m = NoModel THEN now ELSE IF m = Gone THEN NoModel ELSE m
Restored(p, tab, now) ==
  LET v == Filtered(p, tab.mode, Chosen(tab.model, now))
  IN Synced(v.params, v.mode, v.model)

NewParams == [schema |-> "null", current |-> NoKey, late |-> {},
              cache |-> [k \in Keys |-> "none"], hit |-> TRUE]

\* A new page chooses the model stored last, if the list still has it, then the
\* tabs are restored, or a first tab is opened.
Init ==
  /\ active \in Chats
  /\ \E now \in IF Options = << >> THEN {NoModel} ELSE Models :
       LET first == [mode |-> "chat", model |-> now]
           Start(u) == LET v == Synced(u.params, u.mode, u.model)
                       IN mode = v.mode /\ model = v.model /\ params = v.params
       IN \/ /\ saved \in [Chats -> InitTabs]
             /\ Start(Restored(NewParams, saved[active], now))
          \/ /\ saved = [c \in Chats |-> first]
             /\ Start([mode |-> "chat", model |-> now, params |-> NewParams])
  /\ refs = 0 /\ reads = [s \in Slots |-> 0] /\ sent = Nothing

ChangeMode(md) ==
  /\ md # mode
  /\ Show(Filtered(params, md, model))
  /\ KeepRefs({md})
  /\ Quiet /\ UNCHANGED <<reads, saved, active>>

\* Only options that are not hidden can be chosen.
ChangeModel(x) ==
  /\ x # model /\ Offers(x, mode)
  /\ Show(Synced(params, mode, x))
  /\ KeepRefs({mode'})
  /\ Quiet /\ UNCHANGED <<reads, saved, active>>

\* switchChat, with the snapshot of the tab left and of the tab shown.
SwitchChat(c) ==
  /\ c # active /\ active' = c
  /\ Show(Restored(params, saved[c], model))
  /\ KeepRefs({saved[c].mode, mode'})
  /\ saved' = [Snapshot EXCEPT ![c] = [mode |-> mode', model |-> model']]
  /\ Quiet /\ UNCHANGED reads

\* newChat takes over type and model as they stand and drops the references; c
\* is a tab that was never opened, or closed before.
NewChat(c) ==
  /\ c # active /\ active' = c
  /\ saved' = [Snapshot EXCEPT ![c] = [mode |-> mode, model |-> model]]
  /\ refs' = 0
  /\ Quiet /\ UNCHANGED <<mode, model, reads, params>>

\* finishAssistant stores the tabs, and repaints the one that is shown if it is the
\* one that has its answer.
Repaint ==
  /\ saved' = Snapshot
  /\ \/ Show(Synced(params, mode, model)) /\ KeepRefs({mode'})
     \/ UNCHANGED <<mode, model, params, refs>>
  /\ Quiet /\ UNCHANGED <<reads, active>>
-----------------------------------------------------------------------------
\* The answer of /admin/model-params; one to an outdated request is dropped.  An
\* error's JSON, or the default of a server that did not answer, is cached like a
\* schema, and has no required fields.
ParamsArrive ==
  LET k == params.current
  IN /\ k # NoKey
     /\ \E s \in {k[2], "blank"} :
          params' = [params EXCEPT !.current = NoKey, !.cache[k] = s, !.schema = s]
ParamsFail ==
  /\ params.current # NoKey
  /\ params' = [params EXCEPT !.current = NoKey, !.schema = "blank"]
ParamsLate == \E k \in params.late : params' = [params EXCEPT !.late = @ \ {k}]
Arrival ==
  /\ ParamsArrive \/ ParamsFail \/ ParamsLate
  /\ Quiet /\ UNCHANGED <<mode, model, refs, reads, saved, active>>

\* addRefFiles: the room is measured now, the files are attached when all of
\* them have been read.  Drop, paste and the button work outside of chat, a
\* field of the model's schema wherever it is shown.
AddRefFiles(s, n) ==
  /\ mode # "chat" \/ params.schema \in Models
  /\ reads[s] = 0
  /\ MAX_REFS - refs > 0
  /\ reads' = [reads EXCEPT ![s] = IF n < MAX_REFS - refs THEN n ELSE MAX_REFS - refs]
  /\ Quiet /\ UNCHANGED <<mode, model, refs, params, saved, active>>
ReadDone(s) ==
  /\ reads[s] > 0
  /\ refs' \in {refs + reads[s], refs}
  /\ reads' = [reads EXCEPT ![s] = 0]
  /\ Quiet /\ UNCHANGED <<mode, model, params, saved, active>>
RemoveRef ==
  /\ mode # "chat" /\ refs > 0
  /\ refs' = refs - 1
  /\ Quiet /\ UNCHANGED <<mode, model, reads, params, saved, active>>

\* submit: a model of one kind of media is not sent to chat; a media request
\* needs a text or a reference, and the reference its schema requires.  The
\* references leave with it.
SendMode(md, x) == IF md = "chat" THEN MediaKind(x) ELSE md
Submit(text) ==
  LET md == SendMode(mode, model)
      v  == IF md # mode THEN Filtered(params, md, model)
            ELSE [mode |-> mode, model |-> model, params |-> params]
  IN /\ model # NoModel
     /\ Show(v)
     /\ \/ /\ md = "chat" /\ text
           /\ sent' = [kind |-> "chat", model |-> model, refs |-> FALSE, again |-> FALSE]
           /\ UNCHANGED refs
        \/ /\ md # "chat" /\ (text \/ refs > 0)
           /\ ~(v.params.schema \in Needs /\ refs = 0)
           /\ sent' = [kind |-> md, model |-> v.model, refs |-> refs > 0, again |-> FALSE]
           /\ refs' = 0
        \/ /\ \/ ~text /\ (md = "chat" \/ refs = 0)
              \/ md # "chat" /\ v.params.schema \in Needs /\ refs = 0
           /\ Quiet /\ UNCHANGED refs
     /\ saved' = IF sent' # Nothing THEN [saved EXCEPT ![active] = [mode |-> md, model |-> v.model]]
                 ELSE saved
     /\ UNCHANGED <<reads, active>>

\* "Once more" under a picture or video repaints and posts with the model that
\* is chosen now; nothing is checked.
Regenerate(k) ==
  LET v == Synced(params, mode, model)
  IN /\ Show(v)
     /\ KeepRefs({v.mode})
     /\ sent' = [kind |-> k, model |-> v.model, refs |-> refs' > 0, again |-> TRUE]
     /\ saved' = [saved EXCEPT ![active] = [mode |-> v.mode, model |-> v.model]]
     /\ UNCHANGED <<reads, active>>

Next ==
  \/ \E md \in Modes : ChangeMode(md)
  \/ \E x \in Models : ChangeModel(x)
  \/ \E c \in Chats : SwitchChat(c) \/ NewChat(c)
  \/ \E s \in Slots : ReadDone(s) \/ \E n \in 1 .. MAX_REFS : AddRefFiles(s, n)
  \/ \E text \in BOOLEAN : Submit(text)
  \/ \E k \in Medias : Regenerate(k)
  \/ Arrival \/ RemoveRef \/ Repaint

Spec == Init /\ [][Next]_vars
-----------------------------------------------------------------------------
\* Every variable keeps its type.
TypeOK ==
  /\ mode \in Modes /\ model \in Models \cup {NoModel}
  /\ refs \in Nat /\ reads \in [Slots -> 0 .. MAX_REFS]
  /\ params \in Params
  /\ saved \in [Chats -> Tab] /\ active \in Chats
  /\ sent \in [kind : Modes \cup {"none"}, model : Models \cup {NoModel}, refs : BOOLEAN,
               again : BOOLEAN]

\* With type image or video the chosen model has that type, if any model has:
\* tabs that bring back their own type and model pass through filterModels.
ModelFitsMode ==
  model # NoModel /\ (\E y \in Models : Offers(y, mode)) => Offers(model, mode)

\* When the request made last has been answered, and the cache was not used
\* since, the schema submit looks at is that of the model shown: answers that
\* overtake each other cannot leave the fields of another model.
SchemaCurrent ==
  ~params.hit /\ params.current = NoKey => params.schema \in {model, "blank"}

\* Whatever was chosen, restored, repainted or answered in whatever order, what
\* submit posts fits the model it posts it for.  A model that generates one kind
\* of media only is not posted to /admin/chat (docs/admin.md: such a pick switches
\* the type); a picture or video is asked of a model that makes it, if there is
\* one; and when the request made last was answered with a schema that requires a
\* reference, one goes along.  A repetition ("once more") checks none of the last
\* two.
Answered == ~params.hit /\ params.current = NoKey /\ params.schema # "blank"
PostFits ==
  /\ sent.kind = "chat" => Cardinality(MediaOf[sent.model]) # 1
  /\ sent.kind \in Medias /\ ~sent.again =>
       /\ (\E y \in Models : Offers(y, sent.kind)) => Offers(sent.model, sent.kind)
       /\ Answered /\ sent.model \in Needs => sent.refs
=============================================================================
