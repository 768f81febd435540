--------------------------- MODULE ComposerProofs ---------------------------
(***************************************************************************)
(* Proofs about ChatComposer, for any models, tabs and references.         *)
(*                                                                         *)
(* Every handler that changes the type or the model leaves the page in a   *)
(* state filterModels made: Good says what such a state is, and Settled    *)
(* what the page keeps between two handlers.                               *)
(***************************************************************************)
EXTENDS ChatComposer, FiniteSetTheorems, WellFoundedInduction, TLAPS

Shown == Models \cup {NoModel}

Fits(md, x)  == x # NoModel /\ (\E y \in Models : Offers(y, md)) => Offers(x, md)
\* The request made last is about the model shown, and so is what it brought.
Asked(p, x)  == ~p.hit => /\ p.current = NoKey => p.schema \in {x, "blank"}
                          /\ p.current # NoKey => p.current[2] = x

Good(v) == /\ v.mode \in Modes /\ v.model \in Shown /\ v.params \in Params
           /\ Fits(v.mode, v.model) /\ Asked(v.params, v.model)

Core == /\ mode \in Modes /\ model \in Shown /\ params \in Params
        /\ Fits(mode, model) /\ Asked(params, model)
Rest == /\ refs \in Nat /\ reads \in [Slots -> 0 .. MAX_REFS]
        /\ saved \in [Chats -> Tab] /\ active \in Chats
        /\ sent \in [kind : Modes \cup {"none"}, model : Shown, refs : BOOLEAN,
                  again : BOOLEAN]
IInv == Core /\ Rest /\ PostFits
-----------------------------------------------------------------------------
LEMMA InvImplies == IInv => TypeOK /\ ModelFitsMode /\ SchemaCurrent /\ PostFits
BY DEF IInv, Core, Rest, Shown, Fits, Asked, TypeOK, ModelFitsMode,
       SchemaCurrent

\* A key is never the sign for no request.
LEMMA KeyFacts ==
  ASSUME NEW md \in Modes, NEW x \in Models
  PROVE  <<md, x>> \in Keys /\ <<md, x>> # NoKey /\ <<md, x>>[2] = x
BY DEF Keys, NoKey, Modes, Medias

LEMMA MediaKindType ==
  ASSUME NEW x \in Shown
  PROVE  MediaKind(x) \in Modes
<1>1. CASE x # NoModel /\ MediaOf[x] \in {{k} : k \in Medias}
  <2>1. PICK k \in Medias : MediaOf[x] = {k}
    BY <1>1
  <2> QED
    BY <1>1, <2>1 DEF MediaKind, Modes
<1>2. CASE ~(x # NoModel /\ MediaOf[x] \in {{k} : k \in Medias})
  BY <1>2 DEF MediaKind, Modes
<1> QED
  BY <1>1, <1>2

\* If a model has the type, the list has a first one that has it.
LEMMA FirstExists ==
  ASSUME NEW md \in Modes, \E y \in Models : Offers(y, md)
  PROVE  FirstFor(md) \in Models /\ Offers(FirstFor(md), md)
<1> DEFINE S == {n \in DOMAIN Options : Offers(Options[n], md)}
<1>1. DOMAIN Options = 1 .. Len(Options) /\ Len(Options) \in Nat
  BY OptionsAssumption
<1>2. S \subseteq Nat /\ S # {}
  BY <1>1 DEF Models
<1>3. PICK n \in S : \A k \in S : n <= k
  <2> DEFINE R == OpToRel(<, Nat)
  <2>1. IsWellFoundedOn(R, Nat)
    BY NatLessThanWellFounded
  <2>2. \A i, j \in Nat : i < j => <<i, j>> \in R
    BY DEF OpToRel
  <2> HIDE DEF R, S
  <2>3. PICK n \in S : \A k \in S : ~(<<k, n>> \in R)
    BY <1>2, <2>1, WFMin
  <2>4. \A k \in S : ~(k < n)
    BY <1>2, <2>2, <2>3
  <2>5. \A k \in S : n <= k
    BY <1>2, <2>4
  <2> QED
    BY <2>5
<1>4. /\ n \in DOMAIN Options /\ Offers(Options[n], md)
      /\ \A k \in 1 .. n - 1 : ~Offers(Options[k], md)
  BY <1>1, <1>3
<1> DEFINE f == CHOOSE i \in DOMAIN Options : /\ Offers(Options[i], md)
                                              /\ \A k \in 1 .. i - 1 : ~Offers(Options[k], md)
<1>5. f \in DOMAIN Options /\ Offers(Options[f], md)
  BY <1>4
<1>6. FirstFor(md) = Options[f]
  BY DEF FirstFor
<1> HIDE DEF f
<1> QED
  BY <1>5, <1>6 DEF Models

LEMMA FilterFits ==
  ASSUME NEW md \in Modes, NEW x \in Shown
  PROVE  FilterModel(md, x) \in Shown /\ Fits(md, FilterModel(md, x))
<1>1. CASE x # NoModel /\ ~Offers(x, md) /\ \E y \in Models : Offers(y, md)
  BY <1>1, FirstExists DEF FilterModel, Fits, Shown
<1>2. CASE ~(x # NoModel /\ ~Offers(x, md) /\ \E y \in Models : Offers(y, md))
  BY <1>2 DEF FilterModel, Fits
<1> QED
  BY <1>1, <1>2

LEMMA LoadGood ==
  ASSUME NEW p \in Params, NEW md \in Modes, NEW x \in Shown
  PROVE  LET q == LoadParams(p, md, x) IN q \in Params /\ Asked(q, x)
<1> DEFINE q == LoadParams(p, md, x)
<1>1. CASE x = NoModel
  <2>1. q = [p EXCEPT !.schema = "null", !.hit = TRUE]
    BY <1>1 DEF LoadParams
  <2>2. q \in Params /\ q.cache = p.cache /\ q.hit = TRUE
    BY <2>1 DEF Params, Schemas
  <2> QED
    BY <2>2 DEF Asked
<1>2. CASE x # NoModel /\ p.cache[<<md, x>>] # "none"
  <2>1. x \in Models /\ <<md, x>> \in Keys
    BY <1>2, KeyFacts DEF Shown
  <2>2. p.cache[<<md, x>>] \in Schemas
    BY <1>2, <2>1 DEF Params, Schemas
  <2>3. q = [p EXCEPT !.schema = p.cache[<<md, x>>], !.hit = TRUE]
    BY <1>2 DEF LoadParams
  <2>4. q \in Params /\ q.cache = p.cache /\ q.hit = TRUE
    BY <2>2, <2>3 DEF Params
  <2> QED
    BY <2>4 DEF Asked
<1>3. CASE x # NoModel /\ p.cache[<<md, x>>] = "none"
  <2>1. x \in Models /\ <<md, x>> \in Keys /\ <<md, x>> # NoKey /\ <<md, x>>[2] = x
    BY <1>3, KeyFacts DEF Shown
  <2>2. q = [p EXCEPT !.current = <<md, x>>, !.late = p.late \cup ({p.current} \ {NoKey}),
                      !.hit = FALSE]
    BY <1>3 DEF LoadParams
  <2>3. p.late \cup ({p.current} \ {NoKey}) \in SUBSET Keys
    BY DEF Params
  <2>4. q \in Params /\ q.cache = p.cache /\ q.current = <<md, x>>
    BY <2>1, <2>2, <2>3 DEF Params
  <2> QED
    BY <2>1, <2>4 DEF Asked
<1> QED
  BY <1>1, <1>2, <1>3

\* What filterModels leaves.
LEMMA FilteredGood ==
  ASSUME NEW p \in Params, NEW md \in Modes, NEW x \in Shown
  PROVE  Good(Filtered(p, md, x)) /\ Filtered(p, md, x).mode = md
<1> DEFINE y == FilterModel(md, x)
           q == LoadParams(p, md, y)
<1>1. y \in Shown /\ Fits(md, y)
  BY FilterFits
<1> HIDE DEF y
<1>2. q \in Params /\ Asked(q, y)
  BY <1>1, LoadGood
<1>3. Filtered(p, md, x) = [mode |-> md, model |-> y, params |-> q]
  BY DEF Filtered, y
<1> HIDE DEF q
<1> QED
  BY <1>1, <1>2, <1>3 DEF Good

LEMMA SyncedGood ==
  ASSUME NEW p \in Params, NEW md \in Modes, NEW x \in Shown
  PROVE  Good(Synced(p, md, x))
<1>1. SyncMode(md, x) \in Modes
  BY MediaKindType DEF SyncMode
<1> QED
  BY <1>1, FilteredGood DEF Synced

\* A good view as the input of the next.
LEMMA GoodParts ==
  ASSUME NEW v, Good(v)
  PROVE  v.params \in Params /\ v.mode \in Modes /\ v.model \in Shown
BY DEF Good

LEMMA RestoredGood ==
  ASSUME NEW p \in Params, NEW tab \in Tab, NEW now \in Shown
  PROVE  Good(Restored(p, tab, now))
<1>1. tab.mode \in Modes /\ Chosen(tab.model, now) \in Shown
  BY DEF Tab, Chosen, Shown
<1> DEFINE v == Filtered(p, tab.mode, Chosen(tab.model, now))
<1>2. Good(v)
  BY <1>1, FilteredGood
<1>3. Restored(p, tab, now) = Synced(v.params, v.mode, v.model)
  BY DEF Restored
<1> HIDE DEF v
<1> QED
  BY <1>2, <1>3, GoodParts, SyncedGood

\* The page shows what a good view says.
LEMMA ShowKeeps == ASSUME NEW v, Good(v), Show(v) PROVE Core'
BY DEF Good, Show, Core, Fits, Asked

LEMMA NothingSent ==
  ASSUME Quiet
  PROVE  /\ sent' \in [kind : Modes \cup {"none"}, model : Shown, refs : BOOLEAN,
                  again : BOOLEAN]
         /\ PostFits'
BY DEF Quiet, Nothing, Shown, PostFits, Medias

\* Type and model as they stand.
LEMMA ParamsFacts ==
  ASSUME IInv
  PROVE  params \in Params /\ mode \in Modes /\ model \in Shown
         /\ saved \in [Chats -> Tab] /\ active \in Chats /\ refs \in Nat
BY DEF IInv, Core, Rest

LEMMA KeepRefsType == ASSUME IInv, NEW mds, KeepRefs(mds) PROVE refs' \in Nat
BY ParamsFacts DEF KeepRefs

LEMMA TabType ==
  ASSUME NEW md \in Modes, NEW x \in Shown
  PROVE  [mode |-> md, model |-> x] \in Tab
BY DEF Tab, Shown

LEMMA FreshRest == ASSUME Init, saved \in [Chats -> Tab] PROVE Rest /\ PostFits
BY SizesAssumption DEF Init, Rest, Nothing, PostFits, Shown, Medias

LEMMA InitKeeps == ASSUME Init PROVE IInv
<1>1. PICK now \in (IF Options = << >> THEN {NoModel} ELSE Models) :
        \/ /\ saved \in [Chats -> InitTabs]
           /\ LET u == Restored(NewParams, saved[active], now)
                  v == Synced(u.params, u.mode, u.model)
              IN mode = v.mode /\ model = v.model /\ params = v.params
        \/ /\ saved = [c \in Chats |-> [mode |-> "chat", model |-> now]]
           /\ LET v == Synced(NewParams, "chat", now)
              IN mode = v.mode /\ model = v.model /\ params = v.params
  BY DEF Init
<1>2. now \in Shown /\ NewParams \in Params /\ "chat" \in Modes
  BY DEF Shown, NewParams, Params, Schemas, Modes
<1>3. CASE /\ saved \in [Chats -> InitTabs]
           /\ LET u == Restored(NewParams, saved[active], now)
                  v == Synced(u.params, u.mode, u.model)
              IN mode = v.mode /\ model = v.model /\ params = v.params
  <2> DEFINE u == Restored(NewParams, saved[active], now)
             v == Synced(u.params, u.mode, u.model)
  <2>1. saved \in [Chats -> Tab] /\ saved[active] \in Tab
    BY <1>3, TabsAssumption DEF Init, Tab
  <2>2. Good(u)
    BY <1>2, <2>1, RestoredGood
  <2> HIDE DEF u
  <2>3. Good(v)
    BY <2>2, GoodParts, SyncedGood
  <2>4. mode = v.mode /\ model = v.model /\ params = v.params
    BY <1>3 DEF u
  <2> HIDE DEF v
  <2>5. Core
    BY <2>3, <2>4 DEF Good, Core
  <2> QED
    BY <2>1, <2>5, FreshRest DEF IInv
<1>4. CASE /\ saved = [c \in Chats |-> [mode |-> "chat", model |-> now]]
           /\ LET v == Synced(NewParams, "chat", now)
              IN mode = v.mode /\ model = v.model /\ params = v.params
  <2> DEFINE v == Synced(NewParams, "chat", now)
  <2>1. saved \in [Chats -> Tab]
    BY <1>2, <1>4, TabType
  <2>2. Good(v)
    BY <1>2, SyncedGood
  <2>3. mode = v.mode /\ model = v.model /\ params = v.params
    BY <1>4
  <2> HIDE DEF v
  <2>4. Core
    BY <2>2, <2>3 DEF Good, Core
  <2> QED
    BY <2>1, <2>4, FreshRest DEF IInv
<1> QED
  BY <1>1, <1>3, <1>4

\* Handlers that show another view and post nothing.
LEMMA ViewKeeps ==
  ASSUME IInv, NEW v, Good(v), Show(v), refs' \in Nat, Quiet, reads' = reads,
         saved' \in [Chats -> Tab], active' \in Chats
  PROVE  IInv'
<1>1. Core'
  BY ShowKeeps
<1> QED
  BY <1>1, NothingSent DEF IInv, Rest

LEMMA ChangeModeKeeps == ASSUME IInv, NEW md \in Modes, ChangeMode(md) PROVE IInv'
<1>1. Good(Filtered(params, md, model))
  BY ParamsFacts, FilteredGood
<1> QED
  BY <1>1, ParamsFacts, KeepRefsType, ViewKeeps DEF ChangeMode

LEMMA ChangeModelKeeps == ASSUME IInv, NEW x \in Models, ChangeModel(x) PROVE IInv'
<1>1. Good(Synced(params, mode, x))
  BY ParamsFacts, SyncedGood DEF Shown
<1> QED
  BY <1>1, ParamsFacts, KeepRefsType, ViewKeeps DEF ChangeModel

LEMMA SnapshotType == ASSUME IInv PROVE Snapshot \in [Chats -> Tab]
BY ParamsFacts, TabType DEF Snapshot

LEMMA SwitchChatKeeps == ASSUME IInv, NEW c \in Chats, SwitchChat(c) PROVE IInv'
<1>1. Good(Restored(params, saved[c], model))
  BY ParamsFacts, RestoredGood
<1>2. mode' \in Modes /\ model' \in Shown
  BY <1>1, ShowKeeps DEF SwitchChat, Core
<1>3. saved' \in [Chats -> Tab]
  BY <1>2, SnapshotType, TabType DEF SwitchChat
<1> QED
  BY <1>1, <1>3, KeepRefsType, ViewKeeps DEF SwitchChat

\* Steps that leave the view alone.
LEMMA StillKeeps ==
  ASSUME IInv, UNCHANGED <<mode, model, params>>, refs' \in Nat, Quiet,
         reads' \in [Slots -> 0 .. MAX_REFS], saved' \in [Chats -> Tab], active' \in Chats
  PROVE  IInv'
<1>1. Core'
  BY DEF IInv, Core, Fits, Asked
<1> QED
  BY <1>1, NothingSent DEF IInv, Rest

LEMMA RepaintKeeps == ASSUME IInv, Repaint PROVE IInv'
<1>1. Good(Synced(params, mode, model))
  BY ParamsFacts, SyncedGood
<1>2. saved' \in [Chats -> Tab] /\ Quiet /\ UNCHANGED <<reads, active>>
  BY SnapshotType DEF Repaint
<1>3. CASE Show(Synced(params, mode, model)) /\ KeepRefs({mode'})
  BY <1>1, <1>2, <1>3, ParamsFacts, KeepRefsType, ViewKeeps
<1>4. CASE UNCHANGED <<mode, model, params, refs>>
  BY <1>2, <1>4, StillKeeps DEF IInv, Rest
<1> QED
  BY <1>3, <1>4 DEF Repaint

LEMMA NewChatKeeps == ASSUME IInv, NEW c \in Chats, NewChat(c) PROVE IInv'
<1>1. saved' \in [Chats -> Tab]
  BY ParamsFacts, SnapshotType, TabType DEF NewChat
<1> QED
  BY <1>1, StillKeeps DEF NewChat, IInv, Rest

LEMMA RefsKeep ==
  ASSUME IInv, \/ RemoveRef
               \/ \E s \in Slots : ReadDone(s) \/ \E n \in 1 .. MAX_REFS : AddRefFiles(s, n)
  PROVE  IInv'
<1>1. /\ refs \in Nat /\ reads \in [Slots -> 0 .. MAX_REFS] /\ MAX_REFS \in Nat
      /\ saved \in [Chats -> Tab] /\ active \in Chats
  BY SizesAssumption DEF IInv, Rest
<1>2. CASE RemoveRef
  BY <1>1, <1>2, StillKeeps DEF RemoveRef
<1>3. ASSUME NEW s \in Slots, ReadDone(s) PROVE IInv'
  <2>1. refs' \in Nat /\ reads' \in [Slots -> 0 .. MAX_REFS]
    BY <1>1, <1>3 DEF ReadDone
  <2> QED
    BY <1>1, <1>3, <2>1, StillKeeps DEF ReadDone
<1>4. ASSUME NEW s \in Slots, NEW n \in 1 .. MAX_REFS, AddRefFiles(s, n) PROVE IInv'
  <2>1. reads' \in [Slots -> 0 .. MAX_REFS]
    BY <1>1, <1>4 DEF AddRefFiles
  <2> QED
    BY <1>1, <1>4, <2>1, StillKeeps DEF AddRefFiles
<1> QED
  BY <1>2, <1>3, <1>4

LEMMA ArrivalKeeps == ASSUME IInv, Arrival PROVE IInv'
<1>1. params \in Params /\ Asked(params, model)
  BY DEF IInv, Core
<1>2. params' \in Params /\ Asked(params', model)
  <2>1. CASE ParamsArrive
    <3> DEFINE k == params.current
    <3>1. k \in Keys /\ k # NoKey /\ k[2] \in Models
      BY <1>1, <2>1 DEF ParamsArrive, Params, Keys
    <3>2. PICK s \in {k[2], "blank"} :
            params' = [params EXCEPT !.current = NoKey, !.cache[k] = s, !.schema = s]
      BY <2>1 DEF ParamsArrive
    <3> HIDE DEF k
    <3>3. /\ params' \in Params /\ params'.schema = s
          /\ params'.current = NoKey /\ params'.hit = params.hit
      BY <1>1, <3>1, <3>2 DEF Params, Schemas
    <3> QED
      BY <1>1, <3>1, <3>2, <3>3 DEF Asked, k
  <2>2. CASE ParamsFail
    <3>1. /\ params' \in Params /\ params'.cache = params.cache
          /\ params'.schema = "blank" /\ params'.current = NoKey
      BY <1>1, <2>2 DEF ParamsFail, Params, Schemas
    <3> QED
      BY <1>1, <3>1 DEF Asked
  <2>3. CASE ParamsLate
    <3>1. PICK k \in params.late : params' = [params EXCEPT !.late = @ \ {k}]
      BY <2>3 DEF ParamsLate
    <3>2. /\ params' \in Params /\ params'.cache = params.cache
          /\ params'.schema = params.schema /\ params'.current = params.current
          /\ params'.hit = params.hit
      BY <1>1, <3>1 DEF Params
    <3> QED
      BY <1>1, <3>2 DEF Asked
  <2> QED
    BY <2>1, <2>2, <2>3 DEF Arrival
<1>3. mode' = mode /\ model' = model
  BY DEF Arrival
<1>4. Core'
  BY <1>2, <1>3 DEF IInv, Core, Fits, Asked
<1> QED
  BY <1>4, NothingSent DEF Arrival, IInv, Rest

\* submit sends nothing that generates one kind of media to chat.
LEMMA SendModeChat ==
  ASSUME NEW md \in Modes, NEW x \in Models, SendMode(md, x) = "chat"
  PROVE  Cardinality(MediaOf[x]) # 1
<1>1. MediaKind(x) = "chat"
  BY DEF SendMode
<1>2. MediaOf[x] \notin {{k} : k \in Medias}
  <2> SUFFICES ASSUME NEW k \in Medias, MediaOf[x] = {k} PROVE FALSE
    OBVIOUS
  <2>1. MediaKind(x) = k
    BY OptionsAssumption DEF MediaKind
  <2> QED
    BY <1>1, <2>1 DEF Medias
<1>3. MediaOf[x] \subseteq Medias /\ IsFiniteSet(Medias)
  <2>1. IsFiniteSet({"image"}) /\ IsFiniteSet({"video"})
    BY FS_Singleton
  <2>2. Medias = {"image"} \cup {"video"}
    BY DEF Medias
  <2>3. IsFiniteSet(Medias)
    BY <2>1, <2>2, FS_Union
  <2> QED
    BY <2>3, MediaAssumption
<1>4. IsFiniteSet(MediaOf[x])
  BY <1>3, FS_Subset
<1> QED
  BY <1>2, <1>3, <1>4, FS_Singleton

LEMMA SubmitKeeps == ASSUME IInv, NEW text \in BOOLEAN, Submit(text) PROVE IInv'
<1> DEFINE md == SendMode(mode, model)
           v  == IF md # mode THEN Filtered(params, md, model)
                 ELSE [mode |-> mode, model |-> model, params |-> params]
<1>1. md \in Modes /\ model \in Models
  BY ParamsFacts, MediaKindType DEF SendMode, Submit, Shown
<1>2. Good(v) /\ v.mode = md
  <2>1. CASE md # mode
    BY <1>1, <2>1, ParamsFacts, FilteredGood
  <2>2. CASE md = mode
    BY <2>2 DEF IInv, Core, Good
  <2> QED
    BY <2>1, <2>2
<1>3. Show(v)
  BY DEF Submit
<1>4. md = "chat" => Cardinality(MediaOf[model]) # 1
  BY <1>1, ParamsFacts, SendModeChat
<1>5. v.model \in Shown
  BY <1>2 DEF Good
<1>9. v.model # NoModel
  <2>1. CASE md # mode
    <3>1. v.model = FilterModel(md, model)
      BY <2>1 DEF Filtered
    <3>2. FilterModel(md, model) \in Models
      BY <1>1, FirstExists DEF FilterModel
    <3> QED
      BY <3>1, <3>2, OptionsAssumption
  <2>2. CASE md = mode
    BY <1>1, <2>2, OptionsAssumption
  <2> QED
    BY <2>1, <2>2
<1>6. /\ refs' \in Nat /\ PostFits'
      /\ sent' \in [kind : Modes \cup {"none"}, model : Shown, refs : BOOLEAN,
                    again : BOOLEAN]
  <2>1. CASE /\ md = "chat" /\ UNCHANGED refs
             /\ sent' = [kind |-> "chat", model |-> model, refs |-> FALSE, again |-> FALSE]
    <3> HIDE DEF md, v
    <3> QED
      BY <1>1, <1>4, <2>1, ParamsFacts DEF PostFits, Shown, Medias, Modes
  <2>2. CASE /\ md # "chat" /\ ~(v.params.schema \in Needs /\ refs = 0)
             /\ sent' = [kind |-> md, model |-> v.model, refs |-> refs > 0, again |-> FALSE]
             /\ refs' = 0
    <3> HIDE DEF md, v
    <3>1. (\E y \in Models : Offers(y, md)) => Offers(v.model, md)
      BY <1>2, <1>9 DEF Good, Fits
    <3>2. ASSUME Answered', v.model \in Needs PROVE refs > 0
      <4>1. params' = v.params
        BY <1>3 DEF Show
      <4>2. v.params.schema = v.model
        BY <1>2, <3>2, <4>1 DEF Answered, Good, Asked
      <4> QED
        BY <2>2, <3>2, <4>2, ParamsFacts
    <3>3. /\ sent'.kind = md /\ sent'.model = v.model /\ sent'.refs = (refs > 0)
          /\ refs' \in Nat
      BY <2>2
    <3>4. PostFits'
      BY <2>2, <3>1, <3>2, <3>3 DEF PostFits, Offers
    <3>5. (refs > 0) \in BOOLEAN /\ md \in Modes /\ v.model \in Shown
      BY <1>1, <1>5
    <3>6. sent' \in [kind : Modes \cup {"none"}, model : Shown, refs : BOOLEAN,
                     again : BOOLEAN]
      BY <2>2, <3>5
    <3> QED
      BY <3>3, <3>4, <3>6
  <2>3. CASE Quiet /\ UNCHANGED refs
    BY <2>3, NothingSent, ParamsFacts
  <2> QED
    BY <2>1, <2>2, <2>3 DEF Submit
<1>7. saved' \in [Chats -> Tab] /\ reads' = reads /\ active' = active
  <2>1. [mode |-> md, model |-> v.model] \in Tab
    BY <1>1, <1>5, TabType
  <2>2. saved' = saved \/ saved' = [saved EXCEPT ![active] = [mode |-> md, model |-> v.model]]
    BY DEF Submit
  <2> HIDE DEF md, v
  <2> QED
    BY <2>1, <2>2, ParamsFacts DEF Submit
<1> HIDE DEF v
<1>8. Core'
  BY <1>2, <1>3, ShowKeeps
<1> QED
  BY <1>6, <1>7, <1>8 DEF IInv, Rest

LEMMA RegenerateKeeps == ASSUME IInv, NEW k \in Medias, Regenerate(k) PROVE IInv'
<1> DEFINE v == Synced(params, mode, model)
<1>1. Good(v)
  BY ParamsFacts, SyncedGood
<1>2. /\ Show(v) /\ KeepRefs({v.mode}) /\ UNCHANGED <<reads, active>>
      /\ sent' = [kind |-> k, model |-> v.model, refs |-> refs' > 0, again |-> TRUE]
      /\ saved' = [saved EXCEPT ![active] = [mode |-> v.mode, model |-> v.model]]
  BY DEF Regenerate
<1> HIDE DEF v
<1>3. v.mode \in Modes /\ v.model \in Shown
  BY <1>1, GoodParts
<1>4. saved' \in [Chats -> Tab] /\ refs' \in Nat
  BY <1>2, <1>3, ParamsFacts, TabType, KeepRefsType
<1>5. /\ sent' \in [kind : Modes \cup {"none"}, model : Shown, refs : BOOLEAN,
                  again : BOOLEAN]
      /\ PostFits'
  BY <1>2, <1>3, <1>4 DEF PostFits, Modes, Medias
<1>6. Core'
  BY <1>1, <1>2, ShowKeeps
<1> QED
  BY <1>2, <1>4, <1>5, <1>6 DEF IInv, Rest
-----------------------------------------------------------------------------
\* The strengthened invariant holds in every behaviour of the composer.
LEMMA Invariant == Spec => []IInv
<1>1. Init => IInv
  BY InitKeeps
<1>2. IInv /\ [Next]_vars => IInv'
  <2> SUFFICES ASSUME IInv, [Next]_vars PROVE IInv'
    OBVIOUS
  <2>1. CASE UNCHANGED vars
    BY <2>1 DEF vars, IInv, Core, Rest, Fits, Asked, PostFits, Answered
  <2>2. CASE Next
    BY <2>2, ChangeModeKeeps, ChangeModelKeeps, SwitchChatKeeps, NewChatKeeps, RefsKeep,
       SubmitKeeps, RegenerateKeeps, ArrivalKeeps, RepaintKeeps DEF Next
  <2> QED
    BY <2>1, <2>2
<1> QED
  BY <1>1, <1>2, PTL DEF Spec

\* Every variable of the composer keeps its type.
THEOREM ComposerTypeCorrect == Spec => []TypeOK
<1>1. IInv => TypeOK
  BY InvImplies
<1> QED
  BY <1>1, Invariant, PTL

\* The chosen model has the chosen type whenever some model has it (filterModels).
THEOREM ModelAlwaysFits == Spec => []ModelFitsMode
<1>1. IInv => ModelFitsMode
  BY InvImplies
<1> QED
  BY <1>1, Invariant, PTL

\* Answers that overtake each other leave the schema of the model shown.
THEOREM SchemaAlwaysCurrent == Spec => []SchemaCurrent
<1>1. IInv => SchemaCurrent
  BY InvImplies
<1> QED
  BY <1>1, Invariant, PTL

\* What submit posts fits the model it posts it for, in every order of choices,
\* tabs, answers and references: no chat for a model of one kind of media, no
\* media of a model that does not make it, and the reference that the model's
\* schema requires (submit, filterModels, loadModelParams).
THEOREM PostsAlwaysFit == Spec => []PostFits
<1>1. IInv => PostFits
  BY InvImplies
<1> QED
  BY <1>1, Invariant, PTL
=============================================================================
