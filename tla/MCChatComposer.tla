--------------------------- MODULE MCChatComposer ---------------------------
(***************************************************************************)
(* Instances of ChatComposer for TLC: a model that makes pictures and      *)
(* videos, as well as text, and one that makes only videos and requires a  *)
(* reference.                                                              *)
(***************************************************************************)
EXTENDS ChatComposer, TLC

MCOptions == <<"both", "clip">>
MCMediaOf == "both" :> {"image", "video"} @@ "clip" :> {"video"}
MCTabs == {[mode |-> "chat", model |-> "both"], [mode |-> "video", model |-> "clip"],
           [mode |-> "image", model |-> Gone]}

\* Bounds of the search: one outdated request in flight, and two schemas cached,
\* or one that came of an error.
FewLoads ==
  LET Cached(S) == Cardinality({k \in Keys : params.cache[k] \in S})
  IN /\ Cardinality(params.late) <= 1
     /\ Cached(Models) + 2 * Cached({"blank"}) <= 2
=============================================================================
