SPECIFICATION Spec
CONSTANTS
  Options <- MCOptions
  MediaOf <- MCMediaOf
  Needs = {"clip"}
  Chats = {"A", "B"}
  InitTabs <- MCTabs
  Slots = {1}
  MAX_REFS = 1
  NoModel = NoModel
  Gone = Gone
INVARIANTS PostFits ModelFitsMode SchemaCurrent
CONSTRAINT FewLoads
