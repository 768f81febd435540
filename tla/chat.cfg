SPECIFICATION Spec
CONSTANTS
  Chats = {c1, c2}
  Runs = {r1, r2}
  Kinds = {"chat", "image"}
  MaxPolls = 1
  NoRun = NoRun
INVARIANTS OneRunPerTab OwnTurnIsLast AnswersSaved
PROPERTIES AbortHitsOwnTab ImplementsThreads GenerationEnds
\* Once the ids and runs of the bounds are used up nothing can be asked.
CHECK_DEADLOCK FALSE
