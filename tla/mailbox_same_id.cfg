SPECIFICATION Spec
CONSTANTS
  c1 = c1
  c2 = c2
  c3 = c3
  m1 = m1
  m2 = m2
  k1 = k1
  k2 = k2
  Calls = {c1, c2, c3}
  Posts = {m1, m2}
  Polls = {k1, k2}
  Ids = {1, 2}
  Id <- SharedId
  QueueMax = 3
  NoId = NoId
  NoItem = NoItem
  NoPoll = NoPoll
INVARIANTS FirstAnswerAccepted
