SPECIFICATION Spec
CONSTANTS
  k1 = k1
  t1 = t1
  t2 = t2
  t3 = t3
  t4 = t4
  p1 = p1
  p2 = p2
  agent = agent
  human = human
  Requests = {r1, r2}
  Orders <- FewOrders
  Tokens = {t1, t2, t3, t4}
  Keys = {k1}
  NoKey = NoKey
  Buyers = {agent, human}
  Agents = {agent}
  Payloads = {p1, p2}
  Resettles = {TRUE, FALSE}
  MaxJobs = 2
  MaxBooked = 2
  MaxLost = 1
INVARIANTS OneJobPerKey AgentsGetTheirOwn RetryIsFree BooksBalance
SYMMETRY Symmetry
