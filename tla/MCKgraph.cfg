SPECIFICATION KgraphSpec
CONSTANTS
  Null = Null
  t1 = t1
  t2 = t2
  at = at
  list = list
  map = map
  word = word
  p = p
  q = q
  r = r
  Terms = {t1, t2, at, list, map}
  Nested = {list, map}
  Unprintable = {map}
  Facts <- FactsMC
  Odd = {word}
  LogicVars = {p, q, r}
  Queries <- QueriesMC
  Caps = {1, 9}
  MaxFacts = 3
  MaxArguments = 2
INVARIANTS KgraphTypeOK FactsStand AnswersRight
