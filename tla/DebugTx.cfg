SPECIFICATION Spec
CONSTANTS
  Txs = {t1, t2}
  NoTx = NoTx
  Books = {b1, b2}
  Hooks = {h1}
  MayDebug = TRUE
INVARIANTS ToldTheTruth
