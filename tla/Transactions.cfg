SPECIFICATION Spec
CONSTANTS
  Txs = {t1, t2}
  NoTx = NoTx
  Books = {b1}
  Hooks = {h1, h2}
  MayDebug = TRUE
SYMMETRY Symmetry
INVARIANTS TypeOK OwnTold NothingEarly HooksFirst
