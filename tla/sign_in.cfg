SPECIFICATION Spec
CONSTANTS
  Transactions = {t1}
  Handlers = {h1, h2}
  MaxStep = 3
  MaxSecrets = 2
CHECK_DEADLOCK FALSE
CONSTRAINT Orderly
VIEW View
SYMMETRY Symmetry
INVARIANTS CodeOnce OneSession FactorAsked ConfirmedStands
