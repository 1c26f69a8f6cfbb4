CONSTANTS
  CellLockScript = 32
  CellTypeScript = 48
  TxLockScript = 96
  TxTypeScript = 112
  MaxPrefixSearchSize = 2
  Limits = {1, 2}
  MaxPages = 6
SPECIFICATION Spec
INVARIANT TypeOK PagesVisitEveryMatchOnce CapacityMatchesCells
CHECK_DEADLOCK FALSE
