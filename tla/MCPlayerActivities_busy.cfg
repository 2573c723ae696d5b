SPECIFICATION Spec
CONSTANTS
  Txns = {t1, t2, t3}
  Cities = {c1, c2}
  t1 = t1
  t2 = t2
  t3 = t3
  c1 = c1
  c2 = c2
  NoTxn = NoTxn
  NoCity = NoCity
  Workplace = c1
SYMMETRY TxnSymmetry
INVARIANT TypeOK
INVARIANT NoShiftOnTheRoad
INVARIANT NoCrimeOnTheRoad
PROPERTY DepartsUnoccupied
PROPERTY CrimeBeginsUnoccupied
