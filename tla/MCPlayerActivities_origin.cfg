SPECIFICATION Spec
CONSTANTS
  Txns = {t1, t2}
  Cities = {c1, c2}
  t1 = t1
  t2 = t2
  c1 = c1
  c2 = c2
  NoTxn = NoTxn
  NoCity = NoCity
  Workplace = c1
INVARIANT JourneyLeftTheirCity
