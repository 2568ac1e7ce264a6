SPECIFICATION Spec
CONSTANTS
  r = r
  a = a
  b = b
  a1 = a1
  t1 = t1
  t2 = t2
  Rows <- FourRows
  Root = r
  Parent <- ParentOf
  Lineage <- LineageOf
  Place <- PlaceOf
  Depth <- DepthOf
  Deps <- NoDeps
  Gated = {a}
  Absent = Absent
  Ops <- TreeOps
  Txs <- TwoTxs
  Planned <- OneBranch
  MaxNodes = 4
SYMMETRY TxSymmetry
INVARIANT TxTypeOK
PROPERTY Serializable
INVARIANT LockOrder
