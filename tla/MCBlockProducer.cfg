CONSTANTS
  a0 = a0
  r0 = r0
  a1 = a1
  b0 = b0
  c0 = c0
  x0 = x0
  x1 = x1
  Txs <- AllTxs
  Sender <- MCSender
  Nonce <- MCNonce
  GasOf <- MCGasOf
  LogSize <- MCLogSize
  Fields <- MCFields
  BlobTxs = {x0, x1}
  Protected = {c0}
  BlockGas = 4
  TxGasCost = 1
  HeaderSize = 1
  SimpleTxSize = 1
  BlobSize = 4
  MaxAttempts = 2
SPECIFICATION Spec
INVARIANTS
  TypeOK
  EachTxInOnePlace
  BlockFitsBlob
  CacheMatchesChain
