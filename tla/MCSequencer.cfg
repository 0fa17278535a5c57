CONSTANTS
  Txs = {}
  Sender <- NoTx
  Nonce <- NoTx
  GasOf <- NoTx
  LogSize <- NoTx
  Fields <- NoTx
  BlobTxs = {}
  Protected = {}
  BlockGas = 1
  TxGasCost = 1
  HeaderSize = 0
  SimpleTxSize = 0
  BlobSize = 1
  MaxAttempts = 6
  MaxBatchToBroadcast = 1
  MaxCrashes = 1
SPECIFICATION Spec
INVARIANTS
  BatchMatchesChain
  LastBatchIsStored
  RangesFollow
  NoBatchSkipped
  OlderBatchesAreProvable
