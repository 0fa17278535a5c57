------------------------ MODULE BlockProducerProofs ------------------------
(***************************************************************************)
(* Proofs about build_block, for any set of transactions, any sizes and    *)
(* gas limits and any number of blocks: what becomes of a transaction, how *)
(* much a block holds, and what the rollup store has cached of it.         *)
(***************************************************************************)
EXTENDS BlockProducer, SequenceTheorems, FiniteSetTheorems, TLAPS

-----------------------------------------------------------------------------
(* Sequences of transactions, and the places of one in five sets. *)

LEMMA RangeOfEmpty == Range(<<>>) = {}
BY DEF Range

LEMMA RangeOfAppend ==
  ASSUME NEW S, NEW s \in Seq(S), NEW e \in S
  PROVE  Range(Append(s, e)) = Range(s) \cup {e}
<1> DEFINE t == Append(s, e)
<1>1. /\ Len(s) \in Nat /\ DOMAIN s = 1..Len(s) /\ t \in Seq(S) /\ Len(t) = Len(s) + 1
      /\ \A i \in 1..Len(s) : t[i] = s[i]
      /\ t[Len(s) + 1] = e
  BY AppendProperties, LenProperties
<1>2. DOMAIN t = 1..(Len(s) + 1)
  BY <1>1, LenProperties
<1> HIDE DEF t
<1>3. \A i \in DOMAIN t : i \in DOMAIN s \/ i = Len(s) + 1
  BY <1>1, <1>2
<1>4. \A i \in DOMAIN s : i \in DOMAIN t
  BY <1>1, <1>2
<1>5. Len(s) + 1 \in DOMAIN t
  BY <1>1, <1>2
<1>6. Range(t) = Range(s) \cup {e}
  BY <1>1, <1>3, <1>4, <1>5 DEF Range
<1> QED  BY <1>6 DEF t

LEMMA RangeWithin == ASSUME NEW S, NEW s \in Seq(S) PROVE Range(s) \subseteq S
BY LenProperties DEF Range

\* Counting the sets that have a transaction, if no two of them have it.
LEMMA OnePlace ==
  ASSUME NEW A, NEW B, NEW C, NEW D, NEW E, NEW t,
         A \cap B = {}, A \cap C = {}, A \cap D = {}, A \cap E = {}, B \cap C = {},
         B \cap D = {}, B \cap E = {}, C \cap D = {}, C \cap E = {}, D \cap E = {}
  PROVE  Cardinality({i \in DOMAIN <<A, B, C, D, E>> : t \in <<A, B, C, D, E>>[i]})
           = IF t \in A \cup B \cup C \cup D \cup E THEN 1 ELSE 0
<1> DEFINE places == <<A, B, C, D, E>>
           at == {i \in DOMAIN places : t \in places[i]}
<1>1. /\ DOMAIN places = {1, 2, 3, 4, 5} /\ places[1] = A /\ places[2] = B /\ places[3] = C
      /\ places[4] = D /\ places[5] = E
  OBVIOUS
<1> HIDE DEF places
<1>2. CASE t \notin A \cup B \cup C \cup D \cup E
  <2>1. at = {}
    BY <1>1, <1>2
  <2> QED  BY <1>2, <2>1, FS_EmptySet DEF places
<1>3. CASE t \in A \cup B \cup C \cup D \cup E
  <2>1. \E i \in DOMAIN places : at = {i}
    <3>1. CASE t \in A  BY <1>1, <3>1
    <3>2. CASE t \in B  BY <1>1, <3>2
    <3>3. CASE t \in C  BY <1>1, <3>3
    <3>4. CASE t \in D  BY <1>1, <3>4
    <3>5. CASE t \in E  BY <1>1, <3>5
    <3> QED  BY <1>3, <3>1, <3>2, <3>3, <3>4, <3>5
  <2> QED  BY <1>3, <2>1, FS_Singleton, Zenon DEF places
<1> QED  BY <1>2, <1>3

-----------------------------------------------------------------------------
(* The chain and the cached updates. *)

\* While a block is built its attempt is newer than the chain is long, so its number is
\* one of the cache's; the last entry that is cached is the one of the block being built.
ChainInv ==
  /\ TypeOK
  /\ IsFiniteSet(fields)
  /\ Len(canon) <= attempts
  /\ pc # "idle" => Len(canon) < attempts
  /\ pc = "cached" => cache[Len(canon) + 1] = attempts
  /\ CacheMatchesChain

Block == [id : 1..MaxAttempts, txs : Seq(Txs)]

\* The diff size of a block with t added is a number, and logs is part of it.
LEMMA SizeIsNat ==
  ASSUME ChainInv, NEW t \in Txs
  PROVE  /\ Cardinality(fields \cup Fields[t]) \in Nat /\ IsFiniteSet(fields \cup Fields[t])
         /\ logs \in Nat /\ LogSize[t] \in Nat /\ SizeWith(t) \in Nat
         /\ logs + LogSize[t] <= SizeWith(t)
<1>1. IsFiniteSet(fields \cup Fields[t])
  BY BlockConstants, FS_Union, Zenon DEF ChainInv
<1>2. Cardinality(fields \cup Fields[t]) \in Nat
  BY <1>1, FS_CardinalityType
<1>3. logs \in Nat /\ LogSize[t] \in Nat
  BY BlockConstants DEF ChainInv, TypeOK
<1> QED  BY <1>1, <1>2, <1>3 DEF SizeWith

\* The block that apply_fork_choice makes canonical.
LEMMA ForkChoiceAppends ==
  ASSUME ChainInv, ApplyForkChoice
  PROVE  /\ canon' \in Seq(Block) /\ Len(canon) \in Nat /\ Len(canon') = Len(canon) + 1
         /\ DOMAIN canon = 1..Len(canon) /\ DOMAIN canon' = 1..(Len(canon) + 1)
         /\ \A n \in 1..Len(canon) : canon'[n] = canon[n]
         /\ canon'[Len(canon) + 1].id = attempts /\ canon'[Len(canon) + 1].txs = payload
<1> DEFINE b == [id |-> attempts, txs |-> payload]
<1>1. pc = "cached" /\ canon' = Append(canon, b)
  BY DEF ApplyForkChoice
<1>2. Len(canon) \in Nat /\ DOMAIN canon = 1..Len(canon) /\ canon \in Seq(Block)
  BY LenProperties DEF ChainInv, TypeOK, Block
<1>3. b \in Block /\ b.id = attempts /\ b.txs = payload
  <2>1. attempts \in 1..MaxAttempts
    BY <1>1, <1>2 DEF ChainInv, TypeOK
  <2> QED  BY <2>1 DEF ChainInv, TypeOK, Block
<1> HIDE DEF b
<1>4. /\ canon' \in Seq(Block) /\ Len(canon') = Len(canon) + 1
      /\ \A n \in 1..Len(canon) : canon'[n] = canon[n]
      /\ canon'[Len(canon) + 1] = b
  BY <1>1, <1>2, <1>3, AppendProperties
<1>5. DOMAIN canon' = 1..(Len(canon) + 1)
  BY <1>4, LenProperties
<1> QED  BY <1>2, <1>3, <1>4, <1>5

LEMMA ChainInvInitially == Init => ChainInv
<1> SUFFICES ASSUME Init PROVE ChainInv
  OBVIOUS
<1>1. /\ canon \in Seq([id : 1..MaxAttempts, txs : Seq(Txs)]) /\ payload \in Seq(Txs)
      /\ Len(canon) = 0 /\ DOMAIN canon = {}
  BY EmptySeq DEF Init
<1>2. TypeOK
  BY <1>1, BlockConstants DEF Init, TypeOK
<1>3. IsFiniteSet(fields)
  BY FS_EmptySet DEF Init
<1> QED  BY <1>1, <1>2, <1>3 DEF Init, ChainInv, CacheMatchesChain

LEMMA ChainInvIsKept == ChainInv /\ [Next]_vars => ChainInv'
<1> SUFFICES ASSUME ChainInv, [Next]_vars PROVE ChainInv'
  OBVIOUS
<1> USE DEF chainVars, fillVars, poolVars
<1>0. Len(canon) \in Nat /\ DOMAIN canon = 1..Len(canon)
  BY LenProperties DEF ChainInv, TypeOK
<1>1. ASSUME TypeOK', IsFiniteSet(fields'), UNCHANGED <<canon, cache, attempts>>,
             pc' \in {pc, "idle"} \/ (pc' = "stored" /\ pc = "filling")
      PROVE  ChainInv'
  BY <1>0, <1>1 DEF ChainInv, CacheMatchesChain
<1>2. ASSUME NEW t \in Txs, AddTx(t) PROVE ChainInv'
  <2>1. TypeOK'
    BY <1>2 DEF AddTx, ChainInv, TypeOK
  <2> QED  BY <1>1, <1>2, <2>1 DEF AddTx, ChainInv
<1>3. ASSUME NEW t \in Txs, SkipForGas(t) \/ Reject(t) \/ ExecutionFails(t) PROVE ChainInv'
  <2>1. TypeOK'
    BY <1>3 DEF SkipForGas, Reject, ExecutionFails, Pop, ChainInv, TypeOK
  <2> QED  BY <1>1, <1>3, <2>1 DEF SkipForGas, Reject, ExecutionFails, ChainInv
<1>4. ASSUME NEW t \in Txs, TooBig(t) PROVE ChainInv'
  <2>1. PICK used \in {0} \cup GasUsed(t) : gas' = gas - used
    BY <1>4 DEF TooBig
  <2>2. used \in Nat /\ used <= GasOf[t] /\ gas >= GasOf[t]
    BY <1>4, BlockConstants DEF TooBig, Executes, GasUsed
  <2>3. gas' \in 0..BlockGas
    BY <2>1, <2>2, BlockConstants DEF ChainInv, TypeOK
  <2>4. TypeOK'
    BY <1>4, <2>3 DEF TooBig, Pop, ChainInv, TypeOK
  <2> QED  BY <1>1, <1>4, <2>4 DEF TooBig, ChainInv
<1>5. ASSUME NEW t \in Txs, Include(t) PROVE ChainInv'
  <2>1. PICK used \in GasUsed(t) : gas' = gas - used
    BY <1>5 DEF Include
  <2>2. used \in Nat /\ used <= GasOf[t] /\ gas >= GasOf[t]
    BY <1>5, BlockConstants DEF Include, Executes, GasUsed
  <2>3. gas' \in 0..BlockGas
    BY <2>1, <2>2, BlockConstants DEF ChainInv, TypeOK
  <2>4. logs' \in 0..BlobSize
    <3>1. logs' = logs + LogSize[t] /\ SizeWith(t) <= BlobSize
      BY <1>5 DEF Include
    <3>2. logs \in Nat /\ LogSize[t] \in Nat /\ SizeWith(t) \in Nat /\ logs + LogSize[t] <= SizeWith(t)
      BY SizeIsNat, Zenon
    <3> QED  BY <3>1, <3>2, BlockConstants
  <2>5. payload' \in Seq(Txs)
    BY <1>5, AppendProperties DEF Include, ChainInv, TypeOK
  <2>6. TypeOK'
    BY <1>5, <2>3, <2>4, <2>5 DEF Include, Shift, ChainInv, TypeOK
  <2> QED  BY <1>1, <1>5, <2>6, SizeIsNat DEF Include, ChainInv
<1>6. CASE BeginBuild
  <2>1. /\ pc = "idle" /\ attempts < MaxAttempts /\ attempts' = attempts + 1 /\ pc' = "filling"
        /\ UNCHANGED <<canon, cache>> /\ fields' = {}
    BY <1>6 DEF BeginBuild
  <2>2. payload' \in Seq(Txs)
    BY <1>6, EmptySeq DEF BeginBuild
  <2>3. BlobHeads \subseteq Txs
    BY BlockConstants DEF BlobHeads
  <2>4. TypeOK'
    BY <1>6, <2>1, <2>2, <2>3, BlockConstants DEF BeginBuild, ChainInv, TypeOK
  <2> QED  BY <1>0, <2>1, <2>4, FS_EmptySet DEF ChainInv, CacheMatchesChain, TypeOK
<1>7. CASE StoreBlock
  <2>1. TypeOK'
    BY <1>7 DEF StoreBlock, ChainInv, TypeOK
  <2> QED  BY <1>1, <1>7, <2>1 DEF StoreBlock, ChainInv
<1>8. CASE StoreUpdates
  <2>1. /\ pc = "stored" /\ pc' = "cached"
        /\ cache' = [cache EXCEPT ![Len(canon) + 1] = attempts]
        /\ UNCHANGED <<canon, attempts, fields>>
    BY <1>8 DEF StoreUpdates
  <2>2. Len(canon) + 1 \in 1..MaxAttempts
    BY <1>0, <2>1, BlockConstants DEF ChainInv, TypeOK
  <2>3. TypeOK'
    BY <1>8, <2>1, Zenon DEF StoreUpdates, ChainInv, TypeOK
  <2>4. /\ cache'[Len(canon) + 1] = attempts
        /\ \A n \in DOMAIN canon : cache'[n] = cache[n]
    BY <1>0, <2>1, <2>2 DEF ChainInv, TypeOK
  <2> QED  BY <1>0, <2>1, <2>3, <2>4 DEF ChainInv, CacheMatchesChain
<1>9. CASE ApplyForkChoice
  <2>1. /\ pc = "cached" /\ pc' = "idle" /\ payload' = <<>> /\ queue' = {}
        /\ UNCHANGED <<cache, attempts, gas, logs, fields, pool, seen, rejected, lost>>
    BY <1>9 DEF ApplyForkChoice
  <2>2. canon' \in Seq([id : 1..MaxAttempts, txs : Seq(Txs)]) /\ payload' \in Seq(Txs)
    BY <1>9, <2>1, ForkChoiceAppends, EmptySeq DEF Block
  <2>3. TypeOK'
    BY <2>1, <2>2 DEF ChainInv, TypeOK
  <2>4. \A n \in DOMAIN canon' : n \in DOMAIN canon \/ n = Len(canon) + 1
    BY <1>9, ForkChoiceAppends
  <2>5. CacheMatchesChain'
    BY <1>0, <1>9, <2>1, <2>4, ForkChoiceAppends DEF ChainInv, CacheMatchesChain
  <2>6. Len(canon') <= attempts
    BY <1>0, <1>9, <2>1, ForkChoiceAppends DEF ChainInv, TypeOK
  <2> QED  BY <2>1, <2>3, <2>5, <2>6 DEF ChainInv
<1>10. CASE BuildFails
  <2>1. payload' \in Seq(Txs) /\ Range(payload) \subseteq Txs
    BY <1>10, EmptySeq, RangeWithin DEF BuildFails, ChainInv, TypeOK
  <2>2. TypeOK'
    BY <1>10, <2>1 DEF BuildFails, ChainInv, TypeOK
  <2> QED  BY <1>1, <1>10, <2>2 DEF BuildFails, ChainInv
<1>11. CASE Exhausted \/ UNCHANGED vars
  <2>1. UNCHANGED vars
    BY <1>11 DEF Exhausted
  <2>2. TypeOK'
    BY <2>1 DEF vars, ChainInv, TypeOK
  <2> QED  BY <1>1, <2>1, <2>2 DEF vars, ChainInv
<1> QED  BY <1>2, <1>3, <1>4, <1>5, <1>6, <1>7, <1>8, <1>9, <1>10, <1>11 DEF Next, Fill

-----------------------------------------------------------------------------
(* The transactions. *)

\* The places of a transaction exclude one another and hold all that were handed to the
\* node; what is queued is still in the mempool.
PlacesInv ==
  /\ pool \cap rejected = {} /\ pool \cap lost = {} /\ pool \cap Range(payload) = {}
  /\ pool \cap Executed = {}
  /\ rejected \cap lost = {} /\ rejected \cap Range(payload) = {} /\ rejected \cap Executed = {}
  /\ lost \cap Range(payload) = {} /\ lost \cap Executed = {}
  /\ Range(payload) \cap Executed = {}
  /\ pool \cup rejected \cup lost \cup Range(payload) \cup Executed = seen
  /\ queue \subseteq pool
  /\ pc = "idle" => payload = <<>> /\ queue = {}

LEMMA ExecutedGrows ==
  ASSUME ChainInv, ApplyForkChoice PROVE Executed' = Executed \cup Range(payload)
<1>1. /\ DOMAIN canon = 1..Len(canon) /\ DOMAIN canon' = 1..(Len(canon) + 1) /\ Len(canon) \in Nat
      /\ \A n \in DOMAIN canon : canon'[n] = canon[n]
      /\ canon'[Len(canon) + 1].txs = payload
  BY ForkChoiceAppends
<1>2. /\ \A n \in DOMAIN canon' : n \in DOMAIN canon \/ n = Len(canon) + 1
      /\ \A n \in DOMAIN canon : n \in DOMAIN canon'
      /\ Len(canon) + 1 \in DOMAIN canon'
  BY <1>1
<1>3. ASSUME NEW t \in Executed' PROVE t \in Executed \cup Range(payload)
  <2>1. PICK n \in DOMAIN canon' : t \in Range(canon'[n].txs)
    BY <1>3 DEF Executed
  <2> QED  BY <1>1, <1>2, <2>1 DEF Executed
<1>4. ASSUME NEW t \in Executed PROVE t \in Executed'
  <2>1. PICK n \in DOMAIN canon : t \in Range(canon[n].txs)
    BY <1>4 DEF Executed
  <2>2. n \in DOMAIN canon' /\ t \in Range(canon'[n].txs)
    BY <1>1, <1>2, <2>1
  <2> QED  BY <2>2 DEF Executed
<1>5. ASSUME NEW t \in Range(payload) PROVE t \in Executed'
  BY <1>1, <1>2, <1>5 DEF Executed
<1> QED  BY <1>3, <1>4, <1>5

LEMMA PlacesInvInitially == Init => PlacesInv
<1> SUFFICES ASSUME Init PROVE PlacesInv
  OBVIOUS
<1>1. Executed = {} /\ Range(payload) = {}
  BY RangeOfEmpty DEF Init, Executed
<1> QED  BY <1>1 DEF Init, PlacesInv

LEMMA PlacesInvIsKept == ChainInv /\ PlacesInv /\ [Next]_vars => PlacesInv'
<1> SUFFICES ASSUME ChainInv, PlacesInv, [Next]_vars PROVE PlacesInv'
  OBVIOUS
<1> USE DEF chainVars, fillVars, poolVars
<1>1. ASSUME canon' = canon PROVE Executed' = Executed
  BY <1>1 DEF Executed
<1>2. ASSUME NEW t \in Txs, AddTx(t) PROVE PlacesInv'
  <2>1. /\ t \notin seen /\ seen' = seen \cup {t} /\ pool' = pool \cup {t}
        /\ Executed' = Executed /\ UNCHANGED <<payload, queue, pc, rejected, lost>>
    BY <1>1, <1>2 DEF AddTx
  <2> QED  BY <2>1 DEF PlacesInv
<1>3. ASSUME NEW t \in Txs, SkipForGas(t) \/ ExecutionFails(t) \/ TooBig(t) PROVE PlacesInv'
  <2>1. /\ Executed' = Executed /\ UNCHANGED <<pool, seen, payload, pc, rejected, lost>>
        /\ queue' \subseteq queue /\ pc = "filling"
    BY <1>1, <1>3 DEF SkipForGas, ExecutionFails, TooBig, Executes, AtHead, Pop
  <2> QED  BY <2>1 DEF PlacesInv
<1>4. ASSUME NEW t \in Txs, Reject(t) PROVE PlacesInv'
  <2>1. /\ Executed' = Executed /\ UNCHANGED <<seen, payload, pc, lost>>
        /\ pool' = pool \ {t} /\ rejected' = rejected \cup {t} /\ t \in queue
        /\ queue' \subseteq queue \ {t} /\ pc = "filling"
    BY <1>1, <1>4 DEF Reject, AtHead, Pop
  <2> QED  BY <2>1 DEF PlacesInv
<1>5. ASSUME NEW t \in Txs, Include(t) PROVE PlacesInv'
  <2>1. /\ Executed' = Executed /\ UNCHANGED <<seen, pc, rejected, lost>>
        /\ pool' = pool \ {t} /\ payload' = Append(payload, t) /\ t \in queue
        /\ queue' = queue \ {t} /\ pc = "filling"
    BY <1>1, <1>5 DEF Include, Executes, AtHead, Shift
  <2>2. Range(payload') = Range(payload) \cup {t}
    BY <2>1, RangeOfAppend DEF ChainInv, TypeOK
  <2> QED  BY <2>1, <2>2 DEF PlacesInv
<1>6. CASE BeginBuild
  <2>1. /\ Executed' = Executed /\ UNCHANGED <<seen, lost>> /\ payload' = <<>>
        /\ pool' = pool \ BlobHeads /\ rejected' = rejected \cup BlobHeads
        /\ queue' = pool \ BlobTxs /\ pc = "idle" /\ pc' = "filling"
    BY <1>1, <1>6 DEF BeginBuild
  <2>2. BlobHeads \subseteq pool /\ BlobHeads \subseteq BlobTxs
    BY DEF BlobHeads
  <2>3. Range(payload) = {} /\ Range(payload') = {}
    BY <2>1, RangeOfEmpty DEF PlacesInv
  <2> QED  BY <2>1, <2>2, <2>3 DEF PlacesInv
<1>7. CASE StoreBlock \/ StoreUpdates
  <2>1. /\ Executed' = Executed /\ UNCHANGED <<pool, seen, payload, queue, rejected, lost>>
        /\ pc' # "idle"
    BY <1>1, <1>7 DEF StoreBlock, StoreUpdates
  <2> QED  BY <2>1 DEF PlacesInv
<1>8. CASE ApplyForkChoice
  <2>1. /\ Executed' = Executed \cup Range(payload) /\ UNCHANGED <<pool, seen, rejected, lost>>
        /\ payload' = <<>> /\ queue' = {}
    BY <1>8, ExecutedGrows DEF ApplyForkChoice
  <2>2. Range(payload') = {}
    BY <2>1, RangeOfEmpty
  <2> QED  BY <2>1, <2>2 DEF PlacesInv
<1>9. CASE BuildFails
  <2>1. /\ Executed' = Executed /\ UNCHANGED <<pool, seen, rejected>>
        /\ lost' = lost \cup Range(payload) /\ payload' = <<>> /\ queue' = {}
    BY <1>1, <1>9 DEF BuildFails
  <2>2. Range(payload') = {}
    BY <2>1, RangeOfEmpty
  <2> QED  BY <2>1, <2>2 DEF PlacesInv
<1>10. CASE Exhausted \/ UNCHANGED vars
  BY <1>1, <1>10 DEF Exhausted, vars, PlacesInv
<1> QED  BY <1>2, <1>3, <1>4, <1>5, <1>6, <1>7, <1>8, <1>9, <1>10 DEF Next, Fill

LEMMA PlacesInvCounts == PlacesInv => EachTxInOnePlace
<1> SUFFICES ASSUME PlacesInv, NEW t \in Txs
             PROVE  Cardinality({i \in DOMAIN <<pool, rejected, lost, Range(payload), Executed>> :
                                   t \in <<pool, rejected, lost, Range(payload), Executed>>[i]})
                      = IF t \in seen THEN 1 ELSE 0
  BY DEF EachTxInOnePlace
<1> QED  BY OnePlace DEF PlacesInv

-----------------------------------------------------------------------------
(* The size of the state diff. *)

\* sum[i] is the size of the header and of the log entries of the first i transactions.
IsSum(sum, txs) ==
  /\ sum \in [0..Len(txs) -> Nat]
  /\ sum[0] = HeaderSize
  /\ \A i \in 1..Len(txs) : sum[i] = sum[i - 1] + LogSize[txs[i]]

FieldsOf(txs) == UNION {Fields[t] : t \in Range(txs)}

\* The state diff of the transactions fits into a blob.
Fits(txs) ==
  \E sum \in [0..Len(txs) -> Nat] :
    IsSum(sum, txs) /\ sum[Len(txs)] + Cardinality(FieldsOf(txs)) <= BlobSize

\* The running sums of fill_transactions are those of the payload.
SumInv ==
  /\ \A n \in DOMAIN canon : Fits(canon[n].txs)
  /\ pc # "idle" => /\ \E sum \in [0..Len(payload) -> Nat] :
                         IsSum(sum, payload) /\ sum[Len(payload)] = logs
                    /\ fields = FieldsOf(payload)
                    /\ logs + Cardinality(fields) <= BlobSize

LEMMA FieldsOfAppend ==
  ASSUME NEW txs \in Seq(Txs), NEW t \in Txs
  PROVE  FieldsOf(Append(txs, t)) = FieldsOf(txs) \cup Fields[t]
BY RangeOfAppend DEF FieldsOf

LEMMA SumAppend ==
  ASSUME NEW txs \in Seq(Txs), NEW t \in Txs, NEW sum \in [0..Len(txs) -> Nat], IsSum(sum, txs)
  PROVE  \E next \in [0..Len(Append(txs, t)) -> Nat] :
           IsSum(next, Append(txs, t)) /\ next[Len(Append(txs, t))] = sum[Len(txs)] + LogSize[t]
<1> DEFINE k == Len(txs)
           more == Append(txs, t)
           next == [i \in 0..(k + 1) |-> IF i = k + 1 THEN sum[k] + LogSize[t] ELSE sum[i]]
<1>1. /\ k \in Nat /\ Len(more) = k + 1 /\ more[k + 1] = t
      /\ \A i \in 1..k : more[i] = txs[i]
  BY AppendProperties, LenProperties
<1>2. LogSize[t] \in Nat /\ sum[k] \in Nat
  <2>1. k \in 0..Len(txs)
    BY <1>1
  <2> HIDE DEF k
  <2>2. LogSize[t] \in Nat
    BY BlockConstants
  <2> QED  BY <2>1, <2>2
<1> HIDE DEF more
<1>3. /\ next \in [0..(k + 1) -> Nat] /\ next[k + 1] = sum[k] + LogSize[t]
      /\ \A i \in 0..k : next[i] = sum[i]
  BY <1>1, <1>2
<1> HIDE DEF next
<1>4. \A i \in 1..(k + 1) : next[i] = next[i - 1] + LogSize[more[i]]
  <2> TAKE i \in 1..(k + 1)
  <2>1. CASE i = k + 1
    <3>1. i - 1 = k /\ k \in 0..k
      BY <1>1, <2>1
    <3> QED  BY <1>1, <1>3, <2>1, <3>1
  <2>2. CASE i \in 1..k
    <3>1. i \in 0..k /\ i - 1 \in 0..k
      BY <1>1, <2>2
    <3> QED  BY <1>1, <1>3, <2>2, <3>1, Zenon DEF IsSum
  <2> QED  BY <1>1, <2>1, <2>2
<1>5. next[0] = HeaderSize
  <2>1. 0 \in 0..k
    BY <1>1
  <2> QED  BY <1>3, <2>1 DEF IsSum
<1>6. IsSum(next, more) /\ next \in [0..Len(more) -> Nat] /\ next[Len(more)] = sum[k] + LogSize[t]
  BY <1>1, <1>3, <1>4, <1>5 DEF IsSum
<1> QED  BY <1>6 DEF more

LEMMA SumOfNone ==
  ASSUME NEW txs, txs = <<>>
  PROVE  /\ \E sum \in [0..Len(txs) -> Nat] : IsSum(sum, txs) /\ sum[Len(txs)] = HeaderSize
         /\ FieldsOf(txs) = {}
<1>1. Len(txs) = 0
  BY EmptySeq
<1> DEFINE sum == [i \in 0..0 |-> HeaderSize]
<1>2. sum \in [0..0 -> Nat] /\ sum[0] = HeaderSize
  BY BlockConstants
<1> HIDE DEF sum
<1>3. IsSum(sum, txs)
  BY <1>1, <1>2 DEF IsSum
<1>4. FieldsOf(txs) = {}
  BY RangeOfEmpty DEF FieldsOf
<1> QED  BY <1>1, <1>2, <1>3, <1>4

\* Induction, as the well-foundedness of the natural numbers: a set of them has a least one.
LEMMA LeastNumber ==
  ASSUME NEW T, T \subseteq Nat, T # {}
  PROVE  \E n \in T : \A m \in T : n <= m
<1> DEFINE R == OpToRel(<, Nat)
<1>1. IsWellFoundedOn(R, Nat)
  BY NatLessThanWellFounded
<1>2. \A x, y \in Nat : <<x, y>> \in R <=> x < y
  BY DEF OpToRel
<1> HIDE DEF R
<1>3. PICK n \in T : \A m \in T : ~ (<<m, n>> \in R)
  BY <1>1, WFMin, Zenon
<1>4. ASSUME NEW m \in T PROVE n <= m
  <2>1. ~ (m < n)
    BY <1>2, <1>3, Zenon
  <2> QED  BY <2>1
<1> QED  BY <1>4

\* The sums along a sequence of transactions are determined: DiffSize computes them.
LEMMA DiffSizeIsSum ==
  ASSUME NEW txs \in Seq(Txs), NEW sum, IsSum(sum, txs)
  PROVE  DiffSize(txs) = sum[Len(txs)] + Cardinality(FieldsOf(txs))
<1> DEFINE k == Len(txs)
           Step(f) == [i \in 0..k |-> IF i = 0 THEN HeaderSize ELSE f[i - 1] + LogSize[txs[i]]]
           g == CHOOSE f : f = Step(f)
<1>1. k \in Nat
  OBVIOUS
<1>2. DiffSize(txs) = g[k] + Cardinality(FieldsOf(txs))
  BY DEF DiffSize, FieldsOf
<1>3. sum = Step(sum)
  <2>1. \A i \in 0..k : i # 0 => i \in 1..k
    BY <1>1
  <2> QED  BY <2>1 DEF IsSum
<1>4. g = Step(g)
  <2>1. \E f : f = Step(f)
    BY <1>3, Zenon
  <2> QED  BY <2>1, Zenon
<1> HIDE DEF g
<1>5. /\ g[0] = HeaderSize
      /\ \A i \in 1..k : g[i] = g[i - 1] + LogSize[txs[i]]
  BY <1>1, <1>4
<1> DEFINE T == {i \in 0..k : g[i] # sum[i]}
<1>6. T = {}
  <2> SUFFICES ASSUME T # {} PROVE FALSE
    OBVIOUS
  <2>0. T \subseteq Nat
    BY <1>1
  <2>1. PICK i \in T : \A j \in T : i <= j
    BY <2>0, LeastNumber, Zenon
  <2>2. i # 0
    BY <1>5, <2>1 DEF IsSum
  <2>3. i \in 1..k /\ i - 1 \in 0..k /\ ~ (i <= i - 1)
    BY <1>1, <2>1, <2>2
  <2>4. g[i - 1] = sum[i - 1]
    BY <2>1, <2>3
  <2> QED  BY <1>5, <2>1, <2>3, <2>4 DEF IsSum
<1>7. g[k] = sum[k]
  BY <1>1, <1>6
<1> QED  BY <1>2, <1>7

LEMMA SumInvInitially == Init => SumInv
BY DEF Init, SumInv

LEMMA SumInvIsKept == ChainInv /\ SumInv /\ [Next]_vars => SumInv'
<1> SUFFICES ASSUME ChainInv, SumInv, [Next]_vars PROVE SumInv'
  OBVIOUS
<1> USE DEF chainVars, fillVars, poolVars
<1>1. ASSUME canon' = canon, pc' = "idle" \/ (pc # "idle" /\ UNCHANGED <<payload, logs, fields>>)
      PROVE  SumInv'
  BY <1>1 DEF SumInv
<1>2. ASSUME NEW t \in Txs, AddTx(t) PROVE SumInv'
  <2>1. UNCHANGED <<canon, pc, payload, logs, fields>>
    BY <1>2, SMTT(30) DEF AddTx
  <2> QED  BY <1>1, <2>1
<1>3. ASSUME NEW t \in Txs, SkipForGas(t) \/ Reject(t) \/ ExecutionFails(t) \/ TooBig(t)
      PROVE  SumInv'
  BY <1>1, <1>3, Zenon DEF SkipForGas, Reject, ExecutionFails, TooBig, Executes, AtHead
<1>4. ASSUME NEW t \in Txs, Include(t) PROVE SumInv'
  <2>1. /\ pc # "idle" /\ UNCHANGED <<canon, pc>> /\ payload' = Append(payload, t)
        /\ logs' = logs + LogSize[t] /\ fields' = fields \cup Fields[t] /\ SizeWith(t) <= BlobSize
    BY <1>4 DEF Include, Executes, AtHead
  <2>2. payload \in Seq(Txs)
    BY DEF ChainInv, TypeOK
  <2>3. \E sum \in [0..Len(payload') -> Nat] : IsSum(sum, payload') /\ sum[Len(payload')] = logs'
    <3>1. PICK sum \in [0..Len(payload) -> Nat] : IsSum(sum, payload) /\ sum[Len(payload)] = logs
      BY <2>1 DEF SumInv
    <3> QED  BY <2>1, <2>2, <3>1, SumAppend
  <2>4. fields' = FieldsOf(payload')
    BY <2>1, <2>2, FieldsOfAppend DEF SumInv
  <2>5. logs' + Cardinality(fields') <= BlobSize
    BY <2>1 DEF SizeWith
  <2> QED  BY <2>1, <2>3, <2>4, <2>5 DEF SumInv
<1>5. CASE BeginBuild
  <2>1. canon' = canon /\ payload' = <<>> /\ logs' = HeaderSize /\ fields' = {}
    BY <1>5 DEF BeginBuild
  <2>2. Cardinality(fields') = 0
    BY <2>1, FS_EmptySet
  <2>3. logs' + Cardinality(fields') <= BlobSize
    BY <2>1, <2>2, BlockConstants
  <2>4. /\ \E sum \in [0..Len(payload') -> Nat] : IsSum(sum, payload') /\ sum[Len(payload')] = logs'
        /\ fields' = FieldsOf(payload')
    BY <2>1, SumOfNone
  <2> QED  BY <2>1, <2>3, <2>4 DEF SumInv
<1>6. CASE StoreBlock \/ StoreUpdates
  BY <1>1, <1>6 DEF StoreBlock, StoreUpdates
<1>7. CASE ApplyForkChoice
  <2>1. pc' = "idle" /\ pc # "idle"
    BY <1>7 DEF ApplyForkChoice
  <2>2. Fits(payload)
    BY <2>1 DEF SumInv, Fits
  <2>3. \A n \in DOMAIN canon' : canon'[n].txs = payload \/ (n \in DOMAIN canon /\ canon'[n] = canon[n])
    <3>1. /\ DOMAIN canon = 1..Len(canon) /\ Len(canon) \in Nat
          /\ DOMAIN canon' = 1..(Len(canon) + 1)
          /\ \A n \in 1..Len(canon) : canon'[n] = canon[n]
          /\ canon'[Len(canon) + 1].txs = payload
      BY <1>7, ForkChoiceAppends
    <3>2. \A n \in 1..(Len(canon) + 1) : n \in 1..Len(canon) \/ n = Len(canon) + 1
      BY <3>1
    <3> QED  BY <3>1, <3>2
  <2> QED  BY <2>1, <2>2, <2>3 DEF SumInv
<1>8. CASE BuildFails
  BY <1>1, <1>8 DEF BuildFails
<1>9. CASE Exhausted \/ UNCHANGED vars
  <2>1. UNCHANGED <<canon, pc, payload, logs, fields>>
    BY <1>9 DEF Exhausted, vars
  <2> QED  BY <1>1, <2>1
<1> QED  BY <1>2, <1>3, <1>4, <1>5, <1>6, <1>7, <1>8, <1>9 DEF Next, Fill

LEMMA SumInvFits == ChainInv /\ SumInv => BlockFitsBlob
<1> SUFFICES ASSUME ChainInv, SumInv, NEW n \in DOMAIN canon
             PROVE  DiffSize(canon[n].txs) <= BlobSize
  BY DEF BlockFitsBlob
<1>1. canon[n].txs \in Seq(Txs)
  <2>1. canon \in Seq(Block)
    BY DEF ChainInv, TypeOK, Block
  <2>2. canon[n] \in Block
    BY <2>1
  <2> QED  BY <2>2 DEF Block
<1>2. PICK sum \in [0..Len(canon[n].txs) -> Nat] :
        /\ IsSum(sum, canon[n].txs)
        /\ sum[Len(canon[n].txs)] + Cardinality(FieldsOf(canon[n].txs)) <= BlobSize
  BY DEF SumInv, Fits
<1> QED  BY <1>1, <1>2, DiffSizeIsSum

-----------------------------------------------------------------------------
\* block_producer.rs: the state of build_block, the stores and the mempool has its type.
THEOREM BlocksTypeCorrect == Spec => []TypeOK
<1>1. ChainInv => TypeOK
  BY DEF ChainInv
<1> QED  BY ChainInvInitially, ChainInvIsKept, <1>1, PTL DEF Spec

\* rollup_store: the updates cached for a canonical block are its own, although blocks
\* that never became canonical were cached under the same number.
THEOREM CacheAlwaysMatches == Spec => []CacheMatchesChain
<1>1. ChainInv => CacheMatchesChain
  BY DEF ChainInv
<1> QED  BY ChainInvInitially, ChainInvIsKept, <1>1, PTL DEF Spec

\* fill_transactions: each transaction handed to the node is in exactly one of the mempool,
\* the block being built, the chain, and those rejected and lost, whatever fails.
THEOREM TxsStayInOnePlace == Spec => []EachTxInOnePlace
BY ChainInvInitially, ChainInvIsKept, PlacesInvInitially, PlacesInvIsKept, PlacesInvCounts,
   PTL DEF Spec

\* fill_transactions: the state diff of every canonical block fits into a blob, for any
\* transactions, sizes and failures.
THEOREM BlocksFitBlob == Spec => []BlockFitsBlob
BY ChainInvInitially, ChainInvIsKept, SumInvInitially, SumInvIsKept, SumInvFits, PTL DEF Spec
=============================================================================
