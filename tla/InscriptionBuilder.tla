-------------------------- MODULE InscriptionBuilder --------------------------
(***************************************************************************)
(* crates/batch-submitter/src/builder.rs: create_inscription_tx builds a   *)
(* commit transaction, funded and signed by the wallet of a Bitcoin node,  *)
(* and the reveal transaction that spends it.  Funding locks the coins it  *)
(* picks; several calls share the wallet.                                  *)
(*                                                                         *)
(* A payload is its length in bytes.  The coins are native segwit coins,   *)
(* so signing the commit transaction leaves its id as it is.               *)
(***************************************************************************)
EXTENDS Naturals, Sequences

CONSTANTS
  Builders,      \* calls of create_inscription_tx
  Coins,         \* the unspent outputs of the wallet, each enough to fund a commit
  PayloadLists,  \* what the payloads of a call may be: lists of lengths
  MaxPush,       \* MAX_PUSH_SIZE
  Amount, FeeRate, BaseSize

\* A push has room for a byte; lengths, amounts and the fee rate are unsigned.
ASSUME InscriptionConstants ==
  /\ MaxPush \in Nat \ {0} /\ Amount \in Nat /\ FeeRate \in Nat /\ BaseSize \in Nat
  /\ PayloadLists \subseteq Seq(Nat)

SignatureSize == 64

VARIABLES
  payloads,  \* of each call
  stage,     \* "start", "fund", "closure", "unlock", "ok", "err"
  commit,    \* the commit transaction of each call
  reveal,    \* its reveal transaction
  locked,    \* the coins the wallet has locked
  orphaned   \* history: coins locked for a call that never learned of it

builderVars == <<payloads, stage, commit, reveal, locked, orphaned>>

NoTx == [inputs |-> {}, script |-> <<>>, value |-> 0]
NoReveal == [spends |-> NoTx, script |-> <<>>, signature |-> 0, value |-> 0]

-----------------------------------------------------------------------------
(* The scripts and the amounts. *)

\* Mutant: the last, shorter, chunk is dropped.
Chunks_Whole(n) == [i \in 1..(n \div MaxPush) |-> MaxPush]

\* payload.chunks(MAX_PUSH_SIZE): the lengths of the chunks.
Chunks(n) ==
  [i \in 1..((n + MaxPush - 1) \div MaxPush) |->
     IF i * MaxPush <= n THEN MaxPush ELSE n % MaxPush]

\* build_reveal_script: one envelope of pushes per payload.
build_reveal_script(ps) == [i \in DOMAIN ps |-> Chunks(ps[i])]

SumOf(s) ==
  LET sum[i \in 0..Len(s)] == IF i = 0 THEN 0 ELSE sum[i - 1] + s[i]
  IN  sum[Len(s)]

\* An envelope costs its three opcodes, and each push its length and its bytes.
ScriptSize(script) ==
  SumOf([i \in DOMAIN script |-> 3 + Len(script[i]) + SumOf(script[i])])

\* The size of the transaction with the witness <<signature, script, control block>>.
RevealSize(signature, script) == BaseSize + signature + ScriptSize(script)

\* calculate_reveal_input_value: the fee of a reveal with a dummy signature, and amount.
calculate_reveal_input_value(script) == FeeRate * RevealSize(SignatureSize, script) + Amount

BuilderTypeOK ==
  /\ payloads \in [Builders -> PayloadLists]
  /\ stage \in [Builders -> {"start", "fund", "closure", "unlock", "ok", "err"}]
  /\ \A b \in Builders : commit[b].inputs \subseteq Coins
  /\ \A b \in Builders : stage[b] \in {"closure", "unlock", "ok"} => commit[b].inputs /= {}
  /\ \A b \in Builders : stage[b] = "ok" <=> reveal[b] /= NoReveal
  /\ locked \subseteq Coins /\ orphaned \subseteq locked

BuilderInit ==
  /\ payloads \in [Builders -> PayloadLists]
  /\ stage = [b \in Builders |-> "start"]
  /\ commit = [b \in Builders |-> NoTx] /\ reveal = [b \in Builders |-> NoReveal]
  /\ locked = {} /\ orphaned = {}

Goto(b, s) == stage' = [stage EXCEPT ![b] = s]

-----------------------------------------------------------------------------
(* The steps of a call. *)

\* Up to build_unfunded_commit_tx: no payload is an error.
Prepare(b) ==
  /\ stage[b] = "start"
  /\ IF payloads[b] = <<>>
     THEN Goto(b, "err") /\ UNCHANGED commit
     ELSE LET script == build_reveal_script(payloads[b])
          IN /\ commit' = [commit EXCEPT ![b] = [inputs |-> {}, script |-> script,
                             value |-> calculate_reveal_input_value(script)]]
             /\ Goto(b, "fund")
  /\ UNCHANGED <<payloads, reveal, locked, orphaned>>

\* fund_tx: the wallet picks coins that are not locked and locks them; or it has none,
\* or cannot be reached; or the answer is lost, and the coins stay locked for nobody.
fund_tx(b) ==
  /\ stage[b] = "fund"
  /\ \/ \E c \in Coins \ locked :
          /\ locked' = locked \cup {c}
          /\ \/ /\ commit' = [commit EXCEPT ![b].inputs = {c}]
                /\ Goto(b, "closure") /\ UNCHANGED orphaned
             \/ orphaned' = orphaned \cup {c} /\ Goto(b, "err") /\ UNCHANGED commit
     \/ Goto(b, "err") /\ UNCHANGED <<commit, locked, orphaned>>
  /\ UNCHANGED <<payloads, reveal>>

\* build_and_sign_reveal_tx: spends output 0 of the commit transaction.
build_and_sign_reveal_tx(tx) ==
  [spends |-> tx, script |-> tx.script, signature |-> SignatureSize, value |-> Amount]

\* Mutant: the error of the closure is returned without unlocking.
Closure_NoUnlock(b) ==
  /\ stage[b] = "closure"
  /\ \/ /\ reveal' = [reveal EXCEPT ![b] = build_and_sign_reveal_tx(commit[b])]
        /\ Goto(b, "ok")
     \/ Goto(b, "err") /\ UNCHANGED reveal
  /\ UNCHANGED <<payloads, commit, locked, orphaned>>

\* The closure after the coins are locked: the check of output 0, the reveal transaction,
\* and the signature of the wallet on the commit transaction; any of them may fail.
Closure(b) ==
  /\ stage[b] = "closure"
  /\ \/ /\ reveal' = [reveal EXCEPT ![b] = build_and_sign_reveal_tx(commit[b])]
        /\ Goto(b, "ok")
     \/ Goto(b, "unlock") /\ UNCHANGED reveal
  /\ UNCHANGED <<payloads, commit, locked, orphaned>>

\* unlock_unspent, whose result is ignored: the call may not reach the wallet.
Unlock(b) ==
  /\ stage[b] = "unlock"
  /\ \/ locked' = locked \ commit[b].inputs /\ UNCHANGED orphaned
     \/ orphaned' = orphaned \cup commit[b].inputs /\ UNCHANGED locked
  /\ Goto(b, "err")
  /\ UNCHANGED <<payloads, commit, reveal>>

BuilderNext == \E b \in Builders : Prepare(b) \/ fund_tx(b) \/ Closure(b) \/ Unlock(b)

BuilderSpec == BuilderInit /\ [][BuilderNext]_builderVars

-----------------------------------------------------------------------------
(* Properties. *)

Funded(b) == stage[b] \in {"closure", "unlock", "ok"}

\* Two calls never fund their commit transactions with the same coin, and an unlock never
\* frees a coin that another call has.
CoinsAreExclusive ==
  /\ \A b, d \in Builders :
       b /= d /\ Funded(b) /\ Funded(d) => commit[b].inputs \cap commit[d].inputs = {}
  /\ \A b \in Builders : Funded(b) => commit[b].inputs \subseteq locked \ orphaned

\* A coin is locked for a call that has it, or because a call of the wallet was lost: a
\* call that fails does not keep its coins ("unlock the UTxOs before returning").
LocksAreReleased ==
  locked \subseteq orphaned \cup UNION {commit[b].inputs : b \in {d \in Builders : Funded(d)}}

\* No coin funds two commit transactions, and a call that fails does not keep its coins.
CoinsAreAccounted == CoinsAreExclusive /\ LocksAreReleased

\* The reveal transaction of a call that succeeds spends the commit transaction returned
\* with it, carries every byte of the payloads in pushes of at most MAX_PUSH_SIZE bytes,
\* and what it leaves to the miner is the fee of its actual size.
RevealIsValid ==
  \A b \in Builders : stage[b] = "ok" =>
    LET r == reveal[b]
    IN /\ r.spends = commit[b]
       /\ \A i \in DOMAIN payloads[b] :
            /\ SumOf(r.script[i]) = payloads[b][i]
            /\ \A j \in DOMAIN r.script[i] : r.script[i][j] \in 1..MaxPush
       /\ commit[b].value - r.value >= FeeRate * RevealSize(r.signature, r.script)

=============================================================================
