------------------------------ MODULE TxMapping ------------------------------
(***************************************************************************)
(* From a transaction of the chain to the events the manager gets:         *)
(* rawToTransaction, findLog and the dispatch of api/transaction.go and    *)
(* the mappers of api/mapper.  Pure functions over small records:          *)
(*                                                                         *)
(*   transaction  messages, logs, code (0: executed)                       *)
(*   message      path (its TypeUrl split at the dots), wire (its bytes    *)
(*                decode), coins (its coin list is not empty), and moves,  *)
(*                the transfers the chain made for it, which only the node *)
(*                and the properties look at                               *)
(*   log          msgIndex, events: [type, attrs], attrs: [key, value]     *)
(*   amount       a coin string, as its runs of digits and of other        *)
(*                characters: [kind, text, parts], parts being the number  *)
(*                of pieces between the points of a run of digits          *)
(*                                                                         *)
(* A transaction without a Body is one without messages.  A transaction    *)
(* the client has decoded is taken to marshal, and its fee is left out.    *)
(* Of a SubsetEvent the model keeps type, module and transfers; accounts,  *)
(* amounts and notes copied field by field from the message are left out.  *)
(***************************************************************************)
EXTENDS Integers, Sequences, SequencesExt

-----------------------------------------------------------------------------
(* What each mapper makes of its message: the type and module of the event, *)
(* the key and the skipped recipient it gives to produceTransfers ("none":  *)
(* not called) and the way it can fail once the bytes are decoded.          *)

Sub(type, module) ==
  [type |-> type, module |-> module, transfers |-> "none", skip |-> "", fails |-> "never"]
SubMoving(type, module, transferType, skipAddr) ==
  [Sub(type, module) EXCEPT !.transfers = transferType, !.skip = skipAddr]
SubFailing(type, module, when) == [Sub(type, module) EXCEPT !.fails = when]

unbondedAddr == "unbonded"

Bank == [MsgSend      |-> SubMoving("send", "bank", "send", ""),
         MsgMultiSend |-> SubMoving("multisend", "bank", "send", "")]

Crisis == [MsgVerifyInvariant |-> Sub("verify_invariant", "crisis")]

\* distributionProduceEvTx sets a Numeric that was never allocated
Distribution ==
  [MsgWithdrawValidatorCommission |->
     SubMoving("withdraw_validator_commission", "distribution", "send", ""),
   MsgSetWithdrawAddress |-> Sub("set_withdraw_address", "distribution"),
   MsgWithdrawDelegatorReward |->
     SubMoving("withdraw_delegator_reward", "distribution", "reward", ""),
   MsgFundCommunityPool |-> SubFailing("fund_community_pool", "distribution", "panicsOnCoins")]

\* proto.Unmarshal leaves the cached value of the Any empty: GetEvidence is nil
Evidence == [MsgSubmitEvidence |-> SubFailing("submit_evidence", "evidence", "always")]

Gov == [MsgDeposit        |-> SubMoving("deposit", "gov", "send", ""),
        MsgVote           |-> Sub("vote", "gov"),
        MsgSubmitProposal |-> SubMoving("submit_proposal", "gov", "send", "")]

Slashing == [MsgUnjail |-> Sub("unjail", "slashing")]

Vesting == [MsgCreateVestingAccount |-> Sub("msg_create_vesting_account", "vesting")]

Staking ==
  [MsgUndelegate      |-> SubMoving("undelegate", "staking", "reward", unbondedAddr),
   MsgEditValidator   |-> Sub("edit_validator", "distribution"),
   MsgCreateValidator |-> Sub("create_validator", "distribution"),
   MsgDelegate        |-> SubMoving("delegate", "staking", "reward", ""),
   MsgBeginRedelegate |-> SubMoving("begin_redelegate", "staking", "reward", "")]

IBCClient == [MsgCreateClient       |-> Sub("create_client", "ibc"),
              MsgUpdateClient       |-> Sub("update_client", "ibc"),
              MsgUpgradeClient      |-> Sub("upgrade_client", "ibc"),
              MsgSubmitMisbehaviour |-> Sub("submit_misbehaviour", "ibc")]

IBCConnection == [MsgConnectionOpenInit    |-> Sub("connection_open_init", "ibc"),
                  MsgConnectionOpenConfirm |-> Sub("connection_open_confirm", "ibc"),
                  MsgConnectionOpenAck     |-> Sub("connection_open_ack", "ibc"),
                  MsgConnectionOpenTry     |-> Sub("connection_open_try", "ibc")]

IBCChannel == [MsgChannelOpenInit     |-> Sub("channel_open_init", "ibc"),
               MsgChannelOpenTry      |-> Sub("channel_open_try", "ibc"),
               MsgChannelOpenConfirm  |-> Sub("channel_open_confirm", "ibc"),
               MsgChannelOpenAck      |-> Sub("channel_open_ack", "ibc"),
               MsgChannelCloseInit    |-> Sub("channel_close_init", "ibc"),
               MsgChannelCloseConfirm |-> Sub("channel_close_confirm", "ibc"),
               MsgRecvPacket          |-> Sub("recv_packet", "ibc"),
               MsgTimeout             |-> Sub("timeout", "ibc"),
               MsgAcknowledgement     |-> Sub("channel_acknowledgement", "ibc")]

IBCTransfer == [MsgTransfer |-> Sub("transfer", "ibc")]

Liquidity ==
  [MsgCreatePool          |-> Sub("create_pool", "tendermint_liquidity"),
   MsgDepositWithinBatch  |-> Sub("deposit_within_batch", "tendermint_liquidity"),
   MsgWithdrawWithinBatch |-> Sub("withdraw_within_batch", "tendermint_liquidity"),
   MsgSwapWithinBatch     |-> Sub("swap_within_batch", "tendermint_liquidity")]

-----------------------------------------------------------------------------
(* Dispatch: the mapper of a message, none if its TypeUrl has another shape *)
(* or names a route or a type that no case handles                          *)

addSubEvent == [bank |-> Bank, crisis |-> Crisis, distribution |-> Distribution,
                evidence |-> Evidence, gov |-> Gov, slashing |-> Slashing,
                vesting |-> Vesting, staking |-> Staking]

addIBCSubEvent == [client |-> IBCClient, connection |-> IBCConnection,
                   channel |-> IBCChannel, transfer |-> IBCTransfer]

addTendermintSubEvent == [liquidity |-> Liquidity]

Mapped(routes, route, type) ==
  IF route \in DOMAIN routes /\ type \in DOMAIN routes[route]
  THEN {routes[route][type]} ELSE {}

\* the set of the one mapper for a path, or the empty set
MapperOf(path) ==
  CASE Len(path) = 5 /\ path[1] = "/ibc" -> Mapped(addIBCSubEvent, path[3], path[5])
    [] Len(path) = 4 /\ path[1] = "/cosmos" -> Mapped(addSubEvent, path[2], path[4])
    [] Len(path) = 4 /\ path[1] = "/tendermint" -> Mapped(addTendermintSubEvent, path[2], path[4])
    [] OTHER -> {}

-----------------------------------------------------------------------------
(* Logs and transfers *)

NoLog == [msgIndex |-> 0, events |-> << >>]

\* Mutant: positions and indices taken for the same
findLogByPosition(logs, index) ==
  IF Len(logs) <= index THEN NoLog ELSE logs[index + 1]

\* the log of the message with this index: at its own position, or anywhere
findLog(logs, index) ==
  LET own == SelectInSeq(logs, LAMBDA lg : lg.msgIndex = index) IN
  IF Len(logs) <= index THEN NoLog
  ELSE IF logs[index + 1].msgIndex = index THEN logs[index + 1]
  ELSE IF own # 0 THEN logs[own]
  ELSE NoLog

\* the run of digits and the run of other characters that end the string
Sliced(coin) == Len(coin) >= 2 /\ coin[Len(coin)].kind = "other"

\* failing that GetCoin gets the whole string, of which SetString reads the
\* leading digits
GetCurrency(coin) ==
  LET n == Len(coin) IN
  IF Sliced(coin)
  THEN [numeric |-> coin[n - 1].text, currency |-> coin[n].text]
  ELSE [numeric |-> IF coin[1].kind = "digits" THEN coin[1].text ELSE "", currency |-> ""]

\* "Impossible to parse": more than one point in what GetCoin gets
GetCoinFails(coin) ==
  LET runs == IF Sliced(coin) THEN <<coin[Len(coin) - 1]>> ELSE coin IN
  FoldLeft(LAMBDA n, run : n + run.points, 0, runs) > 1

\* Mutant: every amount goes to the first recipient of the event
scanAttrFirst(acc, attr, skipAddr) ==
  LET latest == IF attr.key = "recipient" /\ acc.latest = "" THEN attr.text ELSE acc.latest IN
  [latest |-> latest,
   evts   |-> IF attr.key = "amount" /\ latest # skipAddr
              THEN Append(acc.evts, [account |-> latest, coins |-> attr.coins])
              ELSE acc.evts]

\* one attribute: a recipient, or an amount for the latest recipient
scanAttr(acc, attr, skipAddr) ==
  LET latest == IF attr.key = "recipient" THEN attr.text ELSE acc.latest IN
  [latest |-> latest,
   evts   |-> IF attr.key = "amount" /\ latest # skipAddr
              THEN Append(acc.evts, [account |-> latest, coins |-> attr.coins])
              ELSE acc.evts]

\* the amounts of the transfer events of a log, with their recipients
transfersOf(lg, skipAddr) ==
  LET moving == SelectSeq(lg.events, LAMBDA ev : ev.type = "transfer")
      scan(ev) == FoldLeft(LAMBDA acc, attr : scanAttr(acc, attr, skipAddr),
                           [latest |-> "", evts |-> << >>], ev.attrs).evts
  IN  FlattenSeq([i \in DOMAIN moving |-> scan(moving[i])])

produceTransfers(lg, skipAddr) ==
  LET evts == transfersOf(lg, skipAddr) IN
  [i \in DOMAIN evts |->
     [account |-> evts[i].account,
      amounts |-> [k \in DOMAIN evts[i].coins |-> GetCurrency(evts[i].coins[k])]]]

produceTransfersFails(lg, skipAddr) ==
  \E evt \in Range(transfersOf(lg, skipAddr)) : \E coin \in Range(evt.coins) : GetCoinFails(coin)

-----------------------------------------------------------------------------
(* rawToTransaction *)

\* how the mapping of message i of a transaction ends
outcome(tx, i) ==
  LET m  == tx.messages[i]
      lg == findLog(tx.logs, i - 1)
      M  == MapperOf(m.path)
  IN  IF \E sub \in M : m.wire /\ sub.fails = "panicsOnCoins" /\ m.coins THEN "panic"
      ELSE IF \E sub \in M :
                /\ m.wire
                /\ sub.fails # "always"
                /\ ~(sub.transfers # "none" /\ produceTransfersFails(lg, sub.skip))
           THEN "ok" ELSE "err"

\* the messages are mapped in order: the first that fails decides
status(tx) ==
  LET failing == SelectInSeq([i \in DOMAIN tx.messages |-> outcome(tx, i)],
                             LAMBDA o : o # "ok")
  IN  IF failing = 0 THEN "ok" ELSE outcome(tx, failing)

event(tx, i) ==
  LET sub == CHOOSE s \in MapperOf(tx.messages[i].path) : TRUE IN
  [id |-> i - 1, kind |-> sub.type, module |-> sub.module, key |-> sub.transfers,
   transfers |-> IF sub.transfers = "none" THEN << >>
                 ELSE produceTransfers(findLog(tx.logs, i - 1), sub.skip)]

errorEvent ==
  [id |-> -1, kind |-> "error", module |-> "codespace", key |-> "none", transfers |-> << >>]

\* Mutant: a failed transaction keeps no trace of its failure
rawToTransactionSilent(tx) == [i \in DOMAIN tx.messages |-> event(tx, i)]

\* the events of a transaction whose messages all map
rawToTransaction(tx) ==
  [i \in DOMAIN tx.messages |-> event(tx, i)]
    \o IF tx.code > 0 THEN <<errorEvent>> ELSE << >>
=============================================================================
