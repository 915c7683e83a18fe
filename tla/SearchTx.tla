------------------------------ MODULE SearchTx ------------------------------
(***************************************************************************)
(* One call of SearchTx (api/transaction.go): the transactions of a block  *)
(* are asked for page by page and converted, until as many are there as    *)
(* the node says it has.  The node indexes the transactions of a block     *)
(* after the block itself is served, one by one and between two pages too. *)
(***************************************************************************)
EXTENDS TxMapping

CONSTANTS Blocks,     \* the blocks the height may turn out to have
          PerPage     \* page (100)

ASSUME SearchAssumption ==
  /\ PerPage \in Nat \ {0}
  /\ \A b \in Blocks : b \in Seq(Range(b)) /\ \A tx \in Range(b) :
       tx.messages \in Seq(Range(tx.messages)) /\ tx.logs \in Seq(Range(tx.logs))

VARIABLES block,      \* the transactions of the block
          indexed,    \* how many of them the node has indexed
          page,       \* next page
          txs,        \* the transactions converted so far
          pc          \* "request", then "done", "err" or "panic"

vars == <<block, indexed, page, txs, pc>>

Init == /\ block \in Blocks
        /\ indexed \in 0 .. Len(block)
        /\ page = 1
        /\ txs = << >>
        /\ pc = "request"

-----------------------------------------------------------------------------
\* the tx indexer of the node goes on
NodeIndexes == /\ indexed < Len(block)
               /\ indexed' = indexed + 1
               /\ UNCHANGED <<block, page, txs, pc>>

\* Mutant: pages counted from zero
OffsetZero == PerPage * page

Offset == PerPage * page - PerPage

\* GetTxsEvent: the page at Offset of what is indexed, and Pagination.Total
PageTxs == SubSeq(block, Offset + 1, IF Offset + PerPage < indexed THEN Offset + PerPage ELSE indexed)
Total   == indexed

\* the rate limiter or the call
CallFails == /\ pc = "request"
             /\ pc' = "err"
             /\ txs' = << >>
             /\ UNCHANGED <<block, indexed, page>>

\* Mutant: a page that does not convert starts the search over
PageFailsRetry ==
  /\ pc = "request"
  /\ \E tx \in Range(PageTxs) : status(tx) # "ok"
  /\ page' = 1
  /\ txs' = << >>
  /\ UNCHANGED <<block, indexed, pc>>

\* a transaction of the page does not convert: SearchTx returns the error
PageFails ==
  LET bad == SelectInSeq(PageTxs, LAMBDA tx : status(tx) # "ok") IN
  /\ pc = "request"
  /\ bad # 0
  /\ pc' = status(PageTxs[bad])
  /\ txs' = << >>
  /\ UNCHANGED <<block, indexed, page>>

\* Mutant: the loop ends only beyond the total
PageConvertsBeyond ==
  /\ pc = "request"
  /\ \A tx \in Range(PageTxs) : status(tx) = "ok"
  /\ txs' = txs \o [i \in DOMAIN PageTxs |-> rawToTransaction(PageTxs[i])]
  /\ IF Total < Len(txs')
     THEN pc' = "done" /\ UNCHANGED page
     ELSE page' = page + 1 /\ UNCHANGED pc
  /\ UNCHANGED <<block, indexed>>

\* Mutant: one transaction too few ends the loop
PageConvertsEarly ==
  /\ pc = "request"
  /\ \A tx \in Range(PageTxs) : status(tx) = "ok"
  /\ txs' = txs \o [i \in DOMAIN PageTxs |-> rawToTransaction(PageTxs[i])]
  /\ IF Total <= Len(txs') + 1
     THEN pc' = "done" /\ UNCHANGED page
     ELSE page' = page + 1 /\ UNCHANGED pc
  /\ UNCHANGED <<block, indexed>>

PageConverts ==
  /\ pc = "request"
  /\ \A tx \in Range(PageTxs) : status(tx) = "ok"
  /\ txs' = txs \o [i \in DOMAIN PageTxs |-> rawToTransaction(PageTxs[i])]
  /\ IF Total <= Len(txs')
     THEN pc' = "done" /\ UNCHANGED page
     ELSE page' = page + 1 /\ UNCHANGED pc
  /\ UNCHANGED <<block, indexed>>

Search == CallFails \/ PageFails \/ PageConverts

Next == NodeIndexes \/ Search

Spec == Init /\ [][Next]_vars

\* a call ends, with an answer or at TimeoutSearchTxCall
FairSpec == Spec /\ WF_vars(Search)

-----------------------------------------------------------------------------
(* Properties *)

TypeOK == /\ indexed \in 0 .. Len(block)
          /\ page \in 1 .. Len(block) + 1
          /\ pc \in {"request", "done", "err", "panic"}

\* The transactions handed back are those of the block, from the first on,
\* each once and in order, although the node indexes while pages are fetched.
PagesJoin ==
  /\ Len(txs) <= Len(block)
  /\ \A i \in DOMAIN txs : status(block[i]) = "ok" /\ txs[i] = rawToTransaction(block[i])

\* SearchTx hands back all that the node has, never less than an earlier page
\* announced: it stops only when nothing indexed is missing.
NothingLeftBehind == [][pc = "request" /\ pc' = "done" => Len(txs') = indexed]_vars

\* Where the transfers of message k may come from: a log with the index of the
\* message, or no log when there is none for it or fewer logs than messages.
OwnLogs(tx, k) ==
  LET own == { lg \in Range(tx.logs) : lg.msgIndex = k - 1 } IN
  IF Len(tx.logs) < k \/ own = {} THEN {NoLog} ELSE own

\* The events evs are those of tx: one per message, in their order, made by the
\* mapper of the message, and an error event behind them if the transaction failed.
EventsOf(tx, evs) ==
  /\ Len(evs) = Len(tx.messages) + (IF tx.code > 0 THEN 1 ELSE 0)
  /\ tx.code > 0 => evs[Len(evs)].kind = "error"
  /\ \A k \in DOMAIN tx.messages :
       /\ evs[k].id = k - 1
       /\ \E sub \in MapperOf(tx.messages[k].path) :
            /\ evs[k].kind = sub.type /\ evs[k].module = sub.module /\ evs[k].key = sub.transfers
            /\ sub.transfers # "none" =>
                 \E lg \in OwnLogs(tx, k) : evs[k].transfers = produceTransfers(lg, sub.skip)

\* Every transaction handed back has the events of its own messages, made from no
\* other message's log, in whatever order the node lists the logs.
EventsOwn == \A i \in DOMAIN txs : EventsOf(block[i], txs[i])

\* A coin string with a denomination free of digits.
Plain(coin) == Len(coin) = 2

\* Each event carries the transfers the chain made for its own message, recipient
\* by recipient, except those to the pool of unbonded tokens; a failed transaction
\* moved nothing.  Denominations with digits in them are left aside.
TransfersTrue ==
  \A i \in DOMAIN txs : LET tx == block[i] IN
    \A k \in DOMAIN tx.messages :
      LET ev    == txs[i][k]
          moved == IF tx.code > 0 THEN << >>
                   ELSE SelectSeq(tx.messages[k].moves,
                          LAMBDA m : ~(ev.kind = "undelegate" /\ m.to = unbondedAddr))
      IN  ev.key # "none" =>
            /\ Len(ev.transfers) = Len(moved)
            /\ \A j \in DOMAIN moved :
                 /\ ev.transfers[j].account = moved[j].to
                 /\ \A c \in DOMAIN moved[j].coins : Plain(moved[j].coins[c]) =>
                      ev.transfers[j].amounts[c] =
                        [numeric |-> moved[j].coins[c][1].text,
                         currency |-> moved[j].coins[c][2].text]

\* Every search ends.
SearchEnds == <>(pc # "request")
=============================================================================
