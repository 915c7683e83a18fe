--------------------------- MODULE SearchTxProofs ---------------------------
(***************************************************************************)
(* Proofs about SearchTx, for every page size and every block.  What a     *)
(* transaction is converted to is left unexpanded where the pages are      *)
(* joined; the last part is about the events of one transaction.           *)
(***************************************************************************)
EXTENDS SearchTx, WellFoundedInduction, TLAPS

(***************************************************************************)
(* Where the search stands when it asks for a page: the pages before are   *)
(* there in full, and unless it is the first the node has announced more.  *)
(***************************************************************************)
AtPage == pc = "request" => /\ Len(txs) = PerPage * page - PerPage
                            /\ page = 1 \/ Len(txs) < indexed

SearchInv == /\ block \in Blocks
             /\ txs \in Seq(Range(txs))
             /\ TypeOK
             /\ AtPage
             /\ PagesJoin

-----------------------------------------------------------------------------
(* Operators of the model *)

\* A set of naturals that is not empty has a least element, which Min is.
LEMMA MinIsLeast ==
  ASSUME NEW S \in SUBSET Nat, S # {}
  PROVE  Min(S) \in S
<1> DEFINE R == {ss \in Nat \X Nat : ss[1] < ss[2]}
<1>1. IsWellFoundedOn(R, Nat)
  BY NatLessThanWellFounded DEF OpToRel
<1>2. PICK x \in S : \A y \in S : ~ (<<y, x>> \in R)
  <2> HIDE DEF R
  <2> QED BY <1>1, WFMin
<1>3. \A y \in S : ~ (y < x)
  BY <1>2
<1>4. \A y \in S : x =< y
  BY <1>3
<1> QED BY <1>4 DEF Min

\* rawToTransaction ends in one of three ways.
LEMMA StatusRange ==
  ASSUME NEW tx
  PROVE  status(tx) \in {"ok", "err", "panic"}
<1>1. \A i : outcome(tx, i) \in {"ok", "err", "panic"}
  BY DEF outcome
<1>2. PICK f : f = SelectInSeq([i \in DOMAIN tx.messages |-> outcome(tx, i)], LAMBDA o : o # "ok")
  OBVIOUS
<1>3. status(tx) = IF f = 0 THEN "ok" ELSE outcome(tx, f)
  BY <1>2 DEF status
<1> QED BY <1>1, <1>3

\* Unless the search stops, the offset of the next page is the end of this one.
LEMMA OffsetStep ==
  ASSUME NEW q \in Nat
  PROVE  PerPage * (q + 1) - PerPage = (PerPage * q - PerPage) + PerPage
BY SearchAssumption

\* A page is never longer than the pages up to it.
LEMMA PageBound ==
  ASSUME NEW q \in Nat \ {0}
  PROVE  PerPage * q - PerPage \in Nat /\ q - 1 <= PerPage * q - PerPage
<1>1. PICK r \in Nat : q = r + 1
  <2>1. q - 1 \in Nat /\ q = (q - 1) + 1
    OBVIOUS
  <2> QED BY <2>1
<1>2. PerPage * q - PerPage = PerPage * r
  BY <1>1, SearchAssumption
<1>3. PICK k \in Nat : PerPage = k + 1
  <2>1. PerPage - 1 \in Nat /\ PerPage = (PerPage - 1) + 1
    BY SearchAssumption
  <2> QED BY <2>1
<1>4. k * r \in Nat /\ (k + 1) * r = k * r + r
  OBVIOUS
<1> QED BY <1>1, <1>2, <1>3, <1>4

-----------------------------------------------------------------------------
(* One page *)

\* The page at the offset of the search: what is indexed, at most PerPage.
LEMMA PageIs ==
  ASSUME SearchInv, pc = "request"
  PROVE  /\ PageTxs \in Seq(Range(block))
         /\ Len(PageTxs) = (IF Len(txs) + PerPage < indexed THEN Len(txs) + PerPage ELSE indexed) - Len(txs)
         /\ \A i \in 1 .. Len(PageTxs) : PageTxs[i] = block[Len(txs) + i]
<1> DEFINE n == Len(txs)
           u == IF n + PerPage < indexed THEN n + PerPage ELSE indexed
<1>1. block \in Seq(Range(block)) /\ PerPage \in Nat \ {0}
  BY SearchAssumption DEF SearchInv
<1>2. n \in Nat /\ n = Offset /\ indexed \in 0 .. Len(block) /\ (page = 1 \/ n < indexed)
  BY DEF SearchInv, AtPage, TypeOK, Offset
<1>3. page = 1 => n = 0
  BY <1>1, <1>2 DEF Offset
<1>4. n <= u /\ u \in Nat /\ u <= Len(block)
  BY <1>1, <1>2, <1>3
<1>5. PageTxs = SubSeq(block, n + 1, u)
  BY <1>2 DEF PageTxs
<1> HIDE DEF n, u
<1>6. SubSeq(block, n + 1, u) \in Seq(Range(block)) /\ Len(SubSeq(block, n + 1, u)) = u - n
      /\ \A i \in 1 .. u - n : SubSeq(block, n + 1, u)[i] = block[n + i]
  <2>1. n \in Nat /\ Len(block) \in Nat
    BY <1>1, <1>2
  <2> QED BY <1>1, <1>4, <2>1
<1>7. QED BY <1>5, <1>6 DEF n, u

\* What the page converts to is appended: the end of the page is the new length.
LEMMA PageAppended ==
  ASSUME SearchInv, PageConverts
  PROVE  /\ txs' \in Seq(Range(txs'))
         /\ Len(txs') = IF Len(txs) + PerPage < indexed THEN Len(txs) + PerPage ELSE indexed
         /\ Len(txs') <= Len(block)
         /\ \A i \in 1 .. Len(txs') :
              status(block[i]) = "ok" /\ txs'[i] = rawToTransaction(block[i])
<1> DEFINE n    == Len(txs)
           P    == PageTxs
           conv == [i \in DOMAIN P |-> rawToTransaction(P[i])]
<1>1. /\ P \in Seq(Range(block))
      /\ Len(P) = (IF n + PerPage < indexed THEN n + PerPage ELSE indexed) - n
      /\ \A i \in 1 .. Len(P) : P[i] = block[n + i]
  BY PageIs DEF PageConverts
<1>2. txs' = txs \o conv /\ \A i \in DOMAIN P : status(P[i]) = "ok"
  BY DEF PageConverts, Range
<1>3. txs \in Seq(Range(txs)) /\ n \in Nat /\ \A i \in 1 .. n : status(block[i]) = "ok" /\ txs[i] = rawToTransaction(block[i])
  <2>1. txs \in Seq(Range(txs)) /\ PagesJoin
    BY DEF SearchInv
  <2>2. DOMAIN txs = 1 .. n /\ n \in Nat
    BY <2>1
  <2> QED BY <2>1, <2>2 DEF PagesJoin
<1>4. indexed \in 0 .. Len(block) /\ PerPage \in Nat \ {0} /\ Len(block) \in Nat /\ n <= Len(block)
  <2>1. block \in Seq(Range(block))
    BY SearchAssumption DEF SearchInv
  <2> QED BY <2>1, SearchAssumption DEF SearchInv, TypeOK, PagesJoin
<1> HIDE DEF P
<1>5. DOMAIN P = 1 .. Len(P) /\ Len(P) \in Nat
  BY <1>1
<1>6. conv \in Seq(Range(conv)) /\ Len(conv) = Len(P) /\ \A i \in 1 .. Len(P) : conv[i] = rawToTransaction(P[i])
  <2>1. conv = [i \in 1 .. Len(P) |-> rawToTransaction(P[i])]
    BY <1>5
  <2>2. DOMAIN conv = 1 .. Len(P) /\ \A i \in 1 .. Len(P) : conv[i] = rawToTransaction(P[i]) /\ conv[i] \in Range(conv)
    BY <2>1 DEF Range
  <2> HIDE DEF conv
  <2>3. conv \in Seq(Range(conv))
    <3>1. conv \in [1 .. Len(P) -> Range(conv)]
      BY <2>1, <2>2 DEF conv
    <3> QED BY <3>1, <1>5
  <2>4. Len(conv) = Len(P)
    BY <2>2, <2>3, <1>5
  <2> QED BY <2>2, <2>3, <2>4
<1> HIDE DEF conv
<1> DEFINE T == Range(txs) \cup Range(conv)
<1>7. txs \in Seq(T) /\ conv \in Seq(T)
  <2>1. \A i \in 1 .. n : txs[i] \in Range(txs)
    BY <1>3
  <2> QED BY <1>3, <1>6
<1> HIDE DEF T
<1>8. /\ txs' \in Seq(T) /\ Len(txs') = n + Len(P)
      /\ \A i \in 1 .. n + Len(P) : txs'[i] = IF i <= n THEN txs[i] ELSE conv[i - n]
  <2>1. \A t \in Seq(T) : \A u \in Seq(T) :
          /\ t \o u \in Seq(T) /\ Len(t \o u) = Len(t) + Len(u)
          /\ \A i \in 1 .. Len(t) + Len(u) : (t \o u)[i] = IF i <= Len(t) THEN t[i] ELSE u[i - Len(t)]
    OBVIOUS
  <2> QED BY ZenonT(60), <1>2, <1>6, <1>7, <2>1
<1> QED
  <2>1. txs' \in Seq(Range(txs'))
    <3>1. DOMAIN txs' = 1 .. Len(txs') /\ Len(txs') \in Nat
      BY <1>8
    <3>2. \A i \in 1 .. Len(txs') : txs'[i] \in Range(txs')
      BY <3>1 DEF Range
    <3> QED BY <1>8, <3>1, <3>2
  <2>2. Len(txs') = IF n + PerPage < indexed THEN n + PerPage ELSE indexed
    BY <1>1, <1>3, <1>4, <1>8
  <2>3. Len(txs') <= Len(block)
    BY <2>2, <1>3, <1>4
  <2>4. ASSUME NEW i \in 1 .. Len(txs')
        PROVE  status(block[i]) = "ok" /\ txs'[i] = rawToTransaction(block[i])
    <3>1. CASE i <= n
      BY <3>1, <1>3, <1>8, <1>5
    <3>2. CASE i > n
      <4>1. i - n \in 1 .. Len(P) /\ n + (i - n) = i
        BY <3>2, <1>3, <1>5, <1>8
      <4>2. P[i - n] = block[i]
        BY <4>1, <1>1
      <4>3. status(P[i - n]) = "ok" /\ conv[i - n] = rawToTransaction(P[i - n])
        BY <4>1, <1>2, <1>5, <1>6
      <4>4. txs'[i] = conv[i - n]
        BY <3>2, <1>3, <1>5, <1>8
      <4> QED BY <4>2, <4>3, <4>4
    <3> QED BY <3>1, <3>2, <1>3, <1>5, <1>8
  <2> QED BY <2>1, <2>2, <2>3, <2>4

-----------------------------------------------------------------------------
(* Invariance *)

\* At the start there is nothing to join.
LEMMA SearchInit == Init => SearchInv
<1> SUFFICES ASSUME Init PROVE SearchInv
  OBVIOUS
<1>1. block \in Blocks /\ block \in Seq(Range(block))
  BY SearchAssumption DEF Init
<1>2. Len(block) \in Nat
  BY <1>1
<1>3. txs = << >> /\ Len(txs) = 0 /\ DOMAIN txs = {}
  BY DEF Init
<1>4. txs \in Seq(Range(txs))
  BY <1>3
<1>5. TypeOK
  BY <1>2 DEF Init, TypeOK
<1>6. AtPage
  BY <1>3, SearchAssumption DEF Init, AtPage
<1>7. PagesJoin
  BY <1>2, <1>3 DEF PagesJoin
<1> QED BY <1>1, <1>4, <1>5, <1>6, <1>7 DEF SearchInv

\* A search that fails hands nothing back.
LEMMA FailedInv ==
  ASSUME SearchInv, txs' = << >>, pc' \in {"err", "panic"}, UNCHANGED <<block, indexed, page>>
  PROVE  SearchInv'
<1>1. block \in Seq(Range(block)) /\ Len(block) \in Nat
  <2>1. block \in Seq(Range(block))
    BY SearchAssumption DEF SearchInv
  <2> QED BY <2>1
<1>2. Len(txs') = 0 /\ DOMAIN txs' = {} /\ txs' \in Seq(Range(txs'))
  OBVIOUS
<1>3. TypeOK'
  BY DEF SearchInv, TypeOK
<1>4. AtPage'
  BY DEF AtPage
<1>5. PagesJoin'
  BY <1>1, <1>2 DEF PagesJoin
<1> QED BY <1>2, <1>3, <1>4, <1>5 DEF SearchInv

\* The node may index on while a page is converted: the search stays at its page.
LEMMA NodeIndexesInv ==
  ASSUME SearchInv, NodeIndexes
  PROVE  SearchInv'
<1>1. block \in Seq(Range(block)) /\ txs \in Seq(Range(txs))
  BY SearchAssumption DEF SearchInv
<1>2. Len(block) \in Nat /\ Len(txs) \in Nat
  BY <1>1
<1>3. TypeOK'
  BY <1>2 DEF SearchInv, TypeOK, NodeIndexes
<1>4. AtPage'
  BY <1>2 DEF SearchInv, TypeOK, AtPage, NodeIndexes
<1>5. PagesJoin'
  BY DEF SearchInv, PagesJoin, NodeIndexes
<1> QED BY <1>1, <1>3, <1>4, <1>5 DEF SearchInv, NodeIndexes

\* A transaction that does not convert ends the search in an error or a panic.
LEMMA PageFailsInv ==
  ASSUME SearchInv, PageFails
  PROVE  SearchInv'
<1> DEFINE I   == {i \in 1 .. Len(PageTxs) : status(PageTxs[i]) # "ok"}
           bad == SelectInSeq(PageTxs, LAMBDA tx : status(tx) # "ok")
<1>1. bad = IF I # {} THEN Min(I) ELSE 0
  BY DEF SelectInSeq
<1>2. bad # 0 /\ pc' = status(PageTxs[bad])
  BY DEF PageFails
<1>3. I # {} => Min(I) \in I
  <2>1. I \in SUBSET Nat
    OBVIOUS
  <2> HIDE DEF I
  <2> QED BY <2>1, MinIsLeast
<1> HIDE DEF bad
<1>4. bad \in I
  <2> HIDE DEF I
  <2> QED BY <1>1, <1>2, <1>3
<1>5. status(PageTxs[bad]) # "ok"
  BY <1>4
<1>6. pc' \in {"err", "panic"}
  BY <1>2, <1>5, StatusRange
<1> QED BY <1>6, FailedInv DEF PageFails

\* A page that converts ends at the next offset, or at all that is indexed.
LEMMA PageConvertsInv ==
  ASSUME SearchInv, PageConverts
  PROVE  SearchInv' /\ (pc' = "done" => Len(txs') = indexed)
<1> DEFINE n == Len(txs)
           m == Len(txs')
<1>1. /\ txs' \in Seq(Range(txs'))
      /\ m = IF n + PerPage < indexed THEN n + PerPage ELSE indexed
      /\ m <= Len(block)
      /\ \A i \in 1 .. m : status(block[i]) = "ok" /\ txs'[i] = rawToTransaction(block[i])
  BY PageAppended
<1>2. block \in Seq(Range(block)) /\ txs \in Seq(Range(txs))
  BY SearchAssumption DEF SearchInv
<1>3. Len(block) \in Nat /\ n \in Nat /\ m \in Nat /\ DOMAIN txs' = 1 .. m
  BY <1>1, <1>2
<1>4. /\ indexed \in 0 .. Len(block) /\ page \in 1 .. Len(block) + 1
      /\ pc = "request" /\ n = PerPage * page - PerPage
      /\ UNCHANGED <<block, indexed>>
      /\ \/ indexed <= m /\ pc' = "done" /\ page' = page
         \/ ~(indexed <= m) /\ pc' = pc /\ page' = page + 1
  BY DEF SearchInv, TypeOK, AtPage, PageConverts, Total
<1>5. PagesJoin'
  BY <1>1, <1>3, <1>4 DEF PagesJoin
<1>6. PerPage \in Nat \ {0} /\ page \in Nat \ {0}
  BY <1>3, <1>4, SearchAssumption
<1> HIDE DEF n, m
<1>7. CASE indexed <= m
  <2>1. pc' = "done" /\ page' = page /\ m = indexed
    BY <1>1, <1>3, <1>4, <1>6, <1>7
  <2>2. TypeOK' /\ AtPage'
    BY <1>4, <2>1 DEF TypeOK, AtPage
  <2> QED BY <1>1, <1>4, <1>5, <2>1, <2>2 DEF SearchInv, m
<1>8. CASE ~(indexed <= m)
  <2>1. pc' = "request" /\ page' = page + 1 /\ m = n + PerPage /\ m < indexed
    BY <1>1, <1>3, <1>4, <1>6, <1>8
  <2>2. m = PerPage * (page + 1) - PerPage
    BY <2>1, <1>4, <1>6, OffsetStep
  <2>3. AtPage'
    BY <2>1, <2>2, <1>4 DEF AtPage, m
  <2>4. page + 1 \in Nat \ {0}
    BY <1>6
  <2>5. (page + 1) - 1 <= PerPage * (page + 1) - PerPage
    BY <2>4, PageBound
  <2>6. page <= m
    BY <2>2, <2>5, <1>6
  <2>7. page + 1 \in 1 .. Len(block) + 1
    BY <2>1, <2>6, <1>3, <1>4, <1>6
  <2>8. TypeOK'
    BY <2>1, <2>7, <1>4 DEF TypeOK
  <2> QED BY <1>1, <1>4, <1>5, <2>1, <2>3, <2>8 DEF SearchInv
<1> QED BY <1>7, <1>8

\* The invariant of the search is inductive.
LEMMA SearchStep == SearchInv /\ [Next]_vars => SearchInv'
<1> SUFFICES ASSUME SearchInv, [Next]_vars PROVE SearchInv'
  OBVIOUS
<1>1. CASE NodeIndexes
  BY <1>1, NodeIndexesInv
<1>2. CASE CallFails
  BY <1>2, FailedInv DEF CallFails
<1>3. CASE PageFails
  BY <1>3, PageFailsInv
<1>4. CASE PageConverts
  BY <1>4, PageConvertsInv
<1>5. CASE UNCHANGED vars
  BY <1>5 DEF SearchInv, TypeOK, AtPage, PagesJoin, vars
<1> QED BY <1>1, <1>2, <1>3, <1>4, <1>5 DEF Next, Search

-----------------------------------------------------------------------------
(* Theorems *)

\* The invariant of the search holds in every state.
THEOREM SearchInvariance == Spec => []SearchInv
<1>1. Init => SearchInv
  BY SearchInit
<1>2. SearchInv /\ [Next]_vars => SearchInv'
  BY SearchStep
<1> QED BY <1>1, <1>2, PTL DEF Spec

\* Type correctness of SearchTx: for every page size the loop asks for no page
\* beyond the transactions of the block.
THEOREM SearchTypeCorrect == Spec => []TypeOK
<1>1. SearchInv => TypeOK
  BY DEF SearchInv
<1> QED BY <1>1, SearchInvariance, PTL

\* The pages SearchTx joins are the transactions of the block from the first on,
\* each once and in order, for every page size, every block and every moment at
\* which the node indexes another transaction.
THEOREM JoinedPages == Spec => []PagesJoin
<1>1. SearchInv => PagesJoin
  BY DEF SearchInv
<1> QED BY <1>1, SearchInvariance, PTL

\* SearchTx stops without an error only with all that the node has indexed then.
THEOREM NoneLeftBehind == Spec => NothingLeftBehind
<1>1. SearchInv /\ [Next]_vars => [pc = "request" /\ pc' = "done" => Len(txs') = indexed]_vars
  <2> SUFFICES ASSUME SearchInv, Next, pc = "request", pc' = "done"
               PROVE  Len(txs') = indexed
    OBVIOUS
  <2>1. CASE NodeIndexes
    BY <2>1 DEF NodeIndexes
  <2>2. CASE CallFails
    BY <2>2 DEF CallFails
  <2>3. CASE PageFails
    <3>1. PICK b : pc' = status(b)
      BY <2>3 DEF PageFails
    <3> QED BY <3>1, StatusRange
  <2>4. CASE PageConverts
    BY <2>4, PageConvertsInv
  <2> QED BY <2>1, <2>2, <2>3, <2>4 DEF Next, Search
<1> QED BY <1>1, SearchInvariance, PTL DEF Spec, NothingLeftBehind

-----------------------------------------------------------------------------
(* Events *)

\* The position at which findLog finds the first log with an index, 0 if none has it.
OwnAt(logs, index) == SelectInSeq(logs, LAMBDA lg : lg.msgIndex = index)

\* OwnAt is the position of a log with that index, if there is one.
LEMMA FoundIsOwn ==
  ASSUME NEW logs, logs \in Seq(Range(logs)), NEW index
  PROVE  IF \E lg \in Range(logs) : lg.msgIndex = index
         THEN OwnAt(logs, index) \in 1 .. Len(logs) /\ logs[OwnAt(logs, index)].msgIndex = index
         ELSE OwnAt(logs, index) = 0
<1> DEFINE I == { i \in 1 .. Len(logs) : logs[i].msgIndex = index }
           own == OwnAt(logs, index)
<1>1. own = IF I # {} THEN Min(I) ELSE 0
  BY DEF SelectInSeq, OwnAt
<1>2. I \in SUBSET Nat /\ DOMAIN logs = 1 .. Len(logs)
  OBVIOUS
<1>3. (\E lg \in Range(logs) : lg.msgIndex = index) <=> I # {}
  BY <1>2 DEF Range
<1>4. I # {} => Min(I) \in I
  <2> HIDE DEF I
  <2> QED BY <1>2, MinIsLeast
<1> HIDE DEF own
<1>5. QED
  BY <1>1, <1>3, <1>4 DEF own

\* findLog never takes the log of another message.
LEMMA FindsOwnLog ==
  ASSUME NEW tx, tx.logs \in Seq(Range(tx.logs)), NEW k \in Nat \ {0}
  PROVE  findLog(tx.logs, k - 1) \in OwnLogs(tx, k)
<1> DEFINE logs == tx.logs
           own  == { lg \in Range(logs) : lg.msgIndex = k - 1 }
           at   == OwnAt(logs, k - 1)
<1>1. /\ logs \in Seq(Range(logs)) /\ Len(logs) \in Nat /\ DOMAIN logs = 1 .. Len(logs)
      /\ \A i \in 1 .. Len(logs) : logs[i] \in Range(logs)
  BY DEF Range
<1>2. IF \E lg \in Range(logs) : lg.msgIndex = k - 1
      THEN at \in 1 .. Len(logs) /\ logs[at].msgIndex = k - 1
      ELSE at = 0
  BY <1>1, FoundIsOwn
<1>3. findLog(logs, k - 1) = IF Len(logs) <= k - 1 THEN NoLog
                             ELSE IF logs[(k - 1) + 1].msgIndex = k - 1 THEN logs[(k - 1) + 1]
                             ELSE IF at # 0 THEN logs[at]
                             ELSE NoLog
  BY DEF findLog, OwnAt
<1>4. OwnLogs(tx, k) = IF Len(logs) < k \/ own = {} THEN {NoLog} ELSE own
  BY DEF OwnLogs
<1> SUFFICES findLog(logs, k - 1) \in OwnLogs(tx, k)
  OBVIOUS
<1> HIDE DEF at, logs
<1>5. (k - 1) + 1 = k /\ (Len(logs) <= k - 1 <=> Len(logs) < k)
  BY <1>1
<1>6. CASE Len(logs) < k
  BY <1>3, <1>4, <1>5, <1>6
<1>7. CASE ~(Len(logs) < k) /\ logs[k].msgIndex = k - 1
  <2>1. k \in 1 .. Len(logs)
    BY <1>1, <1>7
  <2>2. logs[k] \in own
    BY <1>1, <1>7, <2>1
  <2> QED BY <1>3, <1>4, <1>5, <1>7, <2>2
<1>8. CASE ~(Len(logs) < k) /\ logs[k].msgIndex # k - 1
  <2>1. CASE own = {}
    <3>1. at = 0
      BY <1>2, <2>1
    <3> QED BY <1>3, <1>4, <1>5, <1>8, <2>1, <3>1
  <2>2. CASE own # {}
    <3>1. at \in 1 .. Len(logs) /\ logs[at].msgIndex = k - 1
      BY <1>2, <2>2
    <3>2. at # 0 /\ logs[at] \in own
      BY <1>1, <3>1
    <3> QED BY <1>3, <1>4, <1>5, <1>8, <2>2, <3>2
  <2> QED BY <2>1, <2>2
<1> QED BY <1>6, <1>7, <1>8

\* A transaction that converts has a mapper for each of its messages: the first
\* message that fails decides, and none has failed.
LEMMA AllMapped ==
  ASSUME NEW tx, tx.messages \in Seq(Range(tx.messages)), status(tx) = "ok",
         NEW k \in DOMAIN tx.messages
  PROVE  MapperOf(tx.messages[k].path) # {}
<1> DEFINE outs == [i \in DOMAIN tx.messages |-> outcome(tx, i)]
           I    == { i \in 1 .. Len(outs) : outs[i] # "ok" }
           f    == SelectInSeq(outs, LAMBDA o : o # "ok")
<1>1. DOMAIN tx.messages = 1 .. Len(tx.messages) /\ Len(tx.messages) \in Nat
  OBVIOUS
<1>2. Len(outs) = Len(tx.messages) /\ \A i \in 1 .. Len(tx.messages) : outs[i] = outcome(tx, i)
  BY <1>1
<1>3. f = IF I # {} THEN Min(I) ELSE 0
  BY DEF SelectInSeq
<1>4. status(tx) = IF f = 0 THEN "ok" ELSE outcome(tx, f)
  BY DEF status
<1> HIDE DEF f, outs
<1>5. I = {}
  <2>1. SUFFICES ASSUME I # {} PROVE FALSE
    OBVIOUS
  <2>2. I \in SUBSET Nat
    BY <1>1, <1>2
  <2>3. Min(I) \in I
    <3> HIDE DEF I
    <3> QED BY <2>1, <2>2, MinIsLeast
  <2>4. f \in 1 .. Len(tx.messages) /\ outs[f] # "ok"
    BY <1>2, <1>3, <2>1, <2>3
  <2>5. f # 0 /\ outcome(tx, f) # "ok"
    BY <1>1, <1>2, <2>4
  <2> QED BY <1>4, <2>5
<1>6. outcome(tx, k) = "ok"
  BY <1>1, <1>2, <1>5
<1> QED BY <1>6 DEF outcome

\* The events of a transaction that converts.
LEMMA EventsRight ==
  ASSUME NEW tx, tx.messages \in Seq(Range(tx.messages)), tx.logs \in Seq(Range(tx.logs)),
         status(tx) = "ok"
  PROVE  EventsOf(tx, rawToTransaction(tx))
<1> DEFINE evs == [i \in DOMAIN tx.messages |-> event(tx, i)]
           r   == rawToTransaction(tx)
<1>1. /\ DOMAIN tx.messages = 1 .. Len(tx.messages) /\ Len(tx.messages) \in Nat
  OBVIOUS
<1>2. /\ evs \in Seq(Range(evs)) /\ Len(evs) = Len(tx.messages)
      /\ \A k \in 1 .. Len(tx.messages) : evs[k] = event(tx, k)
  BY <1>1 DEF Range
<1>3. r = evs \o (IF tx.code > 0 THEN <<errorEvent>> ELSE << >>)
  BY DEF rawToTransaction
<1> HIDE DEF evs, r
<1>4. /\ Len(r) = Len(tx.messages) + (IF tx.code > 0 THEN 1 ELSE 0)
      /\ \A k \in 1 .. Len(tx.messages) : r[k] = event(tx, k)
      /\ tx.code > 0 => r[Len(r)] = errorEvent
  <2>1. CASE tx.code > 0
    <3>1. r = evs \o <<errorEvent>>
      BY <1>3, <2>1
    <3>2. Len(r) = Len(evs) + 1 /\ r[Len(evs) + 1] = errorEvent /\ \A k \in 1 .. Len(evs) : r[k] = evs[k]
      BY <1>2, <3>1
    <3>3. Len(r) = Len(tx.messages) + 1 /\ r[Len(r)] = errorEvent
      BY <1>2, <3>2
    <3>4. \A k \in 1 .. Len(tx.messages) : r[k] = event(tx, k)
      BY <1>2, <3>2
    <3> QED BY <2>1, <3>3, <3>4
  <2>2. CASE ~(tx.code > 0)
    <3>1. r = evs \o << >>
      BY <1>3, <2>2
    <3>2. r = evs
      BY <1>2, <3>1
    <3>3. Len(r) = Len(tx.messages) + 0
      BY <1>1, <1>2, <3>2
    <3> QED BY <1>2, <2>2, <3>2, <3>3
  <2> QED BY <2>1, <2>2
<1>5. ASSUME NEW k \in DOMAIN tx.messages
      PROVE  /\ event(tx, k).id = k - 1
             /\ \E sub \in MapperOf(tx.messages[k].path) :
                  /\ event(tx, k).kind = sub.type /\ event(tx, k).module = sub.module
                  /\ event(tx, k).key = sub.transfers
                  /\ sub.transfers # "none" =>
                       \E lg \in OwnLogs(tx, k) :
                         event(tx, k).transfers = produceTransfers(lg, sub.skip)
  <2> DEFINE M   == MapperOf(tx.messages[k].path)
             sub == CHOOSE s \in M : TRUE
             tr  == IF sub.transfers = "none" THEN << >>
                    ELSE produceTransfers(findLog(tx.logs, k - 1), sub.skip)
  <2>1. M # {}
    BY AllMapped
  <2>2. sub \in M
    <3> HIDE DEF M
    <3> QED BY <2>1
  <2>3. event(tx, k) = [id |-> k - 1, kind |-> sub.type, module |-> sub.module,
                        key |-> sub.transfers, transfers |-> tr]
    BY DEF event
  <2>4. findLog(tx.logs, k - 1) \in OwnLogs(tx, k)
    BY <1>1, FindsOwnLog
  <2>5. sub.transfers # "none" => tr = produceTransfers(findLog(tx.logs, k - 1), sub.skip)
    OBVIOUS
  <2> HIDE DEF M, sub, tr
  <2>6. /\ event(tx, k).id = k - 1 /\ event(tx, k).kind = sub.type
        /\ event(tx, k).module = sub.module /\ event(tx, k).key = sub.transfers
        /\ event(tx, k).transfers = tr
    BY <2>3
  <2>7. sub.transfers # "none" =>
          \E lg \in OwnLogs(tx, k) : event(tx, k).transfers = produceTransfers(lg, sub.skip)
    BY <2>4, <2>5, <2>6
  <2> QED BY <2>2, <2>6, <2>7 DEF M
<1>6. errorEvent.kind = "error"
  BY DEF errorEvent
<1>7. EventsOf(tx, r)
  BY <1>1, <1>4, <1>5, <1>6 DEF EventsOf
<1> QED BY <1>7 DEF r

\* A converted transaction has one event per message, in their order, made by the
\* mapper of the message and from no other message's log, whatever logs the node
\* gives it and in whatever order.
THEOREM OwnEvents == Spec => []EventsOwn
<1>1. SearchInv => EventsOwn
  <2>1. SUFFICES ASSUME SearchInv PROVE EventsOwn
    OBVIOUS
  <2>2. ASSUME NEW i \in DOMAIN txs
        PROVE  /\ block[i].messages \in Seq(Range(block[i].messages))
               /\ block[i].logs \in Seq(Range(block[i].logs))
               /\ status(block[i]) = "ok" /\ txs[i] = rawToTransaction(block[i])
    <3>1. status(block[i]) = "ok" /\ txs[i] = rawToTransaction(block[i]) /\ Len(txs) <= Len(block)
      BY <2>1 DEF SearchInv, PagesJoin
    <3>2. txs \in Seq(Range(txs)) /\ block \in Blocks /\ block \in Seq(Range(block))
      BY <2>1, SearchAssumption DEF SearchInv
    <3>3. i \in DOMAIN block
      BY <3>1, <3>2
    <3>4. block[i] \in Range(block)
      BY <3>3 DEF Range
    <3> QED BY <3>1, <3>2, <3>4, SearchAssumption
  <2> QED BY <2>2, EventsRight DEF EventsOwn
<1> QED BY <1>1, SearchInvariance, PTL
=============================================================================
