---------------------------- MODULE WorkerProofs ----------------------------
(***************************************************************************)
(* The worker process for any number of streams, runners, tasks and        *)
(* validators: no server outlives main, and every task that is not a range *)
(* is answered by one runner, whole.                                       *)
(***************************************************************************)
EXTENDS Worker, TLAPS

-----------------------------------------------------------------------------
(* The life cycle of main *)

\* What runGRPC and runHTTP put on exit is true, they put it there once, and
\* main remembers in its place which server has ended or has been stopped.
LifeInv ==
  /\ main = "start" => grpc = "none" /\ http = "none" /\ exit = << >> /\ ~cancelled
  /\ \A i \in 1 .. Len(exit) : \/ exit[i] = "grpc" /\ grpc = "ended"
                               \/ exit[i] = "http" /\ http = "ended"
  /\ Len(exit) <= (IF grpc = "ended" THEN 1 ELSE 0) + (IF http = "ended" THEN 1 ELSE 0)
  /\ main = "grpcEnded" => grpc = "ended"
  /\ main = "httpEnded" => http = "ended"
  /\ main = "stopHTTP" => grpcStopped
  /\ main = "shutdown" => httpStopped /\ (grpcStopped \/ grpc = "ended")

\* A value put on exit goes behind the other.
LEMMA ExitFacts ==
  ASSUME NEW S, NEW s \in Seq(S), NEW e \in S
  PROVE  /\ Append(s, e) \in Seq(S)
         /\ Len(s) \in Nat /\ Len(Append(s, e)) = Len(s) + 1
         /\ \A i \in 1 .. Len(s) : Append(s, e)[i] = s[i]
         /\ Append(s, e)[Len(s) + 1] = e
  OBVIOUS

\* The older value is taken from exit, the other moves up.
LEMMA TakeFacts ==
  ASSUME NEW S, NEW s \in Seq(S), s # << >>
  PROVE  /\ Tail(s) \in Seq(S) /\ Len(s) \in Nat /\ Len(s) > 0 /\ Len(Tail(s)) = Len(s) - 1
         /\ Head(s) = s[1]
         /\ \A i \in 1 .. Len(s) - 1 : Tail(s)[i] = s[i + 1]
  OBVIOUS

\* Steps of main other than taking from exit, and the servers that begin to serve.
LEMMA LifeQuietStep ==
  ASSUME Life!TypeOK, LifeInv, Life!BothStopped,
         \/ Life!StartFails \/ Life!StartServers \/ Life!TakeSignal \/ Life!StopGRPC
         \/ Life!ShutdownHTTP \/ Life!ShutdownReturns
         \/ Life!ServeGRPC \/ Life!ServeHTTP \/ Life!RequestsDone
  PROVE  Life!TypeOK' /\ LifeInv' /\ Life!BothStopped'
<1>1. exit' = exit
  BY DEF Life!StartFails, Life!StartServers, Life!TakeSignal, Life!StopGRPC,
         Life!ShutdownHTTP, Life!ShutdownReturns, Life!ServeGRPC, Life!ServeHTTP,
         Life!RequestsDone
<1>2. CASE Life!StartFails \/ Life!StartServers
  BY <1>1, <1>2 DEF Life!StartFails, Life!StartServers, Life!servers, LifeInv,
                    Life!TypeOK, Life!BothStopped
<1>3. CASE Life!TakeSignal
  BY <1>1, <1>3 DEF Life!TakeSignal, Life!servers, LifeInv, Life!TypeOK, Life!BothStopped
<1>4. CASE Life!StopGRPC
  BY <1>1, <1>4 DEF Life!StopGRPC, Life!servers, LifeInv, Life!TypeOK, Life!BothStopped
<1>5. CASE Life!ShutdownHTTP
  <2>1. httpBusy' \in BOOLEAN
    BY <1>5, Zenon DEF Life!ShutdownHTTP
  <2>2. /\ main \in {"stopHTTP", "grpcEnded"} /\ main' = "shutdown" /\ httpStopped' = TRUE
        /\ UNCHANGED <<cancelled, grpc, http, grpcStopped>>
    BY <1>5 DEF Life!ShutdownHTTP
  <2>3. QED
    BY <1>1, <2>1, <2>2 DEF LifeInv, Life!TypeOK, Life!BothStopped
<1>6. CASE Life!ShutdownReturns
  BY <1>1, <1>6 DEF Life!ShutdownReturns, Life!servers, LifeInv, Life!TypeOK, Life!BothStopped
<1>7. CASE Life!ServeGRPC
  BY <1>1, <1>7 DEF Life!ServeGRPC, LifeInv, Life!TypeOK, Life!BothStopped
<1>8. CASE Life!ServeHTTP
  BY <1>1, <1>8 DEF Life!ServeHTTP, LifeInv, Life!TypeOK, Life!BothStopped
<1>9. CASE Life!RequestsDone
  BY ZenonT(60), <1>1, <1>9 DEF Life!RequestsDone, LifeInv, Life!TypeOK, Life!BothStopped
<1>10. QED
  BY <1>2, <1>3, <1>4, <1>5, <1>6, <1>7, <1>8, <1>9

\* main takes from exit: the server named there has ended.
LEMMA TakeExitStep ==
  ASSUME Life!TypeOK, LifeInv, Life!BothStopped, Life!TakeExit
  PROVE  Life!TypeOK' /\ LifeInv' /\ Life!BothStopped'
<1>1. exit \in Seq({"grpc", "http"}) /\ exit # << >> /\ exit' = Tail(exit)
  BY DEF Life!TypeOK, Life!TakeExit
<1>2. /\ exit' \in Seq({"grpc", "http"}) /\ Len(exit) \in Nat /\ Len(exit) > 0
      /\ Len(exit') = Len(exit) - 1
      /\ Head(exit) = exit[1]
      /\ \A i \in 1 .. Len(exit) - 1 : exit'[i] = exit[i + 1]
  BY <1>1, TakeFacts
<1>3. /\ main = "select" /\ cancelled' = TRUE
      /\ UNCHANGED <<grpc, http, httpBusy, grpcStopped, httpStopped>>
      /\ \/ main' = "grpcEnded" /\ exit[1] = "grpc"
         \/ main' = "httpEnded" /\ exit[1] # "grpc"
  BY <1>2 DEF Life!TakeExit, Life!servers
<1>4. \/ main' = "grpcEnded" /\ grpc = "ended"
      \/ main' = "httpEnded" /\ http = "ended"
  BY <1>2, <1>3 DEF LifeInv
<1>5. \A i \in 1 .. Len(exit') : \/ exit'[i] = "grpc" /\ grpc' = "ended"
                                 \/ exit'[i] = "http" /\ http' = "ended"
  <2>1. \A i \in 1 .. Len(exit') : i + 1 \in 1 .. Len(exit) /\ exit'[i] = exit[i + 1]
    BY <1>2
  <2>2. QED
    BY <1>3, <2>1 DEF LifeInv
<1>6. Len(exit') <= Len(exit) /\ Len(exit') <= 2
  BY <1>2 DEF Life!TypeOK
<1>7. Life!TypeOK'
  BY <1>2, <1>3, <1>6 DEF Life!TypeOK
<1>8. LifeInv'
  BY <1>2, <1>3, <1>4, <1>5, <1>6 DEF LifeInv
<1>9. QED
  BY <1>3, <1>7, <1>8 DEF Life!BothStopped

\* A server ends and says so on exit, once.
LEMMA EndServerStep ==
  ASSUME Life!TypeOK, LifeInv, Life!BothStopped, Life!EndGRPC \/ Life!EndHTTP
  PROVE  Life!TypeOK' /\ LifeInv' /\ Life!BothStopped'
<1>1. PICK k \in {"grpc", "http"} :
        /\ exit' = Append(exit, k)
        /\ UNCHANGED <<main, cancelled, httpBusy, grpcStopped, httpStopped>>
        /\ \/ k = "grpc" /\ grpc \in {"listen", "serving"} /\ grpc' = "ended" /\ http' = http
           \/ k = "http" /\ http \in {"listen", "serving"} /\ http' = "ended" /\ grpc' = grpc
  BY DEF Life!EndGRPC, Life!EndHTTP, Life!Exit
<1>2. /\ exit' \in Seq({"grpc", "http"}) /\ Len(exit) \in Nat /\ Len(exit') = Len(exit) + 1
      /\ \A i \in 1 .. Len(exit) : exit'[i] = exit[i]
      /\ exit'[Len(exit) + 1] = k
  <2>1. exit \in Seq({"grpc", "http"})
    BY DEF Life!TypeOK
  <2>2. QED
    BY <1>1, <2>1, ExitFacts
<1>3. \A i \in 1 .. Len(exit') : \/ exit'[i] = "grpc" /\ grpc' = "ended"
                                 \/ exit'[i] = "http" /\ http' = "ended"
  <2>1. \A i \in 1 .. Len(exit') : i \in 1 .. Len(exit) \/ i = Len(exit) + 1
    BY <1>2
  <2>2. QED
    BY <1>1, <1>2, <2>1 DEF LifeInv
<1>4. /\ Len(exit') <= (IF grpc' = "ended" THEN 1 ELSE 0) + (IF http' = "ended" THEN 1 ELSE 0)
      /\ Len(exit') <= 2
  BY <1>1, <1>2 DEF LifeInv
<1>5. main # "start"
  BY <1>1 DEF LifeInv
<1>6. Life!TypeOK'
  BY <1>1, <1>2, <1>4 DEF Life!TypeOK
<1>7. LifeInv'
  BY <1>1, <1>2, <1>3, <1>4, <1>5 DEF LifeInv
<1>8. QED
  BY <1>1, <1>6, <1>7 DEF Life!BothStopped

-----------------------------------------------------------------------------
(* The streams: the inductive invariant *)

Idle == {"none", "select", "exited"}

\* Two runners never work on the same task of a stream.
OneRunner ==
  \A s \in Conns : \A r, q \in Runners : task[s][r] # 0 /\ task[s][r] = task[s][q] => r = q

\* A task that no runner has taken has no answer.
Untouched ==
  \A s \in Conns : \A n \in 1 .. Len(Requests[s]) : n > taken[s] => answers[s][n] = << >>

\* What the place of a runner says about the task n it runs: its type, the node
\* calls made so far and the answers sent so far.
Running(s, n, place, made) ==
  /\ place \in {"noHandler", "decode", "call", "send"} => answers[s][n] = << >>
  /\ place = "noHandler" => Handler(Requests[s][n]) = "noHandler" /\ made = 0
  /\ place \in {"range", "stuck"} => Handler(Requests[s][n]) = "range" /\ made = 0
  /\ place \in {"decode", "call", "send", "end"} => Handler(Requests[s][n]) = "decode"
  /\ place = "decode" => made = 0
  /\ place = "call" => made < NodeCalls(Requests[s][n])
  /\ place = "send" => made = NodeCalls(Requests[s][n])
  /\ place = "end" => \/ /\ Len(answers[s][n]) = 1 /\ answers[s][n][1].kind = "data"
                         /\ answers[s][n][1].of = NodeCalls(Requests[s][n])
                      \/ answers[s][n] = << >> /\ s \in ctxDone

RunnerOK(s, r) ==
  /\ s \notin opened => rpc[s][r] = "none"
  /\ rpc[s][r] \in Idle => task[s][r] = 0 /\ calls[s][r] = 0
  /\ rpc[s][r] \notin Idle => /\ task[s][r] \in 1 .. taken[s]
                              /\ Running(s, task[s][r], rpc[s][r], calls[s][r])

RunnersOK == \A s \in Conns, r \in Runners : RunnerOK(s, r)

\* AnswersWhole for one task
Whole(s, n) ==
  Handler(Requests[s][n]) # "range" =>
    /\ Len(answers[s][n]) <= 2
    /\ \A i \in 1 .. Len(answers[s][n]) : Final(answers[s][n][i]) => i = Len(answers[s][n])
    /\ \A i \in 1 .. Len(answers[s][n]) :
         answers[s][n][i].kind = "data" => answers[s][n][i].of = NodeCalls(Requests[s][n])
    /\ (answers[s][n] # << >> /\ answers[s][n][1].kind = "END"
          /\ Handler(Requests[s][n]) = "decode") => s \in ctxDone

StreamsInv == TypeOK /\ OneRunner /\ Untouched /\ RunnersOK /\ AnswersWhole /\ NoTaskLost

-----------------------------------------------------------------------------
(* Lemmas about the operators of Streams *)

\* An update of the entry of one runner leaves the entries of the others alone.
LEMMA UpdateOne ==
  ASSUME NEW S, NEW T, NEW V, NEW f \in [S -> [T -> V]], NEW s \in S, NEW t \in T, NEW v \in V
  PROVE  /\ [f EXCEPT ![s][t] = v] \in [S -> [T -> V]]
         /\ [f EXCEPT ![s][t] = v][s][t] = v
         /\ \A a \in S, b \in T : a # s \/ b # t => [f EXCEPT ![s][t] = v][a][b] = f[a][b]
  OBVIOUS

\* The switch of Run: where a runner goes with a task it has taken.
LEMMA HandlerPlaces ==
  ASSUME NEW type
  PROVE  /\ Handler(type) \in {"range", "decode", "noHandler"}
         /\ Handler(type) = "decode" => NodeCalls(type) \in Nat /\ NodeCalls(type) > 0
<1>1. CASE type \in {"getTransactions", "latestData"}
  BY <1>1 DEF Handler
<1>2. CASE type \in {"getReward", "accountBalance", "accountDelegations"}
  BY <1>2, StreamsAssumption DEF Handler, NodeCalls, GetRewardCalls, GetAccountBalanceCalls,
                                 GetAccountDelegationsCalls
<1>3. CASE type \notin {"getTransactions", "latestData", "getReward", "accountBalance",
                        "accountDelegations"}
  BY <1>3 DEF Handler
<1>4. QED
  BY <1>1, <1>2, <1>3

\* AnswersWhole is Whole of every task.
LEMMA WholeAll ==
  AnswersWhole <=> \A s \in Conns : \A n \in 1 .. Len(Requests[s]) : Whole(s, n)
  BY SMTT(30) DEF AnswersWhole, Whole

\* The response e is added behind those of task n of stream s, and nowhere else.
AddsResponse(s, n, e) ==
  /\ DOMAIN answers' = Conns
  /\ \A t \in Conns : answers'[t] \in [1 .. Len(Requests[t]) -> Seq(TaskResponses)]
  /\ answers'[s][n] = Append(answers[s][n], e)
  /\ answers[s][n] \in Seq(TaskResponses)
  /\ \A t \in Conns : \A m \in 1 .. Len(Requests[t]) :
       t # s \/ m # n => answers'[t][m] = answers[t][m]

\* sendResp and the handlers add one response behind those of the same task.
LEMMA SendFacts ==
  ASSUME TypeOK, NEW s \in Conns, NEW r \in Runners, NEW n \in 1 .. Len(Requests[s]),
         n = task[s][r], NEW kind \in {"data", "error", "END"}, NEW of \in Nat,
         Send(s, r, kind, of)
  PROVE  AddsResponse(s, n, [kind |-> kind, of |-> of])
<1> DEFINE e == [kind |-> kind, of |-> of]
           b == Append(answers[s][n], e)
<1>1. e \in TaskResponses
  BY DEF TaskResponses
<1>2. /\ DOMAIN answers = Conns
      /\ \A t \in Conns : answers[t] \in [1 .. Len(Requests[t]) -> Seq(TaskResponses)]
  BY DEF TypeOK
<1>3. answers[s][n] \in Seq(TaskResponses)
  BY <1>2
<1>4. b \in Seq(TaskResponses)
  BY <1>1, <1>3, ExitFacts
<1>5. answers' = [answers EXCEPT ![s][n] = b]
  BY DEF Send
<1> HIDE DEF b
<1>6. DOMAIN answers' = Conns /\ answers'[s] = [answers[s] EXCEPT ![n] = b]
      /\ \A t \in Conns : t # s => answers'[t] = answers[t]
  BY <1>2, <1>5
<1>7. answers'[s] \in [1 .. Len(Requests[s]) -> Seq(TaskResponses)]
  BY <1>2, <1>4, <1>6
<1>8. answers'[s][n] = b /\ \A m \in 1 .. Len(Requests[s]) : m # n => answers'[s][m] = answers[s][m]
  BY <1>2, <1>6
<1>9. QED
  BY <1>2, <1>3, <1>6, <1>7, <1>8 DEF b, AddsResponse

-----------------------------------------------------------------------------
(* A step of one runner *)

\* A step of runner r of stream s that works on its task n: nothing of other
\* runners and other tasks changes.
OwnStep(s, r, n) ==
  /\ UNCHANGED <<opened, ctxDone, finished, asked>> /\ streams' \subseteq streams
  /\ rpc' \in [Conns -> [Runners -> Places]]
  /\ task' \in [Conns -> [Runners -> Nat]] /\ calls' \in [Conns -> [Runners -> Nat]]
  /\ \A t \in Conns, q \in Runners : t # s \/ q # r =>
       rpc'[t][q] = rpc[t][q] /\ task'[t][q] = task[t][q] /\ calls'[t][q] = calls[t][q]
  /\ DOMAIN answers' = Conns
  /\ \A t \in Conns : answers'[t] \in [1 .. Len(Requests[t]) -> Seq(TaskResponses)]
  /\ \A t \in Conns : \A m \in 1 .. Len(Requests[t]) :
       t # s \/ m # n => answers'[t][m] = answers[t][m]

\* The other runners do not notice: they run other tasks.
LEMMA OthersKept ==
  ASSUME StreamsInv, NEW s \in Conns, NEW r \in Runners, NEW n, n = task[s][r],
         OwnStep(s, r, n), \A t \in Conns : taken'[t] \in Nat /\ taken[t] <= taken'[t],
         NEW t \in Conns, NEW q \in Runners, t # s \/ q # r
  PROVE  RunnerOK(t, q)'
<1>1. /\ rpc'[t][q] = rpc[t][q] /\ task'[t][q] = task[t][q] /\ calls'[t][q] = calls[t][q]
      /\ UNCHANGED <<opened, ctxDone>>
  BY DEF OwnStep
<1>2. RunnerOK(t, q)
  BY DEF StreamsInv, RunnersOK
<1>3. CASE rpc[t][q] \in Idle
  BY <1>1, <1>2, <1>3 DEF RunnerOK, Idle
<1>4. CASE rpc[t][q] \notin Idle
  <2>1. /\ taken[t] \in Nat /\ taken[t] <= Len(Requests[t]) /\ task[t][q] \in 1 .. taken[t]
        /\ taken'[t] \in Nat /\ taken[t] <= taken'[t] /\ Len(Requests[t]) \in Nat
    <3>1. taken[t] \in Nat /\ asked[t] \in Nat /\ taken[t] <= asked[t] /\ asked[t] <= Len(Requests[t])
      BY DEF StreamsInv, TypeOK
    <3>2. Requests[t] \in Seq(Types)
      BY StreamsAssumption
    <3>3. Len(Requests[t]) \in Nat
      BY <3>2
    <3>4. QED
      BY <1>2, <1>4, <3>1, <3>3 DEF RunnerOK
  <2>2. t # s \/ task[t][q] # n
    BY <2>1 DEF StreamsInv, OneRunner
  <2>3. task[t][q] \in 1 .. Len(Requests[t]) /\ task[t][q] \in 1 .. taken'[t]
    BY <2>1
  <2>4. answers'[t][task[t][q]] = answers[t][task[t][q]]
    BY <2>2, <2>3 DEF OwnStep
  <2>5. Running(t, task[t][q], rpc[t][q], calls[t][q])
    BY <1>2, <1>4 DEF RunnerOK
  <2>6. Running(t, task[t][q], rpc[t][q], calls[t][q])'
    BY <1>1, <2>4, <2>5 DEF Running
  <2>7. QED
    BY <1>1, <1>2, <1>4, <2>3, <2>6 DEF RunnerOK
<1>5. QED
  BY <1>3, <1>4

\* If a runner's own place, task and answers are right after its step, everything is.
LEMMA OwnStepKeeps ==
  ASSUME StreamsInv, NEW s \in Conns, NEW r \in Runners, NEW n, n = task[s][r],
         OwnStep(s, r, n), RunnerOK(s, r)',
         n \in 1 .. Len(Requests[s]) => Whole(s, n)',
         \/ taken' = taken /\ task'[s][r] \in {0, n}
         \/ /\ taken[s] < asked[s] /\ taken' = [taken EXCEPT ![s] = @ + 1]
            /\ task'[s][r] = taken[s] + 1,
         n # 0 => task'[s][r] = n \/ Answered(s, n)',
         rpc'[s][r] \in {"none", "exited"} => ~Online(s)
  PROVE  StreamsInv'
<1>1. /\ opened \subseteq Conns /\ streams \subseteq opened /\ ctxDone \cup finished \subseteq opened
      /\ asked \in [Conns -> Nat] /\ taken \in [Conns -> Nat]
      /\ \A t \in Conns : taken[t] <= asked[t] /\ asked[t] <= Len(Requests[t])
      /\ task \in [Conns -> [Runners -> Nat]]
      /\ \A t \in Conns, q \in Runners : task[t][q] <= taken[t]
  BY DEF StreamsInv, TypeOK
<1>2. /\ taken' \in [Conns -> Nat]
      /\ \A t \in Conns : taken'[t] \in Nat /\ taken[t] <= taken'[t] /\ taken'[t] <= asked[t]
      /\ \A t \in Conns : t # s => taken'[t] = taken[t]
      /\ task'[s][r] <= taken'[s]
  <2>1. CASE taken' = taken /\ task'[s][r] \in {0, n}
    BY <1>1, <2>1
  <2>2. CASE /\ taken[s] < asked[s] /\ taken' = [taken EXCEPT ![s] = @ + 1]
             /\ task'[s][r] = taken[s] + 1
    BY <1>1, <2>2
  <2>3. QED
    BY <2>1, <2>2
<1>3. TypeOK'
  <2>1. /\ opened' = opened /\ ctxDone' = ctxDone /\ finished' = finished /\ asked' = asked
        /\ streams' \subseteq streams
        /\ rpc' \in [Conns -> [Runners -> Places]]
        /\ task' \in [Conns -> [Runners -> Nat]] /\ calls' \in [Conns -> [Runners -> Nat]]
        /\ DOMAIN answers' = Conns
        /\ \A t \in Conns : answers'[t] \in [1 .. Len(Requests[t]) -> Seq(TaskResponses)]
    BY DEF OwnStep
  <2>2. \A t \in Conns, q \in Runners : task'[t][q] <= taken'[t]
    <3>1. ASSUME NEW t \in Conns, NEW q \in Runners, t # s \/ q # r PROVE task'[t][q] <= taken'[t]
      <4>1. task'[t][q] = task[t][q]
        BY <3>1 DEF OwnStep
      <4>2. task[t][q] \in Nat /\ task[t][q] <= taken[t] /\ taken[t] \in Nat
        BY <1>1
      <4>3. QED
        BY <1>2, <4>1, <4>2
    <3>2. QED
      BY <1>2, <3>1
  <2>3. QED
    BY <1>1, <1>2, <2>1, <2>2 DEF TypeOK
<1>4. OneRunner'
  <2>1. SUFFICES ASSUME NEW t \in Conns, NEW a \in Runners, NEW b \in Runners,
                        task'[t][a] # 0, task'[t][a] = task'[t][b]
                 PROVE  a = b
    BY DEF OneRunner
  <2>2. \A q \in Runners : q # r => task'[s][q] = task[s][q] /\ task[s][q] \in Nat /\ task[s][q] <= taken[s]
    BY <1>1 DEF OwnStep
  <2>3. \A q \in Runners : q # r /\ task'[s][r] = task'[s][q] => task'[s][r] = 0
    <3>1. CASE task'[s][r] \in {0, n}
      BY <2>2, <3>1 DEF StreamsInv, OneRunner
    <3>2. CASE task'[s][r] = taken[s] + 1
      BY <1>1, <2>2, <3>2
    <3>3. QED
      BY <3>1, <3>2
  <2>4. CASE t = s /\ a # r /\ b # r
    BY <2>1, <2>2, <2>4 DEF StreamsInv, OneRunner
  <2>5. CASE t = s /\ (a = r \/ b = r)
    BY <2>1, <2>3, <2>5
  <2>6. CASE t # s
    <3>1. task'[t][a] = task[t][a] /\ task'[t][b] = task[t][b]
      BY <2>6 DEF OwnStep
    <3>2. QED
      BY ZenonT(60), <2>1, <3>1 DEF StreamsInv, OneRunner
  <2>7. QED
    BY <2>4, <2>5, <2>6
<1>5. Untouched'
  <2>1. SUFFICES ASSUME NEW t \in Conns, NEW m \in 1 .. Len(Requests[t]), m > taken'[t]
                 PROVE  answers'[t][m] = << >>
    BY DEF Untouched
  <2>2. m > taken[t]
    BY <1>1, <1>2, <2>1
  <2>3. t # s \/ m # n
    BY <1>1, <2>2
  <2>4. answers'[t][m] = answers[t][m]
    BY <2>3 DEF OwnStep
  <2>5. QED
    BY <2>2, <2>4 DEF StreamsInv, Untouched
<1>6. RunnersOK'
  BY <1>2, OthersKept DEF RunnersOK
<1>7. AnswersWhole'
  <2>1. SUFFICES ASSUME NEW t \in Conns, NEW m \in 1 .. Len(Requests[t])
                 PROVE  Whole(t, m)'
    BY DEF AnswersWhole, Whole
  <2>2. CASE t = s /\ m = n
    BY <2>2
  <2>3. CASE t # s \/ m # n
    <3>1. answers'[t][m] = answers[t][m] /\ ctxDone' = ctxDone
      BY <2>3 DEF OwnStep
    <3>2. Whole(t, m)
      BY WholeAll DEF StreamsInv
    <3>3. QED
      BY <3>1, <3>2 DEF Whole
  <2>4. QED
    BY <2>2, <2>3
<1>8. NoTaskLost'
  <2>1. ASSUME NEW t \in Conns, NEW m \in 1 .. taken'[t]
        PROVE  Answered(t, m)' \/ \E q \in Runners : task'[t][q] = m
    <3>1. CASE t = s /\ m = n
      BY <3>1
    <3>2. CASE t = s /\ m = task'[s][r]
      BY <3>2
    <3>3. CASE t # s \/ (m # n /\ m # task'[s][r])
      <4>1. taken[t] \in Nat /\ asked[t] \in Nat /\ Len(Requests[t]) \in Nat
        <5>1. Requests[t] \in Seq(Types)
          BY StreamsAssumption
        <5>2. QED
          BY <1>1, <5>1
      <4>2. m \in 1 .. taken[t]
        BY <1>1, <1>2, <3>3, <4>1
      <4>3. m \in 1 .. Len(Requests[t])
        BY <1>1, <4>1, <4>2
      <4>4. answers'[t][m] = answers[t][m]
        BY <3>3, <4>3 DEF OwnStep
      <4>5. CASE Answered(t, m)
        BY <4>4, <4>5 DEF Answered
      <4>6. ASSUME NEW q \in Runners, task[t][q] = m PROVE task'[t][q] = m
        <5>1. t # s \/ q # r
          BY <3>3, <4>6
        <5>2. QED
          BY <4>6, <5>1 DEF OwnStep
      <4>7. QED
        BY <4>2, <4>5, <4>6 DEF StreamsInv, NoTaskLost
    <3>4. QED
      BY <3>1, <3>2, <3>3
  <2>2. ASSUME NEW t \in Conns, Online(t)', NEW q \in Runners
        PROVE  rpc'[t][q] \notin {"none", "exited"}
    <3>1. Online(t)
      BY <2>2 DEF Online, OwnStep
    <3>2. CASE t = s /\ q = r
      BY <3>1, <3>2
    <3>3. CASE t # s \/ q # r
      <4>1. rpc'[t][q] = rpc[t][q]
        BY <3>3 DEF OwnStep
      <4>2. QED
        BY <3>1, <4>1 DEF StreamsInv, NoTaskLost
    <3>4. QED
      BY <3>2, <3>3
  <2>3. QED
    BY <2>1, <2>2 DEF NoTaskLost
<1>9. QED
  BY <1>3, <1>4, <1>5, <1>6, <1>7, <1>8 DEF StreamsInv

\* What is known of a runner that has a task.
LEMMA BusyFacts ==
  ASSUME StreamsInv, NEW s \in Conns, NEW r \in Runners, rpc[s][r] \notin Idle
  PROVE  /\ task[s][r] \in 1 .. taken[s] /\ task[s][r] \in 1 .. Len(Requests[s])
         /\ Running(s, task[s][r], rpc[s][r], calls[s][r])
         /\ Whole(s, task[s][r])
         /\ s \in opened
<1>1. RunnerOK(s, r)
  BY DEF StreamsInv, RunnersOK
<1>2. task[s][r] \in 1 .. taken[s] /\ Running(s, task[s][r], rpc[s][r], calls[s][r])
  BY <1>1 DEF RunnerOK
<1>3. s \in opened
  BY <1>1 DEF RunnerOK, Idle
<1>4. task[s][r] \in 1 .. Len(Requests[s])
  <2>1. /\ taken[s] \in Nat /\ asked[s] \in Nat /\ taken[s] <= asked[s]
        /\ asked[s] <= Len(Requests[s])
    BY DEF StreamsInv, TypeOK
  <2>2. Requests[s] \in Seq(Types)
    BY StreamsAssumption
  <2>3. Len(Requests[s]) \in Nat
    BY <2>2
  <2>4. QED
    BY <1>2, <2>1, <2>3
<1>5. QED
  BY <1>2, <1>3, <1>4, WholeAll DEF StreamsInv

\* Steps that only move the runner: end of the stream, a range that blocks, a
\* decoded payload, a response skipped because the stream is gone.
LEMMA MoveStep ==
  ASSUME StreamsInv, NEW s \in Conns, NEW r \in Runners,
         \/ RunContextDone(s, r) \/ RunFinish(s, r) \/ RangeSticks(s, r)
         \/ DecodePayload(s, r) \/ SendSkips(s, r)
  PROVE  StreamsInv'
<1>0. PICK n \in Nat : n = task[s][r]
  BY DEF StreamsInv, TypeOK
<1>1. PICK p \in Places :
        /\ rpc' = [rpc EXCEPT ![s][r] = p]
        /\ UNCHANGED <<opened, ctxDone, finished, asked, taken, task, calls, answers>>
        /\ streams' \subseteq streams
        /\ \/ rpc[s][r] = "select" /\ p = "exited" /\ ~Online(s)
           \/ rpc[s][r] = "range" /\ p = "stuck"
           \/ rpc[s][r] = "decode" /\ p = "call"
           \/ rpc[s][r] = "send" /\ p = "end" /\ s \in ctxDone
  BY DEF RunContextDone, RunFinish, RangeSticks, DecodePayload, SendSkips, Goto, conn, Places, Online
<1>2. OwnStep(s, r, n)
  <2>1. rpc \in [Conns -> [Runners -> Places]]
    BY DEF StreamsInv, TypeOK
  <2>2. /\ rpc' \in [Conns -> [Runners -> Places]]
        /\ \A t \in Conns, q \in Runners : t # s \/ q # r => rpc'[t][q] = rpc[t][q]
    BY <1>1, <2>1, UpdateOne
  <2>3. QED
    BY <1>1, <2>2 DEF StreamsInv, TypeOK, OwnStep
<1>3. rpc'[s][r] = p
  <2>1. rpc \in [Conns -> [Runners -> Places]]
    BY DEF StreamsInv, TypeOK
  <2>2. QED
    BY <1>1, <2>1, UpdateOne
<1>4. RunnerOK(s, r)'
  <2>1. CASE rpc[s][r] = "select"
    BY <1>1, <1>3, <2>1 DEF StreamsInv, RunnersOK, RunnerOK, Idle
  <2>2. CASE rpc[s][r] # "select"
    <3>1. rpc[s][r] \notin Idle /\ p \notin Idle
      BY <1>1, <2>2 DEF Idle
    <3>2. /\ n \in 1 .. taken[s] /\ Running(s, n, rpc[s][r], calls[s][r]) /\ s \in opened
      BY <1>0, <3>1, BusyFacts
    <3>3. Running(s, n, p, calls[s][r])'
      BY <1>1, <2>2, <3>2, HandlerPlaces DEF Running
    <3>4. QED
      BY <1>0, <1>1, <1>3, <3>1, <3>2, <3>3 DEF RunnerOK
  <2>3. QED
    BY <2>1, <2>2
<1>5. n \in 1 .. Len(Requests[s]) => Whole(s, n)'
  <2>1. n \in 1 .. Len(Requests[s]) => Whole(s, n)
    BY WholeAll DEF StreamsInv
  <2>2. QED
    BY <1>1, <2>1 DEF Whole
<1>6. taken' = taken /\ task'[s][r] \in {0, n}
  BY <1>0, <1>1
<1>7. task'[s][r] = n /\ (rpc'[s][r] \in {"none", "exited"} => ~Online(s))
  BY <1>0, <1>1, <1>3
<1>8. QED
  BY <1>0, <1>2, <1>4, <1>5, <1>6, <1>7, OwnStepKeeps

\* Steps that send a Final response and free the runner.
LEMMA FinalStep ==
  ASSUME StreamsInv, NEW s \in Conns, NEW r \in Runners,
         \/ NoHandler(s, r) \/ RangeReturns(s, r) \/ DecodeFails(s, r)
         \/ CallFails(s, r) \/ SendEnd(s, r)
  PROVE  StreamsInv'
<1>0. PICK n \in Nat : n = task[s][r]
  BY DEF StreamsInv, TypeOK
<1>1. PICK kind \in {"error", "END"} :
        /\ Send(s, r, kind, 0) /\ Free(s, r)
        /\ UNCHANGED <<streams, opened, ctxDone, finished, asked, taken>>
        /\ \/ rpc[s][r] \in {"noHandler", "decode", "call"} /\ kind = "error"
           \/ rpc[s][r] = "range" /\ kind = "END"
           \/ rpc[s][r] = "end" /\ kind = "END"
  BY DEF NoHandler, RangeReturns, DecodeFails, CallFails, SendEnd, conn
<1>2. rpc[s][r] \notin Idle
  BY <1>1 DEF Idle
<1>3. /\ n \in 1 .. taken[s] /\ n \in 1 .. Len(Requests[s])
      /\ Running(s, n, rpc[s][r], calls[s][r])
      /\ Whole(s, n) /\ s \in opened
  BY <1>0, <1>2, BusyFacts
<1>4. TypeOK
  BY DEF StreamsInv
<1>5. /\ DOMAIN answers' = Conns
      /\ \A t \in Conns : answers'[t] \in [1 .. Len(Requests[t]) -> Seq(TaskResponses)]
      /\ answers'[s][n] = Append(answers[s][n], [kind |-> kind, of |-> 0])
      /\ \A t \in Conns : \A m \in 1 .. Len(Requests[t]) :
           t # s \/ m # n => answers'[t][m] = answers[t][m]
  <2>1. Send(s, r, kind, 0)
    BY <1>1
  <2>2. kind \in {"data", "error", "END"}
    OBVIOUS
  <2>3. n \in 1 .. Len(Requests[s])
    BY <1>3
  <2>4. 0 \in Nat
    OBVIOUS
  <2>5. AddsResponse(s, n, [kind |-> kind, of |-> 0])
    BY <1>0, <1>4, <2>1, <2>2, <2>3, <2>4, SendFacts
  <2>6. QED
    BY <2>5 DEF AddsResponse
<1>6. /\ rpc \in [Conns -> [Runners -> Places]] /\ "select" \in Places
      /\ task \in [Conns -> [Runners -> Nat]] /\ calls \in [Conns -> [Runners -> Nat]]
      /\ rpc' = [rpc EXCEPT ![s][r] = "select"] /\ task' = [task EXCEPT ![s][r] = 0]
      /\ calls' = [calls EXCEPT ![s][r] = 0]
  BY <1>1, <1>4 DEF TypeOK, Free, Goto, Places
<1>7. /\ rpc' \in [Conns -> [Runners -> Places]] /\ rpc'[s][r] = "select"
      /\ \A t \in Conns, q \in Runners : t # s \/ q # r => rpc'[t][q] = rpc[t][q]
  BY <1>6, UpdateOne
<1>8. /\ task' \in [Conns -> [Runners -> Nat]] /\ task'[s][r] = 0
      /\ \A t \in Conns, q \in Runners : t # s \/ q # r => task'[t][q] = task[t][q]
  BY <1>6, UpdateOne
<1>9. /\ calls' \in [Conns -> [Runners -> Nat]] /\ calls'[s][r] = 0
      /\ \A t \in Conns, q \in Runners : t # s \/ q # r => calls'[t][q] = calls[t][q]
  BY <1>6, UpdateOne
<1>10. OwnStep(s, r, n)
  BY <1>1, <1>5, <1>7, <1>8, <1>9 DEF OwnStep
<1>11. RunnerOK(s, r)'
  BY <1>1, <1>3, <1>7, <1>8, <1>9 DEF RunnerOK, Idle
<1>12. Whole(s, n)'
  <2>1. CASE rpc[s][r] = "range"
    BY <1>3, <2>1 DEF Running, Whole
  <2>2. /\ Len(answers[s][n]) \in Nat /\ Len(answers'[s][n]) = Len(answers[s][n]) + 1
        /\ \A i \in 1 .. Len(answers[s][n]) : answers'[s][n][i] = answers[s][n][i]
        /\ answers'[s][n][Len(answers[s][n]) + 1] = [kind |-> kind, of |-> 0]
    <3>1. answers[s][n] \in Seq(TaskResponses) /\ [kind |-> kind, of |-> 0] \in TaskResponses
      BY <1>3, <1>4 DEF TypeOK, TaskResponses
    <3>2. QED
      BY <1>5, <3>1, ExitFacts
  <2>3. CASE answers[s][n] = << >> /\ (kind = "error" \/ s \in ctxDone)
    <3>1. /\ Len(answers'[s][n]) = 1 /\ answers'[s][n][1].kind = kind
      BY <2>2, <2>3
    <3>2. QED
      BY <1>1, <2>3, <3>1 DEF Whole, Final
  <2>4. CASE /\ Len(answers[s][n]) = 1 /\ answers[s][n][1].kind = "data"
             /\ answers[s][n][1].of = NodeCalls(Requests[s][n])
    <3>1. /\ Len(answers'[s][n]) = 2
          /\ answers'[s][n][1].kind = "data" /\ answers'[s][n][2].kind = kind
          /\ answers'[s][n][1].of = NodeCalls(Requests[s][n])
      BY <2>2, <2>4
    <3>2. \A i \in 1 .. 2 : i = 1 \/ i = 2
      OBVIOUS
    <3>3. QED
      BY <3>1, <3>2 DEF Whole, Final
  <2>5. QED
    BY <1>1, <1>3, <2>1, <2>3, <2>4 DEF Running
<1>13. Answered(s, n)'
  <2>1. answers[s][n] \in Seq(TaskResponses) /\ [kind |-> kind, of |-> 0] \in TaskResponses
    BY <1>3, <1>4 DEF TypeOK, TaskResponses
  <2>2. /\ Len(answers[s][n]) \in Nat /\ Len(answers'[s][n]) = Len(answers[s][n]) + 1
        /\ answers'[s][n][Len(answers[s][n]) + 1] = [kind |-> kind, of |-> 0]
    BY <1>5, <2>1, ExitFacts
  <2>3. answers'[s][n] # << >> /\ Last(answers'[s][n]) = [kind |-> kind, of |-> 0]
    BY <2>2 DEF Last
  <2>4. QED
    BY <2>3 DEF Answered, Final
<1>14. rpc'[s][r] \notin {"none", "exited"}
  BY <1>7
<1>15. QED
  BY <1>0, <1>1, <1>8, <1>10, <1>11, <1>12, <1>13, <1>14, OwnStepKeeps

\* A runner takes the next task, which has no answer yet and no other runner.
LEMMA TakeStep ==
  ASSUME StreamsInv, NEW s \in Conns, NEW r \in Runners, RunTake(s, r)
  PROVE  StreamsInv'
<1>0. PICK k \in Nat : k = taken[s] + 1
  BY DEF StreamsInv, TypeOK
<1>1. /\ rpc[s][r] = "select" /\ taken[s] < asked[s]
      /\ taken' = [taken EXCEPT ![s] = @ + 1]
      /\ task' = [task EXCEPT ![s][r] = k]
      /\ rpc' = [rpc EXCEPT ![s][r] = Handler(Requests[s][k])]
      /\ UNCHANGED <<streams, opened, ctxDone, finished, asked, calls, answers>>
  BY <1>0 DEF RunTake, Goto, conn
<1>2. /\ taken \in [Conns -> Nat] /\ asked[s] \in Nat /\ asked[s] <= Len(Requests[s])
      /\ rpc \in [Conns -> [Runners -> Places]] /\ task \in [Conns -> [Runners -> Nat]]
      /\ Requests[s] \in Seq(Types)
  BY StreamsAssumption DEF StreamsInv, TypeOK
<1>3. /\ Handler(Requests[s][k]) \in {"range", "decode", "noHandler"}
      /\ Handler(Requests[s][k]) \in Places /\ Handler(Requests[s][k]) \notin Idle
  BY HandlerPlaces DEF Places, Idle
<1>4. /\ rpc' \in [Conns -> [Runners -> Places]] /\ rpc'[s][r] = Handler(Requests[s][k])
      /\ \A t \in Conns, q \in Runners : t # s \/ q # r => rpc'[t][q] = rpc[t][q]
  BY <1>1, <1>2, <1>3, UpdateOne
<1>5. /\ task' \in [Conns -> [Runners -> Nat]] /\ task'[s][r] = k
      /\ \A t \in Conns, q \in Runners : t # s \/ q # r => task'[t][q] = task[t][q]
  BY <1>1, <1>2, UpdateOne
<1>6. k \in 1 .. taken'[s] /\ k \in 1 .. Len(Requests[s]) /\ k > taken[s]
  BY <1>0, <1>1, <1>2
<1>7. task[s][r] = 0 /\ calls[s][r] = 0 /\ s \in opened
  BY <1>1 DEF StreamsInv, RunnersOK, RunnerOK, Idle
<1>8. OwnStep(s, r, 0)
  BY <1>1, <1>4, <1>5 DEF StreamsInv, TypeOK, OwnStep
<1>9. RunnerOK(s, r)'
  <2>1. answers[s][k] = << >>
    BY <1>6 DEF StreamsInv, Untouched
  <2>2. Running(s, k, Handler(Requests[s][k]), calls[s][r])'
    BY <1>1, <1>3, <1>7, <2>1 DEF Running
  <2>3. calls'[s][r] = calls[s][r] /\ opened' = opened
    BY <1>1
  <2>4. Running(s, task[s][r], rpc[s][r], calls[s][r])'
    BY <1>4, <1>5, <2>2
  <2>5. QED
    BY <1>3, <1>4, <1>5, <1>6, <1>7, <2>3, <2>4 DEF RunnerOK
<1>10. task'[s][r] = taken[s] + 1
  BY <1>0, <1>5
<1>11. 0 \notin 1 .. Len(Requests[s])
  OBVIOUS
<1>12. rpc'[s][r] \notin {"none", "exited"}
  BY <1>3, <1>4
<1>13. QED
  BY <1>1, <1>7, <1>8, <1>9, <1>10, <1>11, <1>12, OwnStepKeeps

\* A node call of an account handler succeeds: the next one, or the response, is due.
LEMMA CallStep ==
  ASSUME StreamsInv, NEW s \in Conns, NEW r \in Runners, CallSucceeds(s, r)
  PROVE  StreamsInv'
<1>0. PICK n \in Nat, c \in Nat : n = task[s][r] /\ c = calls[s][r]
  BY DEF StreamsInv, TypeOK
<1>1. PICK p \in {"call", "send"} :
        /\ rpc[s][r] = "call" /\ rpc' = [rpc EXCEPT ![s][r] = p]
        /\ calls' = [calls EXCEPT ![s][r] = c + 1]
        /\ p = "send" <=> c + 1 = NodeCalls(Requests[s][n])
        /\ UNCHANGED <<streams, opened, ctxDone, finished, asked, taken, task, answers>>
  BY <1>0 DEF CallSucceeds, Goto, TypeOfTask, conn
<1>2. rpc[s][r] \notin Idle /\ p \in Places /\ p \notin Idle /\ c + 1 \in Nat
  BY <1>1 DEF Idle, Places
<1>3. /\ n \in 1 .. taken[s] /\ n \in 1 .. Len(Requests[s]) /\ Running(s, n, "call", c)
      /\ Whole(s, n) /\ s \in opened
  BY <1>0, <1>1, <1>2, BusyFacts
<1>4. /\ rpc \in [Conns -> [Runners -> Places]] /\ calls \in [Conns -> [Runners -> Nat]]
  BY DEF StreamsInv, TypeOK
<1>5. /\ rpc' \in [Conns -> [Runners -> Places]] /\ rpc'[s][r] = p
      /\ \A t \in Conns, q \in Runners : t # s \/ q # r => rpc'[t][q] = rpc[t][q]
  BY <1>1, <1>2, <1>4, UpdateOne
<1>6. /\ calls' \in [Conns -> [Runners -> Nat]] /\ calls'[s][r] = c + 1
      /\ \A t \in Conns, q \in Runners : t # s \/ q # r => calls'[t][q] = calls[t][q]
  BY <1>1, <1>2, <1>4, UpdateOne
<1>7. OwnStep(s, r, n)
  BY <1>1, <1>5, <1>6 DEF StreamsInv, TypeOK, OwnStep
<1>8. RunnerOK(s, r)'
  <2>1. NodeCalls(Requests[s][n]) \in Nat /\ c < NodeCalls(Requests[s][n])
    BY <1>3, HandlerPlaces DEF Running
  <2>2. Running(s, n, p, c + 1)'
    BY <1>1, <1>3, <2>1 DEF Running
  <2>3. Running(s, task[s][r], rpc[s][r], calls[s][r])'
    BY <1>0, <1>1, <1>5, <1>6, <2>2
  <2>4. QED
    BY <1>0, <1>1, <1>2, <1>3, <1>5, <2>3 DEF RunnerOK
<1>9. Whole(s, n)'
  BY <1>1, <1>3 DEF Whole
<1>10. taken' = taken /\ task'[s][r] \in {0, n}
  BY <1>0, <1>1
<1>11. task'[s][r] = n /\ rpc'[s][r] \notin {"none", "exited"}
  BY <1>0, <1>1, <1>5
<1>12. QED
  BY <1>0, <1>7, <1>8, <1>9, <1>10, <1>11, OwnStepKeeps

\* The response with the results of all node calls is sent, before the END.
LEMMA DataStep ==
  ASSUME StreamsInv, NEW s \in Conns, NEW r \in Runners, SendData(s, r)
  PROVE  StreamsInv'
<1>0. PICK n \in Nat, c \in Nat : n = task[s][r] /\ c = calls[s][r]
  BY DEF StreamsInv, TypeOK
<1>1. /\ rpc[s][r] = "send" /\ rpc' = [rpc EXCEPT ![s][r] = "end"]
      /\ Send(s, r, "data", c)
      /\ UNCHANGED <<streams, opened, ctxDone, finished, asked, taken, task, calls>>
  BY <1>0 DEF SendData, Goto, conn
<1>2. rpc[s][r] \notin Idle /\ "end" \in Places /\ "end" \notin Idle
  BY <1>1 DEF Idle, Places
<1>3. /\ n \in 1 .. taken[s] /\ n \in 1 .. Len(Requests[s]) /\ Running(s, n, "send", c)
      /\ s \in opened
  BY <1>0, <1>1, <1>2, BusyFacts
<1>4. TypeOK /\ rpc \in [Conns -> [Runners -> Places]]
  BY DEF StreamsInv, TypeOK
<1>5. AddsResponse(s, n, [kind |-> "data", of |-> c])
  BY <1>0, <1>1, <1>3, <1>4, SendFacts
<1>6. /\ rpc' \in [Conns -> [Runners -> Places]] /\ rpc'[s][r] = "end"
      /\ \A t \in Conns, q \in Runners : t # s \/ q # r => rpc'[t][q] = rpc[t][q]
  BY <1>1, <1>2, <1>4, UpdateOne
<1>7. OwnStep(s, r, n)
  BY <1>1, <1>4, <1>5, <1>6 DEF TypeOK, OwnStep, AddsResponse
<1>8. /\ Len(answers'[s][n]) = 1 /\ answers'[s][n][1].kind = "data"
      /\ answers'[s][n][1].of = NodeCalls(Requests[s][n])
      /\ Handler(Requests[s][n]) = "decode"
  <2>1. answers[s][n] = << >> /\ c = NodeCalls(Requests[s][n]) /\ Handler(Requests[s][n]) = "decode"
    BY <1>3 DEF Running
  <2>2. << >> \in Seq(TaskResponses) /\ Len(<< >>) = 0 /\ [kind |-> "data", of |-> c] \in TaskResponses
    BY DEF TaskResponses
  <2>3. answers'[s][n] = Append(<< >>, [kind |-> "data", of |-> c])
    BY <1>5, <2>1 DEF AddsResponse
  <2>4. Len(answers'[s][n]) = 1 /\ answers'[s][n][1] = [kind |-> "data", of |-> c]
    BY <2>2, <2>3, ExitFacts
  <2>5. QED
    BY <2>1, <2>4
<1>9. RunnerOK(s, r)'
  <2>1. Running(s, n, "end", c)'
    BY <1>8 DEF Running
  <2>2. Running(s, task[s][r], rpc[s][r], calls[s][r])'
    BY <1>0, <1>1, <1>6, <2>1
  <2>3. QED
    BY <1>0, <1>1, <1>2, <1>3, <1>6, <2>2 DEF RunnerOK
<1>10. Whole(s, n)'
  BY <1>8 DEF Whole, Final
<1>11. taken' = taken /\ task'[s][r] \in {0, n}
  BY <1>0, <1>1
<1>12. task'[s][r] = n /\ rpc'[s][r] \notin {"none", "exited"}
  BY <1>0, <1>1, <1>6
<1>13. QED
  BY <1>0, <1>7, <1>9, <1>10, <1>11, <1>12, OwnStepKeeps

\* Every step of Run, with the handlers it calls.
LEMMA RunStep ==
  ASSUME StreamsInv, NEW s \in Conns, NEW r \in Runners, Run(s, r)
  PROVE  StreamsInv'
  BY MoveStep, FinalStep, TakeStep, CallStep, DataStep DEF Run, Account

-----------------------------------------------------------------------------
(* Steps of the transport and of the manager *)

\* A stream is asked, finished, closed or loses its context: runners and answers
\* stay as they are.
LEMMA TransportStep ==
  ASSUME StreamsInv, NEW S \in SUBSET opened, NEW s \in Conns,
         CloseStream(s) \/ Ask(s) \/ CloseFinish(s) \/ EndContext(S)
  PROVE  StreamsInv'
<1>1. /\ UNCHANGED <<opened, taken, rpc, task, calls, answers>>
      /\ ctxDone \subseteq ctxDone'
  BY DEF CloseStream, Ask, CloseFinish, EndContext
<1>2. TypeOK'
  <2>1. CASE Ask(s)
    <3>1. /\ asked \in [Conns -> Nat] /\ taken \in [Conns -> Nat] /\ asked[s] < Len(Requests[s])
          /\ asked' = [asked EXCEPT ![s] = @ + 1] /\ Requests[s] \in Seq(Types)
          /\ \A t \in Conns : taken[t] <= asked[t] /\ asked[t] <= Len(Requests[t])
          /\ UNCHANGED <<streams, ctxDone, finished>>
      BY <2>1, StreamsAssumption DEF Ask, StreamsInv, TypeOK
    <3>2. /\ asked' \in [Conns -> Nat]
          /\ \A t \in Conns : taken[t] <= asked'[t] /\ asked'[t] <= Len(Requests[t])
      BY <3>1
    <3>3. QED
      BY <1>1, <3>1, <3>2 DEF StreamsInv, TypeOK
  <2>2. CASE CloseStream(s) \/ CloseFinish(s) \/ EndContext(S)
    <3>1. /\ asked' = asked /\ streams' \subseteq streams
          /\ ctxDone' \cup finished' \subseteq opened
      BY <2>2 DEF CloseStream, CloseFinish, EndContext, Online, StreamsInv, TypeOK
    <3>2. QED
      BY <1>1, <3>1 DEF StreamsInv, TypeOK
  <2>3. QED
    BY <2>1, <2>2
<1>3. OneRunner' /\ Untouched'
  BY <1>1 DEF StreamsInv, OneRunner, Untouched
<1>4. RunnersOK'
  <2>1. ASSUME NEW t \in Conns, NEW q \in Runners PROVE RunnerOK(t, q)'
    <3>1. RunnerOK(t, q)
      BY DEF StreamsInv, RunnersOK
    <3>2. QED
      BY <1>1, <3>1 DEF RunnerOK, Running
  <2>2. QED
    BY <2>1 DEF RunnersOK
<1>5. AnswersWhole'
  <2>1. ASSUME NEW t \in Conns, NEW m \in 1 .. Len(Requests[t]) PROVE Whole(t, m)'
    <3>1. Whole(t, m)
      BY WholeAll DEF StreamsInv
    <3>2. QED
      BY <1>1, <3>1 DEF Whole
  <2>2. QED
    BY <2>1 DEF AnswersWhole, Whole
<1>6. NoTaskLost'
  <2>1. \A t \in Conns : Online(t)' => Online(t)
    BY <1>1 DEF CloseStream, Ask, CloseFinish, EndContext, Online
  <2>2. QED
    BY <1>1, <2>1 DEF StreamsInv, NoTaskLost, Answered
<1>7. QED
  BY <1>2, <1>3, <1>4, <1>5, <1>6 DEF StreamsInv

\* RegisterStream starts runners without a task.
LEMMA RegisterStep ==
  ASSUME StreamsInv, NEW s \in Conns, RegisterStream(s)
  PROVE  StreamsInv'
<1>1. /\ UNCHANGED <<ctxDone, finished, asked, taken, task, calls, answers>>
      /\ s \notin opened /\ opened' = opened \cup {s} /\ streams' = streams \cup {s}
  BY DEF RegisterStream
<1>2. /\ rpc' \in [Conns -> [Runners -> Places]]
      /\ \A q \in Runners : rpc'[s][q] = "select"
      /\ \A t \in Conns : t # s => rpc'[t] = rpc[t]
  <2>1. rpc \in [Conns -> [Runners -> Places]] /\ rpc' = [rpc EXCEPT ![s] = [r \in Runners |-> "select"]]
    BY DEF RegisterStream, StreamsInv, TypeOK
  <2>2. [r \in Runners |-> "select"] \in [Runners -> Places]
    BY DEF Places
  <2>3. QED
    BY <2>1, <2>2
<1>3. TypeOK'
  BY <1>1, <1>2 DEF StreamsInv, TypeOK
<1>4. OneRunner' /\ Untouched'
  BY <1>1 DEF StreamsInv, OneRunner, Untouched
<1>5. RunnersOK'
  <2>1. ASSUME NEW t \in Conns, NEW q \in Runners PROVE RunnerOK(t, q)'
    <3>1. RunnerOK(t, q)
      BY DEF StreamsInv, RunnersOK
    <3>2. CASE t = s
      BY <1>1, <1>2, <3>1, <3>2 DEF RunnerOK, Idle
    <3>3. CASE t # s
      <4>1. rpc'[t][q] = rpc[t][q]
        BY <1>2, <3>3
      <4>2. QED
        BY <1>1, <3>1, <3>3, <4>1 DEF RunnerOK, Running
    <3>4. QED
      BY <3>2, <3>3
  <2>2. QED
    BY <2>1 DEF RunnersOK
<1>6. AnswersWhole'
  BY <1>1 DEF StreamsInv, AnswersWhole
<1>7. NoTaskLost'
  <2>1. \A t \in Conns : t # s /\ Online(t)' => Online(t)
    BY <1>1 DEF Online
  <2>2. QED
    BY <1>1, <1>2, <2>1 DEF StreamsInv, NoTaskLost, Answered
<1>8. QED
  BY <1>3, <1>4, <1>5, <1>6, <1>7 DEF StreamsInv

\* main and the servers take most of their steps without touching the streams.
LEMMA StreamsStutter ==
  ASSUME StreamsInv, UNCHANGED vars
  PROVE  StreamsInv'
<1>1. TypeOK'
  BY DEF vars, StreamsInv, TypeOK
<1>2. OneRunner' /\ Untouched'
  BY DEF vars, StreamsInv, OneRunner, Untouched
<1>3. RunnersOK'
  BY DEF vars, StreamsInv, RunnersOK, RunnerOK, Running
<1>4. AnswersWhole'
  BY DEF vars, StreamsInv, AnswersWhole
<1>5. NoTaskLost'
  BY DEF vars, StreamsInv, NoTaskLost, Answered, Online
<1>6. QED
  BY <1>1, <1>2, <1>3, <1>4, <1>5 DEF StreamsInv

-----------------------------------------------------------------------------
(* The worker *)

WorkerInv == StreamsInv /\ Life!TypeOK /\ LifeInv /\ Life!BothStopped

\* A step of a stream, its manager or one of its runners.
LEMMA StreamStepKeeps ==
  ASSUME WorkerInv, StreamStep
  PROVE  WorkerInv'
<1>1. StreamsInv'
  <2>1. PICK s \in Conns :
          \/ RegisterStream(s) \/ CloseStream(s) \/ Ask(s) \/ CloseFinish(s)
          \/ Online(s) /\ EndContext({s})
          \/ \E r \in Runners : Run(s, r)
    BY DEF StreamStep
  <2>2. CASE Online(s) /\ EndContext({s})
    <3>1. {s} \in SUBSET opened /\ EndContext({s})
      BY <2>2 DEF Online
    <3>2. QED
      BY <3>1, TransportStep DEF WorkerInv
  <2>3. CASE CloseStream(s) \/ Ask(s) \/ CloseFinish(s)
    <3>1. {} \in SUBSET opened
      OBVIOUS
    <3>2. QED
      BY <2>3, <3>1, TransportStep DEF WorkerInv
  <2>4. QED
    BY <2>1, <2>2, <2>3, RegisterStep, RunStep DEF WorkerInv
<1>2. UNCHANGED <<main, cancelled, grpc, http, grpcStopped, httpStopped, httpBusy, exit>>
  BY DEF StreamStep, life
<1>3. Life!TypeOK' /\ LifeInv' /\ Life!BothStopped'
  BY <1>2 DEF WorkerInv, LifeInv, Life!TypeOK, Life!BothStopped
<1>4. QED
  BY <1>1, <1>3 DEF WorkerInv

\* A step of main or of a server; Stop ends the contexts of the streams.
LEMMA LifeStepKeeps ==
  ASSUME WorkerInv, LifeStep
  PROVE  WorkerInv'
<1>1. Life!TypeOK' /\ LifeInv' /\ Life!BothStopped'
  BY LifeQuietStep, TakeExitStep, EndServerStep DEF WorkerInv, LifeStep, Life!Next, Life!Main
<1>2. StreamsInv'
  <2>1. CASE EndContext(opened)
    <3>1. CASE Conns = {}
      BY <2>1, <3>1 DEF EndContext, WorkerInv, StreamsInv, TypeOK, OneRunner, Untouched,
                        RunnersOK, AnswersWhole, NoTaskLost
    <3>2. CASE Conns # {}
      <4>1. PICK s \in Conns : TRUE
        BY <3>2
      <4>2. opened \in SUBSET opened
        OBVIOUS
      <4>3. QED
        BY <2>1, <4>1, <4>2, TransportStep DEF WorkerInv
    <3>3. QED
      BY <3>1, <3>2
  <2>2. CASE UNCHANGED vars
    BY <2>2, StreamsStutter DEF WorkerInv
  <2>3. QED
    BY <2>1, <2>2 DEF LifeStep
<1>3. QED
  BY <1>1, <1>2 DEF WorkerInv

\* The inductive invariant holds for every number of streams, runners, tasks and
\* validators, whatever managers, signals, servers and the node do.
THEOREM WorkerInvariance == WorkerSpec => []WorkerInv
<1>1. WorkerInit => WorkerInv
  <2>1. SUFFICES ASSUME WorkerInit PROVE WorkerInv
    OBVIOUS
  <2>2. Life!TypeOK
    <3>1. exit \in Seq({"grpc", "http"}) /\ Len(exit) <= 2
      BY <2>1 DEF WorkerInit, Life!Init
    <3>2. QED
      BY <2>1, <3>1, Zenon DEF WorkerInit, Life!Init, Life!TypeOK
  <2>3. LifeInv /\ Life!BothStopped
    BY <2>1 DEF WorkerInit, Life!Init, LifeInv, Life!BothStopped
  <2>4. Init
    BY <2>1 DEF WorkerInit
  <2>5. /\ asked = [s \in Conns |-> 0] /\ taken = [s \in Conns |-> 0]
        /\ rpc = [s \in Conns |-> [r \in Runners |-> "none"]]
        /\ task = [s \in Conns |-> [r \in Runners |-> 0]]
        /\ calls = [s \in Conns |-> [r \in Runners |-> 0]]
        /\ answers = [s \in Conns |-> [n \in 1 .. Len(Requests[s]) |-> << >>]]
        /\ streams = {} /\ opened = {} /\ ctxDone = {} /\ finished = {}
    BY <2>4 DEF Init
  <2>6. \A s \in Conns : Len(Requests[s]) \in Nat
    <3>1. \A s \in Conns : Requests[s] \in Seq(Types)
      BY StreamsAssumption
    <3>2. QED
      BY <3>1
  <2>7. /\ DOMAIN answers = Conns
        /\ \A s \in Conns : answers[s] = [n \in 1 .. Len(Requests[s]) |-> << >>]
    BY <2>5
  <2>8. \A s \in Conns : answers[s] \in [1 .. Len(Requests[s]) -> Seq(TaskResponses)]
    <3>1. << >> \in Seq(TaskResponses)
      OBVIOUS
    <3>2. QED
      BY <2>7, <3>1
  <2>9. \A s \in Conns : \A n \in 1 .. Len(Requests[s]) : answers[s][n] = << >>
    BY <2>7
  <2>10. TypeOK
    BY <2>5, <2>6, <2>7, <2>8 DEF TypeOK, Places
  <2>11. OneRunner /\ Untouched
    BY <2>5, <2>9 DEF OneRunner, Untouched
  <2>12. RunnersOK
    BY <2>5 DEF RunnersOK, RunnerOK, Idle
  <2>13. AnswersWhole
    BY <2>9 DEF AnswersWhole
  <2>14. NoTaskLost
    BY <2>5 DEF NoTaskLost, Online
  <2>15. QED
    BY <2>2, <2>3, <2>10, <2>11, <2>12, <2>13, <2>14 DEF WorkerInv, StreamsInv
<1>2. WorkerInv /\ [WorkerNext]_allvars => WorkerInv'
  <2>1. ASSUME WorkerInv, UNCHANGED allvars PROVE WorkerInv'
    <3>1. UNCHANGED vars /\ UNCHANGED life
      BY <2>1 DEF allvars
    <3>2. StreamsInv'
      BY <2>1, <3>1, StreamsStutter DEF WorkerInv
    <3>3. Life!TypeOK' /\ LifeInv' /\ Life!BothStopped'
      BY <2>1, <3>1 DEF life, WorkerInv, LifeInv, Life!TypeOK, Life!BothStopped
    <3>4. QED
      BY <3>2, <3>3 DEF WorkerInv
  <2>2. QED
    BY <2>1, StreamStepKeeps, LifeStepKeeps DEF WorkerNext
<1>3. QED
  BY <1>1, <1>2, PTL DEF WorkerSpec

\* Type correctness of the worker, the capacity of the exit channel and the
\* bounds of the task queues included.
THEOREM WorkerTypeCorrect == WorkerSpec => []WorkerTypeOK
<1>1. WorkerInv => WorkerTypeOK
  BY DEF WorkerInv, StreamsInv, WorkerTypeOK
<1>2. QED
  BY <1>1, WorkerInvariance, PTL

\* A task that is not a range gets one Final response, which nothing follows, from
\* one runner; its data is complete and missing only after an error or without a
\* stream.
THEOREM WholeAnswers == WorkerSpec => []AnswersWhole
<1>1. WorkerInv => AnswersWhole
  BY DEF WorkerInv, StreamsInv
<1>2. QED
  BY <1>1, WorkerInvariance, PTL

\* A task that a runner has taken has its Final response or is still with a runner,
\* and no runner ends while its stream is there: of Served, all that is safety.
THEOREM TasksKept == WorkerSpec => []NoTaskLost
<1>1. WorkerInv => NoTaskLost
  BY DEF WorkerInv, StreamsInv
<1>2. QED
  BY <1>1, WorkerInvariance, PTL

\* When main has returned after its select, each server has ended or was told to.
THEOREM NoServerLeft == WorkerSpec => []BothStopped
<1>1. WorkerInv => BothStopped
  BY DEF WorkerInv, BothStopped
<1>2. QED
  BY <1>1, WorkerInvariance, PTL
=============================================================================
