------------------------------ MODULE Streams ------------------------------
(***************************************************************************)
(* The streams of a worker (client/client.go): every manager connection    *)
(* registers a stream, whose runners take tasks from it, run their         *)
(* handlers and send the answers to the same stream, until the context of  *)
(* the stream is done or the stream is finished.                           *)
(*                                                                         *)
(* The handlers of the account tasks are modelled here, with the calls     *)
(* they make to the node (api/reward.go, api/account_balance.go,           *)
(* api/delegations.go).  A range task is one step here, or never returns:  *)
(* RangeTask and RangePipeline have its details.  The transport that owns  *)
(* a stream and the manager behind it are external.                        *)
(***************************************************************************)
EXTENDS Integers, SequencesExt

CONSTANTS Conns,         \* the streams managers open
          Runners,       \* the goroutines Run of a stream (20)
          Requests,      \* Requests[s]: the types of the tasks sent on stream s
          Validators     \* number of validators an account delegates to

Types == {"getTransactions", "latestData", "getReward", "accountBalance",
          "accountDelegations", "other"}

ASSUME StreamsAssumption ==
  Requests \in [Conns -> Seq(Types)] /\ Validators \in Nat

VARIABLES
  streams,             \* ic.streams
  opened,              \* streams that were registered
  ctxDone, finished,   \* streams whose context is done; whose Finish is closed
  asked, taken,        \* tasks put on, and taken from, RequestListener
  rpc, task,           \* runners: place, number of the task they run
  calls,               \* node calls a handler has made for its task
  answers              \* answers[s][n]: TaskResponses sent on s with the Id of its task n

vars == <<streams, opened, ctxDone, finished, asked, taken, rpc, task, calls, answers>>
conn == <<streams, opened, ctxDone, finished, asked>>

Init ==
  /\ streams = {} /\ opened = {} /\ ctxDone = {} /\ finished = {}
  /\ asked = [s \in Conns |-> 0] /\ taken = [s \in Conns |-> 0]
  /\ rpc = [s \in Conns |-> [r \in Runners |-> "none"]]
  /\ task = [s \in Conns |-> [r \in Runners |-> 0]]
  /\ calls = [s \in Conns |-> [r \in Runners |-> 0]]
  /\ answers = [s \in Conns |-> [n \in 1 .. Len(Requests[s]) |-> << >>]]

Online(s) == s \in opened \ (ctxDone \cup finished)

-----------------------------------------------------------------------------
(* Transport and manager *)

\* a task is put on RequestListener
Ask(s) ==
  /\ Online(s)
  /\ asked[s] < Len(Requests[s])
  /\ asked' = [asked EXCEPT ![s] = @ + 1]
  /\ UNCHANGED <<streams, opened, ctxDone, finished, taken, rpc, task, calls, answers>>

\* the connection is gone
EndContext(S) ==
  /\ ctxDone' = ctxDone \cup S
  /\ UNCHANGED <<streams, opened, finished, asked, taken, rpc, task, calls, answers>>

CloseFinish(s) ==
  /\ Online(s)
  /\ finished' = finished \cup {s}
  /\ UNCHANGED <<streams, opened, ctxDone, asked, taken, rpc, task, calls, answers>>

-----------------------------------------------------------------------------
(* RegisterStream, CloseStream *)

RegisterStream(s) ==
  /\ s \notin opened
  /\ opened' = opened \cup {s}
  /\ streams' = streams \cup {s}
  /\ rpc' = [rpc EXCEPT ![s] = [r \in Runners |-> "select"]]
  /\ UNCHANGED <<ctxDone, finished, asked, taken, task, calls, answers>>

\* called by the transport when it is done with the stream
CloseStream(s) ==
  /\ s \in opened /\ ~Online(s)
  /\ s \in streams
  /\ streams' = streams \ {s}
  /\ UNCHANGED <<opened, ctxDone, finished, asked, taken, rpc, task, calls, answers>>

-----------------------------------------------------------------------------
(* Run *)

Goto(s, r, place) == rpc' = [rpc EXCEPT ![s][r] = place]

\* the task is over, the runner selects again
Free(s, r) == /\ Goto(s, r, "select")
              /\ task' = [task EXCEPT ![s][r] = 0]
              /\ calls' = [calls EXCEPT ![s][r] = 0]

\* a TaskResponse, with the results of so many node calls.  The transport's Send is
\* taken to return; its error is only logged.
Send(s, r, kind, of) ==
  answers' = [answers EXCEPT ![s][task[s][r]] = Append(@, [kind |-> kind, of |-> of])]

\* Mutant: the entry stays in the map
RunContextDoneKeeps(s, r) ==
  /\ rpc[s][r] = "select" /\ s \in ctxDone
  /\ Goto(s, r, "exited")
  /\ UNCHANGED <<streams, opened, ctxDone, finished, asked, taken, task, calls, answers>>

RunContextDone(s, r) ==
  /\ rpc[s][r] = "select" /\ s \in ctxDone
  /\ streams' = streams \ {s}
  /\ Goto(s, r, "exited")
  /\ UNCHANGED <<opened, ctxDone, finished, asked, taken, task, calls, answers>>

\* Mutant: only the first runner sees the end
RunFinishToken(s, r) ==
  /\ rpc[s][r] = "select" /\ s \in finished
  /\ \A q \in Runners : rpc[s][q] # "exited"
  /\ Goto(s, r, "exited")
  /\ UNCHANGED <<conn, taken, task, calls, answers>>

RunFinish(s, r) ==
  /\ rpc[s][r] = "select" /\ s \in finished
  /\ Goto(s, r, "exited")
  /\ UNCHANGED <<conn, taken, task, calls, answers>>

\* the switch on the type of the task; there is no case for blocks
Handler(type) ==
  CASE type \in {"getTransactions", "latestData"} -> "range"
    [] type \in {"getReward", "accountBalance", "accountDelegations"} -> "decode"
    [] OTHER -> "noHandler"

\* Mutant: a task is taken although none is waiting
RunTakeIdle(s, r) ==
  /\ rpc[s][r] = "select"
  /\ taken[s] <= asked[s]
  /\ taken' = [taken EXCEPT ![s] = @ + 1]
  /\ task' = [task EXCEPT ![s][r] = taken[s] + 1]
  /\ Goto(s, r, Handler(Requests[s][taken[s] + 1]))
  /\ UNCHANGED <<conn, calls, answers>>

RunTake(s, r) ==
  /\ rpc[s][r] = "select"
  /\ taken[s] < asked[s]
  /\ taken' = [taken EXCEPT ![s] = @ + 1]
  /\ task' = [task EXCEPT ![s][r] = taken[s] + 1]
  /\ Goto(s, r, Handler(Requests[s][taken[s] + 1]))
  /\ UNCHANGED <<conn, calls, answers>>

\* Mutant: the runner returns after a task it has no handler for
NoHandlerReturns(s, r) ==
  /\ rpc[s][r] = "noHandler"
  /\ Send(s, r, "error", 0)
  /\ Goto(s, r, "exited")
  /\ UNCHANGED <<conn, taken, task, calls>>

NoHandler(s, r) ==
  /\ rpc[s][r] = "noHandler"
  /\ Send(s, r, "error", 0)
  /\ Free(s, r)
  /\ UNCHANGED <<conn, taken>>

\* GetTransactions, GetLatest: the responses of RangeTask, as one END
RangeReturns(s, r) ==
  /\ rpc[s][r] = "range"
  /\ Send(s, r, "END", 0)
  /\ Free(s, r)
  /\ UNCHANGED <<conn, taken>>

\* getRange never returns: range_stuck, range_context, pools_nil
RangeSticks(s, r) ==
  /\ rpc[s][r] = "range"
  /\ Goto(s, r, "stuck")
  /\ UNCHANGED <<conn, taken, task, calls, answers>>

-----------------------------------------------------------------------------
(* GetReward, GetAccountBalance, GetAccountDelegations *)

\* node calls: the validators of the account, then the rewards at each of them
GetRewardCalls             == 1 + Validators
GetAccountBalanceCalls     == 1
GetAccountDelegationsCalls == 1

NodeCalls(type) ==
  CASE type = "getReward"          -> GetRewardCalls
    [] type = "accountBalance"     -> GetAccountBalanceCalls
    [] type = "accountDelegations" -> GetAccountDelegationsCalls
    [] OTHER                       -> 0

TypeOfTask(s, r) == Requests[s][task[s][r]]

DecodePayload(s, r) ==
  /\ rpc[s][r] = "decode"
  /\ Goto(s, r, "call")
  /\ UNCHANGED <<conn, taken, task, calls, answers>>

\* the payload cannot be decoded
DecodeFails(s, r) ==
  /\ rpc[s][r] = "decode"
  /\ Send(s, r, "error", 0)
  /\ Free(s, r)
  /\ UNCHANGED <<conn, taken>>

\* Mutant: rewards that cannot be fetched are left out
CallFailsContinues(s, r) ==
  /\ rpc[s][r] = "call"
  /\ \/ calls[s][r] = 0 /\ Send(s, r, "error", 0) /\ Free(s, r)
     \/ /\ calls[s][r] > 0
        /\ Goto(s, r, "send")
        /\ UNCHANGED <<task, calls, answers>>
  /\ UNCHANGED <<conn, taken>>

\* Mutant: a timeout is not reported
CallFailsSilent(s, r) ==
  /\ rpc[s][r] = "call"
  /\ Free(s, r)
  /\ UNCHANGED <<conn, taken, answers>>

\* one of the calls fails: also by its timeout, or a context that is done
CallFails(s, r) ==
  /\ rpc[s][r] = "call"
  /\ Send(s, r, "error", 0)
  /\ Free(s, r)
  /\ UNCHANGED <<conn, taken>>

CallSucceeds(s, r) ==
  /\ rpc[s][r] = "call"
  /\ s \notin ctxDone
  /\ calls' = [calls EXCEPT ![s][r] = @ + 1]
  /\ Goto(s, r, IF calls[s][r] + 1 = NodeCalls(TypeOfTask(s, r)) THEN "send" ELSE "call")
  /\ UNCHANGED <<conn, taken, task, answers>>

\* sendResp, called by the handler itself: out holds one response and is closed
SendData(s, r) ==
  /\ rpc[s][r] = "send"
  /\ Send(s, r, "data", calls[s][r])
  /\ Goto(s, r, "end")
  /\ UNCHANGED <<conn, taken, task, calls>>

\* Mutant: the loop is left without looking at out
SendSkipsEarly(s, r) ==
  /\ rpc[s][r] = "send"
  /\ Goto(s, r, "end")
  /\ UNCHANGED <<conn, taken, task, calls, answers>>

\* case <-ctx.Done() is ready too
SendSkips(s, r) ==
  /\ rpc[s][r] = "send" /\ s \in ctxDone
  /\ Goto(s, r, "end")
  /\ UNCHANGED <<conn, taken, task, calls, answers>>

SendEnd(s, r) ==
  /\ rpc[s][r] = "end"
  /\ Send(s, r, "END", 0)
  /\ Free(s, r)
  /\ UNCHANGED <<conn, taken>>

Account(s, r) == \/ DecodePayload(s, r) \/ DecodeFails(s, r) \/ CallFails(s, r)
                 \/ CallSucceeds(s, r) \/ SendData(s, r) \/ SendSkips(s, r) \/ SendEnd(s, r)

Run(s, r) == \/ RunContextDone(s, r) \/ RunFinish(s, r) \/ RunTake(s, r) \/ NoHandler(s, r)
             \/ RangeReturns(s, r) \/ RangeSticks(s, r) \/ Account(s, r)

Next == \E s \in Conns :
          \/ RegisterStream(s) \/ CloseStream(s) \/ Ask(s) \/ CloseFinish(s)
          \/ Online(s) /\ EndContext({s})
          \/ \E r \in Runners : Run(s, r)

Spec == Init /\ [][Next]_vars

-----------------------------------------------------------------------------
(* Properties *)

Places == {"none", "select", "noHandler", "range", "stuck", "decode", "call", "send",
           "end", "exited"}

TaskResponses == [kind : {"data", "error", "END"}, of : Nat]

TypeOK ==
  /\ opened \subseteq Conns
  /\ streams \subseteq opened /\ ctxDone \cup finished \subseteq opened
  /\ asked \in [Conns -> Nat] /\ taken \in [Conns -> Nat]
  /\ \A s \in Conns : taken[s] <= asked[s] /\ asked[s] <= Len(Requests[s])
  /\ rpc \in [Conns -> [Runners -> Places]]
  /\ task \in [Conns -> [Runners -> Nat]] /\ calls \in [Conns -> [Runners -> Nat]]
  /\ \A s \in Conns, r \in Runners : task[s][r] <= taken[s]
  /\ DOMAIN answers = Conns
  /\ \A s \in Conns : answers[s] \in [1 .. Len(Requests[s]) -> Seq(TaskResponses)]

Final(m) == m.kind \in {"error", "END"}

\* A task that is not a range gets one Final response, which nothing follows, from
\* one runner, although all runners of a stream send on it.  A response with data
\* comes before the END, carries the results of all node calls of the task, and is
\* missing only if there was an error or the stream was gone.
AnswersWhole ==
  \A s \in Conns : \A n \in 1 .. Len(Requests[s]) :
    LET as == answers[s][n] IN
    Handler(Requests[s][n]) # "range" =>
    /\ Len(as) <= 2
    /\ \A i \in 1 .. Len(as) : Final(as[i]) => i = Len(as)
    /\ \A i \in 1 .. Len(as) : as[i].kind = "data" => as[i].of = NodeCalls(Requests[s][n])
    /\ (as # << >> /\ as[1].kind = "END" /\ Handler(Requests[s][n]) = "decode") => s \in ctxDone

Answered(s, n) == answers[s][n] # << >> /\ Final(Last(answers[s][n]))

\* No task is dropped: one that a runner has taken has its Final response or is
\* still with a runner, whatever failed and whenever the stream ended; and no
\* runner is lost: none ends as long as its stream is there.
NoTaskLost ==
  \A s \in Conns :
    /\ \A n \in 1 .. taken[s] : Answered(s, n) \/ \E r \in Runners : task[s][r] = n
    /\ Online(s) => \A r \in Runners : rpc[s][r] \notin {"none", "exited"}

Stuck(s, n) == \E r \in Runners : rpc[s][r] = "stuck" /\ task[s][r] = n

\* a runner of the stream is left that no range has blocked for good
SomeRunnerLeft(s) == \E r \in Runners : rpc[s][r] # "stuck"
=============================================================================
