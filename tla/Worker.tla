------------------------------- MODULE Worker -------------------------------
(***************************************************************************)
(* The worker process: the streams of its managers and the life cycle of   *)
(* main.  Streams are registered while the gRPC server is serving;         *)
(* grpcServer.Stop ends the contexts of all of them; when main returns     *)
(* every goroutine ends with it.                                           *)
(***************************************************************************)
EXTENDS Streams

VARIABLES main, cancelled, grpc, http, grpcStopped, httpStopped, httpBusy, exit

Life == INSTANCE Lifecycle
life == <<main, cancelled, grpc, http, grpcStopped, httpStopped, httpBusy, exit>>

allvars == <<vars, life>>

WorkerInit == Init /\ Life!Init

Accepting == grpc = "serving" /\ ~grpcStopped

StreamStep ==
  /\ main # "exited"
  /\ \E s \in Conns :
       \/ Accepting /\ RegisterStream(s)
       \/ CloseStream(s) \/ Ask(s) \/ CloseFinish(s)
       \/ Online(s) /\ EndContext({s})
       \/ \E r \in Runners : Run(s, r)
  /\ UNCHANGED life

\* a step of main or of a server; Stop reaches the streams
LifeStep ==
  /\ Life!Next
  /\ IF grpcStopped' /\ ~grpcStopped THEN EndContext(opened) ELSE UNCHANGED vars

WorkerNext == StreamStep \/ LifeStep

Runner(s, r) == main # "exited" /\ Run(s, r) /\ UNCHANGED life

(***************************************************************************)
(* The scheduler runs main and every runner that can run.  Node calls end  *)
(* by their timeouts, and the transport's Send returns, with or without an *)
(* error: a runner that sends goes on.  Nothing else is assumed of         *)
(* managers and transport, and nothing of signals, failures and ranges.    *)
(***************************************************************************)
WorkerSpec ==
  /\ WorkerInit /\ [][WorkerNext]_allvars
  /\ WF_allvars(Life!Main /\ LifeStep)
  /\ \A s \in Conns, r \in Runners : WF_allvars(Runner(s, r))

-----------------------------------------------------------------------------
(* Properties *)

WorkerTypeOK == TypeOK /\ Life!TypeOK

\* Every task sent on a stream is answered, although tasks before it fail, have no
\* handler or are ranges that block; unless its own range blocks, all runners of the
\* stream are blocked, or the stream or the process has ended.  A Send that blocks in
\* the transport is assumed away.
Served ==
  \A s \in Conns : \A n \in 1 .. Len(Requests[s]) :
    asked[s] >= n ~> \/ Answered(s, n) \/ Stuck(s, n)
                     \/ ~SomeRunnerLeft(s) \/ ~Online(s) \/ main = "exited"

\* When a stream has ended, its runners end, and a context that is done takes
\* it out of the map too, unless ranges have blocked them or the process is over.
RunnersEnd ==
  \A s \in Conns :
    (s \in opened /\ ~Online(s)) ~>
      \/ main = "exited"
      \/ /\ \A r \in Runners : rpc[s][r] \in {"exited", "stuck"}
         /\ s \in ctxDone /\ SomeRunnerLeft(s) /\ s \notin finished => s \notin streams

\* The end of a server, or a signal that main receives, ends the process, although
\* tasks are running, ranges have blocked and the HTTP server may be busy.
Stops == (exit # << >> \/ cancelled) ~> main = "exited"

\* No server outlives main's loop: the one that ended is gone and the other was
\* told to stop, also when both end at the same time or before they serve.
BothStopped == Life!BothStopped
=============================================================================
