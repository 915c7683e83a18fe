----------------------------- MODULE Lifecycle -----------------------------
(***************************************************************************)
(* The process (cmd/worker-cosmos/main.go): main starts a gRPC and an HTTP *)
(* server and waits for a signal or for the end of one of them; then it    *)
(* cancels its context, stops the other server and returns, which ends the *)
(* process.  The servers themselves are library code.                      *)
(***************************************************************************)
EXTENDS Naturals, Sequences

VARIABLES
  main,                       \* main: place
  cancelled,                  \* cancel() was called
  grpc, http,                 \* runGRPC, runHTTP: place
  grpcStopped, httpStopped,   \* Stop, Shutdown was called
  httpBusy,                   \* requests are in progress while the HTTP server shuts down
  exit                        \* contents of the exit channel (capacity 2)

vars == <<main, cancelled, grpc, http, grpcStopped, httpStopped, httpBusy, exit>>
servers == <<grpc, http, httpBusy>>

Init ==
  /\ main = "start" /\ cancelled = FALSE
  /\ grpc = "none" /\ http = "none"
  /\ grpcStopped = FALSE /\ httpStopped = FALSE
  /\ httpBusy = FALSE
  /\ exit = << >>

-----------------------------------------------------------------------------
(* main *)

\* configuration, run id, address or dialling: an early return; or a signal
\* before signal.Notify
StartFails ==
  /\ main = "start"
  /\ main' = "exited"
  /\ UNCHANGED <<cancelled, servers, grpcStopped, httpStopped, exit>>

\* signal.Notify and the two goroutines; until main is at its select a signal
\* is dropped, for osSig has no buffer
StartServers ==
  /\ main = "start"
  /\ main' = "select"
  /\ grpc' = "listen" /\ http' = "listen"
  /\ UNCHANGED <<cancelled, httpBusy, grpcStopped, httpStopped, exit>>

\* case sig := <-osSig, and cancel
TakeSignal ==
  /\ main = "select"
  /\ main' = "signalled"
  /\ cancelled' = TRUE
  /\ UNCHANGED <<servers, grpcStopped, httpStopped, exit>>

\* case k := <-exit, and cancel
TakeExit ==
  /\ main = "select"
  /\ exit # << >>
  /\ main' = IF Head(exit) = "grpc" THEN "grpcEnded" ELSE "httpEnded"
  /\ exit' = Tail(exit)
  /\ cancelled' = TRUE
  /\ UNCHANGED <<servers, grpcStopped, httpStopped>>

\* Mutant: the branches are swapped
StopGRPCSwapped ==
  /\ main \in {"signalled", "grpcEnded"}
  /\ grpcStopped' = TRUE
  /\ main' = IF main = "signalled" THEN "stopHTTP" ELSE "exited"
  /\ UNCHANGED <<cancelled, servers, httpStopped, exit>>

\* grpcServer.Stop, on a signal or when the HTTP server has ended
StopGRPC ==
  /\ main \in {"signalled", "httpEnded"}
  /\ grpcStopped' = TRUE
  /\ main' = IF main = "signalled" THEN "stopHTTP" ELSE "exited"
  /\ UNCHANGED <<cancelled, servers, httpStopped, exit>>

\* s.Shutdown(ctx), on a signal or when the gRPC server has ended; requests
\* (profiles, metrics, health) may be in progress
ShutdownHTTP ==
  /\ main \in {"stopHTTP", "grpcEnded"}
  /\ httpStopped' = TRUE
  /\ httpBusy' \in {FALSE, http = "serving"}
  /\ main' = "shutdown"
  /\ UNCHANGED <<cancelled, grpc, http, grpcStopped, exit>>

\* Mutant: Shutdown under a context that is not cancelled
ShutdownReturnsIdle ==
  /\ main = "shutdown"
  /\ ~httpBusy
  /\ main' = "exited"
  /\ UNCHANGED <<cancelled, servers, grpcStopped, httpStopped, exit>>

\* Shutdown waits for requests in progress, or for its context
ShutdownReturns ==
  /\ main = "shutdown"
  /\ ~httpBusy \/ cancelled
  /\ main' = "exited"
  /\ UNCHANGED <<cancelled, servers, grpcStopped, httpStopped, exit>>

Main == \/ StartServers \/ TakeExit \/ StopGRPC \/ ShutdownHTTP \/ ShutdownReturns

-----------------------------------------------------------------------------
(* runGRPC and runHTTP *)

Exit(k) == exit' = Append(exit, k)

\* net.Listen and Serve
ServeGRPC ==
  /\ grpc = "listen"
  /\ ~grpcStopped
  /\ grpc' = "serving"
  /\ UNCHANGED <<main, cancelled, http, httpBusy, grpcStopped, httpStopped, exit>>

\* the port is taken, or Serve returns: by itself, or because of Stop
EndGRPC ==
  /\ grpc \in {"listen", "serving"}
  /\ grpc' = "ended"
  /\ Exit("grpc")
  /\ UNCHANGED <<main, cancelled, http, httpBusy, grpcStopped, httpStopped>>

ServeHTTP ==
  /\ http = "listen"
  /\ ~httpStopped
  /\ http' = "serving"
  /\ UNCHANGED <<main, cancelled, grpc, httpBusy, grpcStopped, httpStopped, exit>>

EndHTTP ==
  /\ http \in {"listen", "serving"}
  /\ http' = "ended"
  /\ Exit("http")
  /\ UNCHANGED <<main, cancelled, grpc, httpBusy, grpcStopped, httpStopped>>

\* the last request in progress is answered
RequestsDone ==
  /\ httpBusy
  /\ httpBusy' = FALSE
  /\ UNCHANGED <<main, cancelled, grpc, http, grpcStopped, httpStopped, exit>>

Next == /\ main # "exited"
        /\ \/ Main \/ StartFails \/ TakeSignal
           \/ ServeGRPC \/ EndGRPC \/ ServeHTTP \/ EndHTTP \/ RequestsDone

-----------------------------------------------------------------------------
TypeOK ==
  /\ main \in {"start", "select", "signalled", "grpcEnded", "httpEnded", "stopHTTP",
               "shutdown", "exited"}
  /\ grpc \in {"none", "listen", "serving", "ended"}
  /\ http \in {"none", "listen", "serving", "ended"}
  /\ cancelled \in BOOLEAN /\ httpBusy \in BOOLEAN
  /\ grpcStopped \in BOOLEAN /\ httpStopped \in BOOLEAN
  /\ exit \in Seq({"grpc", "http"}) /\ Len(exit) <= 2

\* No server outlives main's loop: the one that ended is gone and the other was
\* told to stop, also when both end at the same time or before they serve.
BothStopped ==
  main = "exited" /\ cancelled =>
    (grpcStopped \/ grpc = "ended") /\ (httpStopped \/ http = "ended")
=============================================================================
