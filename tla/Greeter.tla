------------------------------ MODULE Greeter -------------------------------
(***************************************************************************)
(* The greeter's gRPC server, a process of its own behind the gateway: it  *)
(* listens, serves, and on a signal stops gracefully.  It can be started   *)
(* again after it ended.  The signal that comes before signal.Notify, and  *)
(* the drops of idle or old connections by keepalive (a call lasts a tenth *)
(* of a second, the grace of an old connection is five), which the client's*)
(* connection shows as a change of state, are left to module Gateway.      *)
(***************************************************************************)
CONSTANT Calls  \* the calls of SayHello

VARIABLES
  server,    \* where main() of the process is
  health,    \* what its health service tells
  inflight,  \* calls it has taken and not answered
  broken,    \* calls whose server died under them
  watching   \* somebody has a Watch stream of the health service open

greeterVars == <<server, health, inflight, broken, watching>>

GreeterTypeOK ==
  /\ server \in {"down", "serving", "signalled", "stopping"}
  /\ health \in {"SERVING", "NOT_SERVING"}
  /\ inflight \subseteq Calls /\ broken \subseteq Calls
  /\ inflight \intersect broken = {}
  /\ watching \in BOOLEAN /\ (watching => server # "down")

GreeterInit ==
  /\ server = "down"
  /\ health = "NOT_SERVING"
  /\ inflight = {} /\ broken = {} /\ watching = FALSE

\* main: the port is listened on; where that fails the process ends at once.
Listen ==
  /\ server = "down" /\ server' = "serving"
  /\ health' = "SERVING"
  /\ UNCHANGED <<inflight, broken, watching>>

ServeFails_KeepsCalls ==  \* mutant: the dead server still has its calls
  /\ server \in {"serving", "signalled"} /\ server' = "down"
  /\ broken' = broken \union inflight
  /\ watching' = FALSE
  /\ UNCHANGED <<health, inflight>>

\* Accepting fails for good: log.Fatalf ends the process and its calls.
ServeFails ==
  /\ server \in {"serving", "signalled"} /\ server' = "down"
  /\ broken' = broken \union inflight
  /\ inflight' = {} /\ watching' = FALSE
  /\ UNCHANGED health

\* The signal: the health service tells of it first.
SignalServer ==
  /\ server = "serving" /\ server' = "signalled"
  /\ health' = "NOT_SERVING"
  /\ UNCHANGED <<inflight, broken, watching>>

GracefulStop ==
  /\ server = "signalled" /\ server' = "stopping"
  /\ UNCHANGED <<health, inflight, broken, watching>>

\* GracefulStop returns when the calls and streams have ended, and the process ends.
Stopped ==
  /\ server = "stopping" /\ inflight = {} /\ ~ watching /\ server' = "down"
  /\ UNCHANGED <<health, inflight, broken, watching>>

Serves == server \in {"serving", "signalled"}

Accepts_Stopping(c) ==  \* mutant: a server that stops still takes calls
  /\ Serves \/ server = "stopping"
  /\ c \notin inflight
  /\ inflight' = inflight \union {c}
  /\ UNCHANGED <<server, health, broken, watching>>

\* The server takes a call.
Accepts(c) ==
  /\ Serves
  /\ c \notin inflight
  /\ inflight' = inflight \union {c}
  /\ UNCHANGED <<server, health, broken, watching>>

\* SayHello returns its greeting; it has no error to return.
SayHello(c) ==
  /\ c \in inflight /\ inflight' = inflight \ {c}
  /\ UNCHANGED <<server, health, broken, watching>>

\* The client side has seen that its call is broken.
SeesBroken(c) ==
  /\ c \in broken /\ broken' = broken \ {c}
  /\ UNCHANGED <<server, health, inflight, watching>>

\* A client of the health service watches it; the status NOT_SERVING is sent to it and does
\* not end the stream.  It leaves when it likes, or keepalive closes its connection, which is
\* not let live longer than MaxConnectionAge and its grace.
Watch ==
  /\ Serves /\ ~ watching /\ watching' = TRUE
  /\ UNCHANGED <<server, health, inflight, broken>>

Unwatch ==
  /\ watching /\ watching' = FALSE
  /\ UNCHANGED <<server, health, inflight, broken>>

Lifecycle == Watch \/ Unwatch \/ Listen \/ ServeFails \/ SignalServer \/ GracefulStop \/ Stopped
=============================================================================
