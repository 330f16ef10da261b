---------------------------- MODULE UserProcess -----------------------------
(***************************************************************************)
(* The process of the user service: main() from the configuration to the   *)
(* end of its deferred calls, with the requests of UserListing served in   *)
(* between.  It can be started again after it ended; the table stays.      *)
(*                                                                         *)
(* log.Fatalf ends the process where it stands, without the deferred       *)
(* calls.  The operating system then drops its connections and the clients *)
(* get an error for the calls in flight.                                   *)
(*                                                                         *)
(* Left out: the reflection service; the limits of the two connection      *)
(* pools.  Those of Postgres are unlimited (the keys max_conns and         *)
(* max_idle are not the names viper gives the fields of PostgresConfig),   *)
(* so no request waits for a connection.                                   *)
(***************************************************************************)
EXTENDS UserListing

VARIABLES
  main,      \* where main() is; "down" when there is no process
  health,    \* what the health service says
  postgres,  \* the connections to Postgres: "none", "open", "closed"
  mongo      \* the client of MongoDB, likewise

processVars == <<main, health, postgres, mongo>>
vars == <<listingVars, processVars>>

\* Where a starting process is, then where a running one is, then where a stopping one is.
Starting == {"config", "postgres", "mongo", "listen"}
Running == {"serving", "signalled"}
Ending == {"stopping", "disconnect", "close"}

ProcessTypeOK ==
  /\ main \in Starting \union Running \union Ending \union {"down"}
  /\ health \in {"SERVING", "NOT_SERVING"}
  /\ postgres \in {"none", "open", "closed"}
  /\ mongo \in {"none", "open", "closed"}

TypeOK == ListingTypeOK /\ ProcessTypeOK

Init ==
  /\ ListingInit
  /\ main = "down" /\ health = "NOT_SERVING"
  /\ postgres = "none" /\ mongo = "none"

Step(from, to) == main = from /\ main' = to

\* The process is gone, and with it the calls it had.
Exit ==
  /\ main' = "down" /\ health' = "NOT_SERVING"
  /\ postgres' = "none" /\ mongo' = "none"
  /\ at' = [c \in Clients |-> "idle"]
  /\ UNCHANGED <<table, created, walk, writes>>

-----------------------------------------------------------------------------
(***************************************************************************)
(* main().                                                                 *)
(***************************************************************************)
Start ==
  /\ Step("down", "config")
  /\ UNCHANGED <<health, postgres, mongo, listingVars>>

LoadConfig ==
  /\ Step("config", "postgres")
  /\ UNCHANGED <<health, postgres, mongo, listingVars>>

ConnectPostgres ==
  /\ Step("postgres", "mongo") /\ postgres' = "open"
  /\ UNCHANGED <<health, mongo, listingVars>>

ConnectMongoDB ==
  /\ Step("mongo", "listen") /\ mongo' = "open"
  /\ UNCHANGED <<health, postgres, listingVars>>

Listen ==
  /\ Step("listen", "serving") /\ health' = "SERVING"
  /\ UNCHANGED <<postgres, mongo, listingVars>>

\* LoadConfig, a connection or the port fails: log.Fatalf.
StartFails == main \in Starting /\ Exit

\* Serve returns an error: log.Fatalf, whatever main() is doing.
ServeFails == main \in Running /\ Exit

\* The signal: the health service tells of it first.
SignalProcess ==
  /\ Step("serving", "signalled") /\ health' = "NOT_SERVING"
  /\ UNCHANGED <<postgres, mongo, listingVars>>

\* GracefulStop takes no more calls.  The context with the timeout is not passed to it.
GracefulStop ==
  /\ Step("signalled", "stopping")
  /\ UNCHANGED <<health, postgres, mongo, listingVars>>

Drained_AtOnce ==  \* mutant: Stop instead of GracefulStop, which does not wait
  /\ Step("stopping", "disconnect")
  /\ UNCHANGED <<health, postgres, mongo, listingVars>>

\* It returns when the calls it had have ended, the streams among them.
Drained ==
  /\ Step("stopping", "disconnect")
  /\ \A c \in Clients : at[c] = "idle"
  /\ UNCHANGED <<health, postgres, mongo, listingVars>>

\* The deferred calls, the last one first.
Disconnect ==
  /\ Step("disconnect", "close") /\ mongo' = "closed"
  /\ UNCHANGED <<health, postgres, listingVars>>

ClosePostgres ==
  /\ Step("close", "close") /\ postgres = "open" /\ postgres' = "closed"
  /\ UNCHANGED <<health, mongo, listingVars>>

Return == main = "close" /\ postgres = "closed" /\ Exit

MainGoesOn ==
  \/ LoadConfig \/ ConnectPostgres \/ ConnectMongoDB \/ Listen
  \/ GracefulStop \/ Drained \/ Disconnect \/ ClosePostgres \/ Return

-----------------------------------------------------------------------------
(***************************************************************************)
(* The server.                                                             *)
(***************************************************************************)

Takes_Stopping(c) ==  \* mutant: a server that stops still takes calls
  /\ main \in Running \union {"stopping"}
  /\ \/ c \in Walkers /\ AskPage(c)
     \/ c \in Writers /\ AskWrite(c)
  /\ UNCHANGED processVars

\* The handlers of the service descriptor: a call is taken until the server stops.
Takes(c) ==
  /\ main \in Running
  /\ \/ c \in Walkers /\ AskPage(c)
     \/ c \in Writers /\ AskWrite(c)
  /\ UNCHANGED processVars

\* A client of the health service watches it, and leaves when it likes.  That the status
\* is NOT_SERVING does not end the stream; the server's Shutdown would, which nobody calls.
Watch(c) ==
  /\ main \in Running /\ c \in Writers /\ Move(c, "idle", "watching")
  /\ UNCHANGED <<table, created, walk, writes, processVars>>

Unwatch(c) ==
  /\ Move(c, "watching", "idle")
  /\ UNCHANGED <<table, created, walk, writes, processVars>>

\* HealthCheck calls the service's method, which panics ("unimplemented"); nothing recovers
\* it and the process ends.  The gRPC health service is another one.
HealthCheck == main \in Running /\ Exit

\* A call that was taken goes on, also while the server stops.
Serves(c) ==
  /\ \/ c \in Walkers /\ ListUsers(c)
     \/ c \in Writers /\ OtherRequest(c)
  /\ UNCHANGED processVars

Hangs(c) == Hang(c) /\ UNCHANGED processVars

\* The process is killed.
Crash == main # "down" /\ Exit

Next ==
  \/ Start \/ MainGoesOn \/ StartFails \/ ServeFails \/ SignalProcess
  \/ HealthCheck \/ Crash
  \/ \E c \in Clients : Takes(c) \/ Serves(c) \/ Hangs(c) \/ Watch(c) \/ Unwatch(c)

\* main goes on, and so do the calls it took, unless one hangs.  Nobody need start the
\* process, send it a signal, or call it.
Fairness == WF_vars(MainGoesOn) /\ \A c \in Clients : WF_vars(Serves(c))

Spec == Init /\ [][Next]_vars /\ Fairness
-----------------------------------------------------------------------------
(***************************************************************************)
(* Properties.                                                             *)
(***************************************************************************)

\* No call of a client is between its statements without both databases: main closes
\* them only after the last call has ended, and opens both before the first is taken.
CallsHaveDatabases ==
  \A c \in Clients : at[c] \in InFlight => postgres = "open" /\ mongo = "open"

\* A process that was told to stop ends, unless a statement hangs or somebody watches the
\* health service: GracefulStop has no timeout, though main makes one for it, and neither
\* have the statements.
ShutdownCompletes ==
  main = "signalled" ~> main = "down" \/ \E c \in Clients : at[c] \in {"hung", "watching"}

\* A call that was taken ends, or hangs.
CallsEnd == \A c \in Clients : at[c] \in InFlight ~> at[c] \in {"idle", "hung"}
=============================================================================
