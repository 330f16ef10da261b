------------------------------ MODULE UserRaces -------------------------------
(***************************************************************************)
(* UserService, with two observers of the races between its requests.      *)
(*                                                                         *)
(* A request reads the row or the document of its user, and writes it some *)
(* statements later; UpdateUser reads the row twice, the first time for    *)
(* the email and the name its request leaves out.  Nothing keeps another   *)
(* request from writing there in between: `stale` tells which requests     *)
(* that happened to, since the first read; `versions` keeps every account  *)
(* that was stored.  They say how much of what holds for one request at a  *)
(* time holds for any number: all of it for a request that is not stale,   *)
(* and AccountVersions for one that is.                                    *)
(***************************************************************************)
EXTENDS UserService

VARIABLES
  stale,     \* requests whose user was written since they read it
  versions   \* versions[id]: every account that id has been

raceVars == <<vars, stale, versions>>

\* The calls that write what the request worked out from an earlier read.
RowWrites == {"Update", "Ban", "Unban", "UpdateSubscription"}

\* The calls of UpdateUser between its first read of the row and its second.
Between(p) == op[p] = "UpdateUser" /\ pc[p] \in {"GetMetadata", "FindByID"}

\* p has read what it will write later.
HasRead(p) == pc[p] \in RowWrites \union {"SaveMetadata"} \/ Between(p)

\* What that is.
Target(p) ==
  IF pc[p] = "SaveMetadata" THEN metadata[user[p].id] ELSE users[user[p].id]

\* The accounts the table stands for.
Mapped == [id \in UserIds |-> IF users[id] = NULL THEN NULL ELSE AccountOf(users[id])]

\* p waits, or goes on with what it has read.  (Any other step of p has just read what it
\* will write, or has written it.)
StillHolds(p) == HasRead(p)' /\ (pc'[p] = pc[p] \/ Between(p))

ObserveStale ==
  stale' = {p \in Procs : /\ HasRead(p) /\ StillHolds(p)
                          /\ p \in stale \/ Target(p)' # Target(p)}

ObserveVersions ==
  versions' = [id \in UserIds |->
    versions[id] \union (IF users'[id] = NULL THEN {} ELSE {AccountOf(users'[id])})]

RaceInit ==
  /\ Init
  /\ stale = {}
  /\ versions = [id \in UserIds |-> IF users[id] = NULL THEN {} ELSE {AccountOf(users[id])}]

RaceNext == Next /\ ObserveStale /\ ObserveVersions

RaceSpec == RaceInit /\ [][RaceNext]_raceVars
-----------------------------------------------------------------------------
(***************************************************************************)
(* Properties.                                                             *)
(***************************************************************************)

\* A request that makes its call.
Acts(p) == pc'[p] # pc[p]

\* However many requests race, each one takes effect as Accounts says, except where it
\* writes a row that another has written since it first read it: nothing but that race
\* undoes a ban or a deletion, and a profile changes in what the request asks for only.
AccountsUnlessStale ==
  [][\/ \E p \in stale : pc[p] \in RowWrites /\ Acts(p)
     \/ Abstract!Next
     \/ UNCHANGED Abstract!vars]_raceVars

Versioned == INSTANCE AccountVersions WITH
  account <- Mapped, decisions <- banWrites, ProfileRequests <- UpdateRequests

\* A stale request does no worse than take effect on an earlier version of the account:
\* what UpdateUser, DeleteUser and Authenticate write back is one version as it was
\* stored, but for the email and the name of an UpdateUser, which are those its request
\* asks for or of one version too; the statements of single columns keep all the others.
ImplementsVersions == Versioned!VersionSpec

\* The history of subscriptions is told the level and the status that the change replaces,
\* unless another request has written the row since they were read.
OldSubscriptionTrueUnlessStale ==
  \A p \in Procs \ stale : pc[p] = "UpdateSubscription" =>
    aux[p] = Brief(users[user[p].id].subscription)

\* Metadata that were stored stay as they are, whatever later updates ask for: only an
\* update that found no document, before another stored it, writes over it.
MetadataStayUnlessStale ==
  [][(\E p \in stale : pc[p] = "SaveMetadata" /\ Acts(p)) \/
     \A id \in UserIds : metadata[id] # NULL => metadata'[id] = metadata[id]]_raceVars
=============================================================================
