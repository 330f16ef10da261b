--------------------------- MODULE AccountVersions ---------------------------
(***************************************************************************)
(* What the user service still promises about accounts when its requests   *)
(* race.  A request that writes a whole row back stores the row as it once *)
(* read it, so an operation may take effect on an earlier version of the   *)
(* account: whatever was done since is undone, but what comes back is one  *)
(* version, changed in one operation's aspects.  Only the profile of an    *)
(* UpdateUser is read once more, before: the email and the name its        *)
(* request leaves out come from a version of their own.                    *)
(* The statements that write single columns take effect on the account as  *)
(* it is, whether or not it was deleted meanwhile.                         *)
(***************************************************************************)
EXTENDS Accounts

VARIABLE versions  \* versions[id]: every account that id has been

versionVars == <<vars, versions>>

\* The account becomes what it once was, except for these aspects.
Restore(id, version, aspects) ==
  /\ account'[id] # NULL
  /\ \A a \in Aspects \ aspects : account'[id][a] = version[a]
  /\ \A other \in UserIds \ {id} : account'[other] = account[other]
  /\ UNCHANGED now

\* The account changes in these aspects only, open or not.
Amend(id, aspects) == account[id] # NULL /\ Restore(id, account[id], aspects)

\* The request was laid over the profile of the version that was seen first.
LateEditProfile(id, version, seen) ==
  /\ Restore(id, version, {"email", "name", "password"})
  /\ \E request \in ProfileRequests :
       /\ account'[id].email = Asked(request.email, seen.email)
       /\ account'[id].name = Asked(request.name, seen.name)
       /\ request.password = Blank => account'[id].password = version.password
  /\ UNCHANGED decisions

LateChangePassword(id, version) ==
  /\ Restore(id, version, {"password"})
  /\ UNCHANGED decisions

LateDelete(id, version) ==
  /\ Restore(id, version, {"open"})
  /\ ~ account'[id].open
  /\ UNCHANGED decisions

\* Only a ban that has run out is forgotten.
LateForget(id, version) ==
  /\ version.ban # NULL /\ Expired(version.ban)
  /\ Restore(id, version, {"ban"})
  /\ account'[id].ban = NULL
  /\ UNCHANGED decisions

LateSubscribe(id) ==
  /\ Amend(id, {"sub"})
  /\ account'[id].sub # NULL
  /\ UNCHANGED decisions

\* A ban or an unban opens an account that was deleted while it was decided.
LateBan(id) ==
  /\ Amend(id, {"ban", "open"})
  /\ account[id].role \notin AdminRoles
  /\ account'[id].open /\ account'[id].ban # NULL
  /\ Decide(id, "ban")

LateUnban(id) ==
  /\ Amend(id, {"ban", "open"})
  /\ account'[id].open /\ account'[id].ban = NULL
  /\ Decide(id, "unban")

Remember ==
  versions' = [id \in UserIds |->
    versions[id] \union (IF account'[id] = NULL THEN {} ELSE {account'[id]})]

VersionInit ==
  /\ Init
  /\ versions = [id \in UserIds |-> IF account[id] = NULL THEN {} ELSE {account[id]}]

LateNext ==
  \/ Tick
  \/ \E id \in UserIds :
       \/ Create(id) \/ LateSubscribe(id) \/ LateBan(id) \/ LateUnban(id)
       \/ \E version \in versions[id] :
            \/ LateDelete(id, version) \/ LateForget(id, version)
            \/ LateChangePassword(id, version)
            \/ \E seen \in versions[id] : LateEditProfile(id, version, seen)

VersionNext == LateNext /\ Remember

VersionSpec == VersionInit /\ [][VersionNext]_versionVars
=============================================================================
