------------------------------ MODULE Accounts ------------------------------
(***************************************************************************)
(* What the user service promises about accounts, when every request takes *)
(* effect at once: an operation changes the aspect of the account it is    *)
(* about and nothing else, a deleted account stays as it is, administrators*)
(* are not banned, and a ban holds until someone lifts it or it runs out.  *)
(* UserService, serving one request at a time, implements this.            *)
(***************************************************************************)
EXTENDS Integers, Sequences

CONSTANTS
  NULL, UserIds, AdminRoles,
  Blank,            \* no password
  ProfileRequests   \* what can be asked of a profile: an email, a name, a password

VARIABLES
  account,    \* NULL, or [open, email, name, password, role, ban, sub]
  decisions,  \* who was banned and unbanned, in order
  now

vars == <<account, decisions, now>>

Aspects == {"open", "email", "name", "password", "role", "ban", "sub"}

Open(id) == account[id] # NULL /\ account[id].open

Expired(ban) == ban.until # NULL /\ now > ban.until

Init ==
  /\ \A id \in UserIds : account[id] # NULL =>
       account[id].open /\ account[id].ban = NULL /\ account[id].sub = NULL
  /\ decisions = <<>>
  /\ now = 0

\* An open account changes, in these aspects only.
Edit(id, aspects) ==
  /\ Open(id)
  /\ account'[id] # NULL
  /\ \A a \in Aspects \ aspects : account'[id][a] = account[id][a]
  /\ \A other \in UserIds \ {id} : account'[other] = account[other]
  /\ UNCHANGED now

Decide(id, action) ==
  decisions' = Append(decisions, [user |-> id, action |-> action])

Create(id) ==
  /\ account[id] = NULL /\ account'[id] # NULL
  /\ account'[id].open /\ account'[id].role = "USER"
  /\ account'[id].ban = NULL /\ account'[id].sub = NULL
  /\ \A other \in UserIds \ {id} : account'[other] = account[other]
  /\ UNCHANGED <<decisions, now>>

\* What was asked for, or what there was.
Asked(new, old) == IF new # NULL THEN new ELSE old

\* The profile becomes what the request asks for, and stays as it is in the rest.  (A
\* password may be refused; its hash is not told here.)
EditProfile(id) ==
  /\ Edit(id, {"email", "name", "password"})
  /\ \E request \in ProfileRequests :
       /\ account'[id].email = Asked(request.email, account[id].email)
       /\ account'[id].name = Asked(request.name, account[id].name)
       /\ request.password = Blank => account'[id].password = account[id].password
  /\ UNCHANGED decisions

ChangePassword(id) ==
  /\ Edit(id, {"password"})
  /\ UNCHANGED decisions

Subscribe(id) ==
  /\ Edit(id, {"sub"})
  /\ account'[id].sub # NULL
  /\ UNCHANGED decisions

Delete(id) ==
  /\ Edit(id, {"open"})
  /\ ~ account'[id].open
  /\ UNCHANGED decisions

Ban(id) ==
  /\ Open(id)
  /\ account[id].role \notin AdminRoles
  /\ Edit(id, {"ban"})
  /\ account'[id].ban # NULL
  /\ Decide(id, "ban")

Unban(id) ==
  /\ Open(id)
  /\ account[id].ban # NULL
  /\ Edit(id, {"ban"})
  /\ account'[id].ban = NULL
  /\ Decide(id, "unban")

\* A ban that ran out may be forgotten without a decision.
Forget(id) ==
  /\ Open(id)
  /\ account[id].ban # NULL
  /\ Expired(account[id].ban)
  /\ Edit(id, {"ban"})
  /\ account'[id].ban = NULL
  /\ UNCHANGED decisions

Tick == now' = now + 1 /\ UNCHANGED <<account, decisions>>

Next ==
  \/ Tick
  \/ \E id \in UserIds :
       \/ Create(id) \/ EditProfile(id) \/ ChangePassword(id) \/ Subscribe(id) \/ Delete(id)
       \/ Ban(id) \/ Unban(id) \/ Forget(id)

Spec == Init /\ [][Next]_vars
=============================================================================
