----------------------------- MODULE MCUserRaces ------------------------------
(* A small instance of UserRaces for TLC. *)
EXTENDS UserRaces, MCUserService

\* The RPCs that change rows of the table users, or documents of user_metadata.
RaceOps == {"UpdateUser", "DeleteUser", "Authenticate", "BanUser", "UnbanUser",
            "UpdateSubscription", "CancelSubscription"}

\* A new password and a role; the administrator's email, which only its owner can be
\* given; a free email, with one key of the metadata; the other key.
RaceUpdates ==
  {[Nothing EXCEPT !.password = <<"plain", s2>>, !.role = "ADMIN"],
   [Nothing EXCEPT !.email = e2],
   [Nothing EXCEPT !.email = e3, !.metadata = [NoMetadata EXCEPT !["lang"] = v1]],
   [Nothing EXCEPT !.metadata = [NoMetadata EXCEPT !["zone"] = v1]]}

ProcSymmetry == Permutations(Procs)
=============================================================================
