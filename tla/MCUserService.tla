--------------------------- MODULE MCUserService ----------------------------
(* Small instances of UserService for TLC. *)
EXTENDS UserService, TLC

CONSTANTS u1, u2, u3, e1, e2, e3, n1, n2, n3, s1, s2, v1, p1, p2

\* Two accounts: an ordinary user and an administrator; u3 is free.
MCSeed ==
  (u1 :> [email |-> e1, name |-> n1, secret |-> s1, role |-> "USER"]) @@
  (u2 :> [email |-> e2, name |-> n2, secret |-> s1, role |-> "ADMIN"])

MCOneSeed == u1 :> MCSeed[u1]

New(email, name) ==
  [email |-> email, name |-> name, password |-> <<"plain", s1>>,
   role |-> "ADMIN", metadata |-> NoMetadata]

\* A new user, and one whose email u1 has, or had before it was deleted.
MCNewUsers == {New(e3, n3), New(e1, n3)}

Nothing == [email |-> NULL, name |-> NULL, password |-> Blank,
            role |-> "UNSPECIFIED", metadata |-> NoMetadata]

\* A new plain password and a role; a hashed password; the administrator's email,
\* which only its owner can be given; one key of the metadata.
MCUpdateRequests ==
  {[Nothing EXCEPT !.password = <<"plain", s2>>, !.role = "ADMIN"],
   [Nothing EXCEPT !.password = <<"hash", s2>>],
   [Nothing EXCEPT !.email = e2]} \union
  {[Nothing EXCEPT !.metadata = [NoMetadata EXCEPT ![k] = v1]] : k \in MetaKeys}

MCSubscriptions == {[status |-> "ACTIVE", level |-> "PRO", end |-> NULL]}

MCBanEnds == {NULL, 0}
=============================================================================
