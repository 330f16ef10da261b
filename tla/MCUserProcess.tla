--------------------------- MODULE MCUserProcess ----------------------------
(* A small instance of UserProcess for TLC. *)
EXTENDS UserProcess, TLC

CONSTANTS u1, u2, u3, e1, e2, e3, n1, n2, s1

New(email, role) == [email |-> email, name |-> n1, secret |-> s1, role |-> role]

MCSeed == (u1 :> New(e1, "USER")) @@ (u2 :> New(e2, "USER"))

MCSeedTimes == (u1 :> 0) @@ (u2 :> 1)

MCNewRows == {New(e3, "USER")}

\* What the full-row UPDATE writes of a user that is there from the start and of one that is
\* not: a copy that knows of no ban and no subscription, as it is, renamed, or deleted.
MCCopies ==
  LET copy(id, email) == NewUser(id, New(email, "USER"))
  IN UNION {{u, [u EXCEPT !.name = n2], [u EXCEPT !.status = "DELETED"]} :
              u \in {copy(u1, e1), copy(u3, e3)}}

MCSubscriptions == {[status |-> "ACTIVE", level |-> "PRO", end |-> NULL]}

Every(first, size) ==
  [page |-> first, page_size |-> size, search |-> "", status |-> 0, role |-> 0,
   is_banned |-> FALSE, subscription_status |-> 0, subscription_level |-> 0]

\* Page sizes below, above and in the range, page 0, page 2, and a filter: active
\* users of one name.
MCRequests ==
  {Every(1, 0), Every(0, 3), Every(1, 2), Every(2, 1),
   [Every(1, 1) EXCEPT !.search = n1, !.status = 1, !.role = 1]}
=============================================================================
