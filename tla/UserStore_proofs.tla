--------------------------- MODULE UserStore_proofs ---------------------------
(***************************************************************************)
(* Lemmas about the operators of UserStore: what each statement leaves of  *)
(* a row, and what the methods of a user leave of the user.                *)
(***************************************************************************)
EXTENDS UserStore, TLAPS

LEMMA SaysBannedBoolean ==
  ASSUME NEW ban \in BanInfo \union {NULL}
  PROVE  SaysBanned(ban) \in BOOLEAN
BY DEF SaysBanned, BanInfo

LEMMA ColumnsOfTyped ==
  ASSUME NEW sub \in SubscriptionInfo \union {NULL}
  PROVE  ColumnsOf(sub) \in SubscriptionColumns
BY DEF ColumnsOf, SubscriptionColumns

\* A full-row statement stores the user it is given, and columns that agree.
LEMMA FromDomainRow ==
  ASSUME NEW user \in User
  PROVE  /\ FromDomain(user) \in Row
         /\ FromDomain(user).user = user
         /\ ColumnsAgree(FromDomain(user))
<1>1. SaysBanned(user.ban) \in BOOLEAN /\ ColumnsOf(user.sub) \in SubscriptionColumns
  BY SaysBannedBoolean, ColumnsOfTyped DEF User
<1> QED BY <1>1 DEF FromDomain, Row, ColumnsAgree

\* What Ban leaves of a row.
LEMMA BanRowRow ==
  ASSUME NEW row \in Row, NEW ban \in BanInfo, ban.isBanned
  PROVE  /\ BanRow(row, ban) \in Row
         /\ BanRow(row, ban).user =
              [row.user EXCEPT !.ban = ban, !.status = BanStatus(ban)]
         /\ BanStatus(ban) \in BannedStatuses
         /\ ColumnsAgree(row) => ColumnsAgree(BanRow(row, ban))
<1>1. BanStatus(ban) \in BannedStatuses
  BY DEF BanStatus, BannedStatuses
<1>2. BannedStatuses \subseteq UserStatuses
  BY DEF UserStatuses
<1>3. BanRow(row, ban) \in Row
  BY <1>1, <1>2 DEF BanRow, Row, User
<1>4. BanRow(row, ban).user = [row.user EXCEPT !.ban = ban, !.status = BanStatus(ban)]
  BY DEF BanRow, Row
<1>5. BanRow(row, ban).user.ban = ban /\ BanRow(row, ban).user.sub = row.user.sub
  BY <1>4 DEF Row, User
<1>6. BanRow(row, ban).is_banned = TRUE
      /\ BanRow(row, ban).subscription = row.subscription
  BY DEF BanRow, Row
<1>7. SaysBanned(ban)
  BY StoreAssumption DEF SaysBanned
<1> QED BY <1>1, <1>3, <1>4, <1>5, <1>6, <1>7 DEF ColumnsAgree

\* What Unban leaves of a row.
LEMMA UnbanRowRow ==
  ASSUME NEW row \in Row
  PROVE  /\ UnbanRow(row) \in Row
         /\ UnbanRow(row).user = [row.user EXCEPT !.ban = NULL, !.status = "ACTIVE"]
         /\ ColumnsAgree(row) => ColumnsAgree(UnbanRow(row))
<1>1. UnbanRow(row) \in Row
  BY DEF UnbanRow, Row, User, UserStatuses
<1>2. UnbanRow(row).user = [row.user EXCEPT !.ban = NULL, !.status = "ACTIVE"]
  BY DEF UnbanRow, Row
<1>3. UnbanRow(row).user.ban = NULL /\ UnbanRow(row).user.sub = row.user.sub
  BY <1>2 DEF Row, User
<1>4. UnbanRow(row).is_banned = FALSE /\ UnbanRow(row).subscription = row.subscription
  BY DEF UnbanRow, Row
<1> QED BY <1>1, <1>2, <1>3, <1>4 DEF ColumnsAgree, SaysBanned

\* What UpdateSubscription leaves of a row.
LEMMA SubscriptionRowRow ==
  ASSUME NEW row \in Row, NEW sub \in SubscriptionInfo \union {NULL}
  PROVE  /\ SubscriptionRow(row, sub) \in Row
         /\ SubscriptionRow(row, sub).user = [row.user EXCEPT !.sub = sub]
         /\ ColumnsAgree(row) => ColumnsAgree(SubscriptionRow(row, sub))
<1>1. SubscriptionRow(row, sub) \in Row
  BY ColumnsOfTyped DEF SubscriptionRow, Row, User
<1>2. SubscriptionRow(row, sub).user = [row.user EXCEPT !.sub = sub]
  BY DEF SubscriptionRow, Row
<1>3. /\ SubscriptionRow(row, sub).user.ban = row.user.ban
      /\ SubscriptionRow(row, sub).user.sub = sub
  BY <1>2 DEF Row, User
<1>4. /\ SubscriptionRow(row, sub).is_banned = row.is_banned
      /\ SubscriptionRow(row, sub).subscription = ColumnsOf(sub)
  BY DEF SubscriptionRow, Row
<1> QED BY <1>1, <1>2, <1>3, <1>4 DEF ColumnsAgree

\* IsBanned strikes nothing off a user but an expired ban's flag.
LEMMA StrikeExpiredUser ==
  ASSUME NEW user \in User, NEW now
  PROVE  /\ StrikeExpired(user, now) \in User
         /\ StrikeExpired(user, now).id = user.id
         /\ StrikeExpired(user, now).role = user.role
         /\ StrikeExpired(user, now).status = user.status
         /\ StrikeExpired(user, now).password = user.password
         /\ \/ StrikeExpired(user, now).ban = user.ban
            \/ /\ StrikeExpired(user, now).ban \in BanInfo
               /\ ~ StrikeExpired(user, now).ban.isBanned
               /\ Expired(StrikeExpired(user, now).ban, now)
<1>1. CASE SaysBanned(user.ban) /\ Expired(user.ban, now)
  <2> DEFINE struck == [isBanned |-> FALSE, until |-> user.ban.until]
  <2>1. user.ban \in BanInfo
    BY <1>1 DEF User, SaysBanned
  <2>2. struck \in BanInfo /\ ~ struck.isBanned /\ Expired(struck, now)
    BY <1>1, <2>1 DEF BanInfo, Expired
  <2>3. StrikeExpired(user, now) = [user EXCEPT !.ban = struck]
    BY <1>1 DEF StrikeExpired
  <2> HIDE DEF struck
  <2> QED BY <2>2, <2>3 DEF User
<1>2. CASE ~ (SaysBanned(user.ban) /\ Expired(user.ban, now))
  BY <1>2 DEF StrikeExpired
<1> QED BY <1>1, <1>2
=============================================================================
