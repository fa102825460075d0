------------------------------ MODULE Accounts ------------------------------
(***************************************************************************)
(* Accounts, refresh tokens, mailed one-time tokens, roles and bans: the   *)
(* account service (internal/account), the handlers of internal/api that   *)
(* call it, the automatic ban of internal/persist, and the statements and  *)
(* transactions of internal/store they run.                                *)
(*                                                                         *)
(* A request is a sequence of calls of the store.  Each call is one step:  *)
(* requests interleave between their calls, and any call may fail, which   *)
(* ends the request where it stands.  Two calls are longer than a step:    *)
(* the rotation of a refresh token, a transaction that first revokes the   *)
(* old row and then inserts the new one, and the UPDATE that revokes many  *)
(* rows.  With SQLite the pool has one connection (OneConnection) and they *)
(* exclude every other call; with PostgreSQL they run at READ COMMITTED:   *)
(* an UPDATE takes the rows of its snapshot, waits for those another       *)
(* transaction has locked, and never sees rows inserted meanwhile.         *)
(*                                                                         *)
(* A token stands for its secret and its hash; an account for its name.    *)
(* Names, addresses and passwords are not spelled out: every account has   *)
(* an address of its own or none, and "password" counts the changes.       *)
(***************************************************************************)
EXTENDS Integers, FiniteSets

CONSTANTS
    Account,        \* the user names
    NoAccount,      \* the id 0: no account, and the author of automatic bans
    Admin,          \* ARENA_ADMIN_USERNAME, promoted at the start
    Request,        \* handlers of HTTP requests that run at the same time
    Persister,      \* the goroutine of internal/persist
    OneConnection,  \* TRUE for SQLite, FALSE for PostgreSQL
    RefreshTTL, MailTTL, AccessTTL, BanTTL,
    BanThreshold,   \* anti-cheat events that lead to a ban
    Scenario,       \* bound of the model: endpoints used together, accounts known at the start
    MaxRows,        \* bound of the model: rows inserted into all tables together
    MaxNow          \* bound of the model: the last time

ASSUME AccountsAssumption ==
    /\ NoAccount \notin Account /\ Admin \in Account
    /\ Persister \notin Request
    /\ OneConnection \in BOOLEAN
    /\ {RefreshTTL, MailTTL, AccessTTL, BanTTL} \subseteq Nat
    /\ {BanThreshold, MaxRows, MaxNow} \subseteq Nat

VARIABLES
    now,        \* the clock of the service
    accounts,   \* table accounts, indexed by name
    refresh,    \* table refresh_tokens
    issued,     \* refresh tokens inserted so far: the last id
    mail,       \* table account_tokens
    bans,       \* table bans
    cheats,     \* table anticheat_stats, summed over the kinds
    access,     \* until when an account holds a signed access token; -1: none yet
    req,        \* the requests in progress
    offered,    \* the endpoints this behaviour uses
    condemned   \* history: families that were revoked as a whole, successfully

vars == <<now, accounts, refresh, issued, mail, bans, cheats, access, req, offered, condemned>>

Process == Request \union {Persister}
Kind == {"verify_email", "password_reset"}
Role == {"user", "moderator", "admin"}
RoleRank == [role \in Role |-> CASE role = "admin" -> 2 [] role = "moderator" -> 1 [] OTHER -> 0]

(* What a request does, the call it has reached, and its local variables:  *)
(* the account it is about, the acting moderator and the rank that was     *)
(* read for him, the row and the family of the token presented, and the    *)
(* rows an UPDATE has found, with their families.                          *)
Op == {"login", "refresh", "logout", "verify", "reset", "ban", "unban", "role"}
Call == {"idle", "send", "issue", "rotate", "insert", "revoke", "revoking",
         "verified", "password", "target", "ban", "unban", "role", "check"}
Started(op, at) ==
    [op |-> op, at |-> at, account |-> NoAccount, actor |-> NoAccount,
     rank |-> 0, row |-> 0, family |-> 0, rows |-> {}, families |-> {}]
Idle == Started("login", "idle")
Progress ==
    [op : Op, at : Call, account : Account \union {NoAccount},
     actor : Account \union {NoAccount}, rank : 0 .. 2, row : Nat, family : Nat,
     rows : SUBSET Nat, families : SUBSET Nat]

At(p, call) == req[p].at = call
Goto(p, call) == req' = [req EXCEPT ![p].at = call]
Begin(p, r) == req' = [req EXCEPT ![p] = r]
Return(p) == req' = [req EXCEPT ![p] = Idle]

(* Whether p may run a call now.  A transaction keeps the only connection  *)
(* of SQLite from its first statement to its commit.                       *)
InTransaction(p) == req[p].at \in {"insert", "revoking"}
BadConnected(p) == TRUE   \* mutant: the pool of SQLite is not limited to one connection
Connected(p) == OneConnection => \A q \in Process \ {p} : ~InTransaction(q)

-----------------------------------------------------------------------------
(* Tables. *)

RefreshRow == [id : Nat, account : Account, family : Nat, expires : Nat, revoked : BOOLEAN]
MailRow == [id : Nat, account : Account, kind : Kind, expires : Nat, used : BOOLEAN]
BanRow == [id : Nat, account : Account, by : Account \union {NoAccount},
           forever : BOOLEAN, expires : Nat, lifted : BOOLEAN]
AccountRow == [registered : BOOLEAN, email : BOOLEAN, verified : BOOLEAN,
               password : Nat, role : Role]

RoomForRow == issued + Cardinality(mail) + Cardinality(bans) < MaxRows

Live(row) == ~row.revoked
RowsWithId(id) == {row \in refresh : row.id = id}
Revoked(rows, ids) ==
    {IF row.id \in ids THEN [row EXCEPT !.revoked = TRUE] ELSE row : row \in rows}

(* The row a rotation in progress has updated and not yet committed. *)
LockedBy(p) == IF At(p, "insert") THEN {req[p].row} ELSE {}
LockedByOthers(p) == UNION {LockedBy(q) : q \in Process \ {p}}

(* INSERT INTO refresh_tokens, for a login (a family of its own) or for a  *)
(* rotation. *)
NewToken(account, family) ==
    [id |-> issued + 1, account |-> account, family |-> family,
     expires |-> now + RefreshTTL, revoked |-> FALSE]

(* mutant: the kind of the token is not one of the two *)
BadAddMail(account, kind) ==
    /\ RoomForRow
    /\ mail' = mail \union {[id |-> Cardinality(mail) + 1, account |-> account,
                             kind |-> "refresh", expires |-> now + MailTTL, used |-> FALSE]}

AddMail(account, kind) ==
    /\ RoomForRow
    /\ mail' = mail \union {[id |-> Cardinality(mail) + 1, account |-> account,
                             kind |-> kind, expires |-> now + MailTTL, used |-> FALSE]}

(* mutant: a spent token can be spent again until it expires *)
BadSpendable(row, kind) == row.kind = kind /\ ~(now > row.expires)

(* ConsumeAccountToken: the transaction ends in an UPDATE that counts only *)
(* if the token is still unused. *)
Spendable(row, kind) == row.kind = kind /\ ~row.used /\ ~(now > row.expires)
Consume(row, kind) ==
    /\ Spendable(row, kind)
    /\ mail' = (mail \ {row}) \union {[row EXCEPT !.used = TRUE]}

ActiveBan(account) ==
    \E b \in bans : b.account = account /\ ~b.lifted /\ (b.forever \/ b.expires > now)

Sign(account) == access' = [access EXCEPT ![account] = now + AccessTTL]

-----------------------------------------------------------------------------
(* Registration and login. *)

CreateAccount(a, email) ==
    /\ ~accounts[a].registered   \* the unique indexes
    /\ accounts' = [accounts EXCEPT ![a] =
           [registered |-> TRUE, email |-> email, verified |-> FALSE,
            password |-> 0, role |-> "user"]]

(* Register up to CreateAccount. *)
Register(p, a, email) ==
    /\ At(p, "idle") /\ Connected(p) /\ "register" \in offered
    /\ CreateAccount(a, email)
    /\ Begin(p, [Started("login", IF email THEN "send" ELSE "issue") EXCEPT !.account = a])
    /\ UNCHANGED <<offered, now, refresh, issued, mail, bans, cheats, access, condemned>>

SendVerification(p) ==
    /\ At(p, "send") /\ Connected(p)
    /\ AddMail(req[p].account, "verify_email")
    /\ Goto(p, "issue")
    /\ UNCHANGED <<offered, now, accounts, refresh, issued, bans, cheats, access, condemned>>

(* Login with the right password; a wrong one changes nothing. *)
Login(p, a) ==
    /\ At(p, "idle") /\ Connected(p) /\ "login" \in offered
    /\ accounts[a].registered
    /\ Begin(p, [Started("login", "issue") EXCEPT !.account = a])
    /\ UNCHANGED <<offered, now, accounts, refresh, issued, mail, bans, cheats, access, condemned>>

IssueLogin(p) ==
    /\ At(p, "issue") /\ Connected(p)
    /\ RoomForRow
    /\ refresh' = refresh \union {NewToken(req[p].account, issued + 1)}
    /\ issued' = issued + 1
    /\ Sign(req[p].account)
    /\ Return(p)
    /\ UNCHANGED <<offered, now, accounts, mail, bans, cheats, condemned>>

-----------------------------------------------------------------------------
(* Refresh and logout. *)

(* Refresh up to the rotation: a revoked token condemns its family, an     *)
(* expired one is refused. *)
Refresh(p, row) ==
    /\ At(p, "idle") /\ Connected(p) /\ "refresh" \in offered
    /\ \/ row.revoked /\ Begin(p, [Started("refresh", "revoke") EXCEPT
                                     !.family = row.family, !.account = row.account])
       \/ Live(row) /\ ~(now > row.expires)
          /\ Begin(p, [Started("refresh", "rotate") EXCEPT
                         !.row = row.id, !.family = row.family, !.account = row.account])
    /\ UNCHANGED <<offered, now, accounts, refresh, issued, mail, bans, cheats, access, condemned>>

Logout(p, row) ==
    /\ At(p, "idle") /\ Connected(p) /\ "logout" \in offered
    /\ Begin(p, [Started("logout", "revoke") EXCEPT
                   !.family = row.family, !.account = row.account])
    /\ UNCHANGED <<offered, now, accounts, refresh, issued, mail, bans, cheats, access, condemned>>

(* RotateRefreshToken, the UPDATE of the old row: it waits for a lock and  *)
(* then counts only if the row is still there and not revoked. *)
Rotate(p) ==
    /\ At(p, "rotate") /\ Connected(p)
    /\ req[p].row \notin LockedByOthers(p)
    /\ IF \E row \in RowsWithId(req[p].row) : Live(row)
         THEN Goto(p, "insert")
         ELSE Goto(p, "revoke")
    /\ UNCHANGED <<offered, now, accounts, refresh, issued, mail, bans, cheats, access, condemned>>

Expired(p) == {row \in refresh : row.account = req[p].account /\ row.expires < now}
BadRotateInsert(p) ==   \* mutant: the old row stays valid
    /\ At(p, "insert") /\ Connected(p)
    /\ RoomForRow
    /\ refresh' = refresh \union {NewToken(req[p].account, req[p].family)}
    /\ issued' = issued + 1
    /\ Sign(req[p].account)
    /\ Return(p)
    /\ UNCHANGED <<offered, now, accounts, mail, bans, cheats, condemned>>

(* RotateRefreshToken, the INSERT, the removal of expired rows and the     *)
(* commit, with which the revocation becomes visible too. *)
RotateInsert(p) ==
    /\ At(p, "insert") /\ Connected(p)
    /\ RoomForRow
    /\ \A row \in Expired(p) : row.id \notin LockedByOthers(p)
    /\ refresh' = Revoked(refresh \ Expired(p), {req[p].row})
                    \union {NewToken(req[p].account, req[p].family)}
    /\ issued' = issued + 1
    /\ Sign(req[p].account)
    /\ Return(p)
    /\ UNCHANGED <<offered, now, accounts, mail, bans, cheats, condemned>>

(* RevokeRefreshFamily and RevokeAllRefreshTokens: one UPDATE over a       *)
(* family, after a logout or a reuse, or over an account, after a reset of *)
(* the password or a ban. *)
InScope(p, row) ==
    IF req[p].op \in {"refresh", "logout"} THEN row.family = req[p].family
                                           ELSE row.account = req[p].account
Scope(p) == {row \in refresh : InScope(p, row)}

Revoke(p) ==
    /\ At(p, "revoke") /\ Connected(p)
    /\ req' = [req EXCEPT ![p].at = "revoking",
                          ![p].rows = {row.id : row \in {r \in Scope(p) : Live(r)}},
                          ![p].families = {row.family : row \in Scope(p)}]
    /\ UNCHANGED <<offered, now, accounts, refresh, issued, mail, bans, cheats, access, condemned>>

RevokeDone(p) ==
    /\ At(p, "revoking") /\ Connected(p)
    /\ req[p].rows \intersect LockedByOthers(p) = {}
    /\ refresh' = Revoked(refresh, req[p].rows)
    /\ condemned' = condemned \union req[p].families
    /\ Return(p)
    /\ UNCHANGED <<offered, now, accounts, issued, mail, bans, cheats, access>>

-----------------------------------------------------------------------------
(* Mailed tokens: confirming an address, resetting a password. *)

VerifyEmail(p, row) ==
    /\ At(p, "idle") /\ Connected(p) /\ "verify" \in offered
    /\ Consume(row, "verify_email")
    /\ Begin(p, [Started("verify", "verified") EXCEPT !.account = row.account])
    /\ UNCHANGED <<offered, now, accounts, refresh, issued, bans, cheats, access, condemned>>

SetEmailVerified(p) ==
    /\ At(p, "verified") /\ Connected(p)
    /\ accounts' = [accounts EXCEPT ![req[p].account].verified = TRUE]
    /\ Return(p)
    /\ UNCHANGED <<offered, now, refresh, issued, mail, bans, cheats, access, condemned>>

(* RequestPasswordReset for an address that belongs to an account; for any *)
(* other it does nothing and says the same. *)
RequestPasswordReset(p, a) ==
    /\ At(p, "idle") /\ Connected(p) /\ "forgot" \in offered
    /\ accounts[a].registered /\ accounts[a].email
    /\ AddMail(a, "password_reset")
    /\ UNCHANGED <<offered, now, accounts, refresh, issued, bans, cheats, access, req, condemned>>

(* ResetPassword, with a password that passes the validation: spend the    *)
(* token, change the password, revoke every session. *)
ResetPassword(p, row) ==
    /\ At(p, "idle") /\ Connected(p) /\ "reset" \in offered
    /\ Consume(row, "password_reset")
    /\ Begin(p, [Started("reset", "password") EXCEPT !.account = row.account])
    /\ UNCHANGED <<offered, now, accounts, refresh, issued, bans, cheats, access, condemned>>

UpdatePassword(p) ==
    /\ At(p, "password") /\ Connected(p)
    /\ accounts' = [accounts EXCEPT ![req[p].account].password = @ + 1]
    /\ Goto(p, "revoke")
    /\ UNCHANGED <<offered, now, refresh, issued, mail, bans, cheats, access, condemned>>

-----------------------------------------------------------------------------
(* Moderation. *)

(* requireRole: a signed access token that has not expired, then the role  *)
(* as it is in the table, then the ban. *)
Authorised(actor, role) ==
    /\ access[actor] >= now
    /\ RoleRank[accounts[actor].role] >= RoleRank[role]
    /\ ~ActiveBan(actor)

Moderate(p, actor, target, op) ==
    /\ At(p, "idle") /\ Connected(p) /\ op \in offered
    /\ accounts[actor].registered
    /\ Authorised(actor, IF op = "role" THEN "admin" ELSE "moderator")
    /\ op # "unban" => target # actor
    /\ Begin(p, [Started(op, IF op = "unban" THEN "unban" ELSE "target") EXCEPT
                   !.account = target, !.actor = actor, !.rank = RoleRank[accounts[actor].role]])
    /\ UNCHANGED <<offered, now, accounts, refresh, issued, mail, bans, cheats, access, condemned>>

(* modBan and modRole look the target up; a moderator bans only those      *)
(* below the rank read for him. *)
Target(p) ==
    /\ At(p, "target") /\ Connected(p)
    /\ LET target == accounts[req[p].account] IN
         IF target.registered /\ (req[p].op = "ban" => RoleRank[target.role] < req[p].rank)
           THEN Goto(p, req[p].op)
           ELSE Return(p)
    /\ UNCHANGED <<offered, now, accounts, refresh, issued, mail, bans, cheats, access, condemned>>

(* BanAccount, by a moderator or by the persister, then the revocation. *)
BanAccount(p, forever) ==
    /\ At(p, "ban") /\ Connected(p)
    /\ RoomForRow
    /\ bans' = bans \union {[id |-> Cardinality(bans) + 1, account |-> req[p].account,
                             by |-> req[p].actor, forever |-> forever,
                             expires |-> IF forever THEN 0 ELSE now + BanTTL, lifted |-> FALSE]}
    /\ Goto(p, "revoke")
    /\ UNCHANGED <<offered, now, accounts, refresh, issued, mail, cheats, access, condemned>>

LiftBans(p) ==
    /\ At(p, "unban") /\ Connected(p)
    /\ bans' = {IF b.account = req[p].account THEN [b EXCEPT !.lifted = TRUE] ELSE b : b \in bans}
    /\ Return(p)
    /\ UNCHANGED <<offered, now, accounts, refresh, issued, mail, cheats, access, condemned>>

SetRole(p, role) ==
    /\ At(p, "role") /\ Connected(p)
    /\ accounts' = [accounts EXCEPT ![req[p].account].role = role]
    /\ Return(p)
    /\ UNCHANGED <<offered, now, refresh, issued, mail, bans, cheats, access, condemned>>

AddAntiCheat(a) ==
    /\ cheats[a] < BanThreshold + 1   \* bound of the model
    /\ cheats' = [cheats EXCEPT ![a] = @ + 1]

(* recordAntiCheat: AddAntiCheat returns the new total, and at the         *)
(* threshold autoBan looks for a ban that is active and then bans. *)
RecordAntiCheat(a) ==
    /\ At(Persister, "idle") /\ Connected(Persister) /\ "cheat" \in offered
    /\ accounts[a].registered
    /\ AddAntiCheat(a)
    /\ IF BanThreshold > 0 /\ cheats[a] + 1 >= BanThreshold
         THEN Begin(Persister, [Started("ban", "check") EXCEPT !.account = a])
         ELSE UNCHANGED req
    /\ UNCHANGED <<offered, now, accounts, refresh, issued, mail, bans, access, condemned>>

(* mutant: the ban is inserted without a look at the active ones *)
BadCheckBan ==
    /\ At(Persister, "check") /\ Connected(Persister)
    /\ Goto(Persister, "ban")
    /\ UNCHANGED <<offered, now, accounts, refresh, issued, mail, bans, cheats, access, condemned>>

CheckBan ==
    /\ At(Persister, "check") /\ Connected(Persister)
    /\ IF ActiveBan(req[Persister].account) THEN Return(Persister) ELSE Goto(Persister, "ban")
    /\ UNCHANGED <<offered, now, accounts, refresh, issued, mail, bans, cheats, access, condemned>>

-----------------------------------------------------------------------------
(* A call of the store fails, the context of the request is cancelled or   *)
(* the server stops: a transaction rolls back, what was committed stays. *)
Fail(p) ==
    /\ ~At(p, "idle")
    /\ Return(p)
    /\ UNCHANGED <<offered, now, accounts, refresh, issued, mail, bans, cheats, access, condemned>>

Tick ==
    /\ now < MaxNow
    /\ now' = now + 1
    /\ UNCHANGED <<offered, accounts, refresh, issued, mail, bans, cheats, access, req, condemned>>

Init ==
    /\ now = 0
    /\ \E s \in Scenario :
        /\ offered = s.endpoints
        /\ accounts = [a \in Account |->
                         [registered |-> a \in s.known, email |-> a \in s.known,
                          verified |-> FALSE, password |-> 0,
                          role |-> IF a \in s.known /\ a = Admin THEN "admin" ELSE "user"]]
    /\ refresh = {} /\ issued = 0 /\ mail = {} /\ bans = {}
    /\ cheats = [a \in Account |-> 0]
    /\ access = [a \in Account |-> -1]
    /\ req = [p \in Process |-> Idle]
    /\ condemned = {}

Next ==
    \/ \E p \in Request :
         \/ \E a \in Account :
              \/ \E email \in BOOLEAN : Register(p, a, email)
              \/ Login(p, a)
              \/ RequestPasswordReset(p, a)
         \/ SendVerification(p)
         \/ IssueLogin(p)
         \/ \E row \in refresh : Refresh(p, row) \/ Logout(p, row)
         \/ Rotate(p)
         \/ RotateInsert(p)
         \/ \E row \in mail : VerifyEmail(p, row) \/ ResetPassword(p, row)
         \/ SetEmailVerified(p)
         \/ UpdatePassword(p)
         \/ \E actor, target \in Account, op \in {"ban", "unban", "role"} :
              Moderate(p, actor, target, op)
         \/ Target(p)
         \/ LiftBans(p)
         \/ \E role \in Role : SetRole(p, role)
    \/ \E p \in Process :
         \/ \E forever \in BOOLEAN : BanAccount(p, forever)
         \/ Revoke(p)
         \/ RevokeDone(p)
         \/ Fail(p)
    \/ \E a \in Account : RecordAntiCheat(a)
    \/ CheckBan
    \/ Tick

Spec == Init /\ [][Next]_vars

-----------------------------------------------------------------------------
(* Every table holds rows of its shape and every request stands at a call  *)
(* it may reach, through failures and roll-backs at every call. *)
TypeOK ==
    /\ now \in Nat /\ issued \in Nat
    /\ accounts \in [Account -> AccountRow]
    /\ refresh \subseteq RefreshRow /\ mail \subseteq MailRow /\ bans \subseteq BanRow
    /\ cheats \in [Account -> Nat] /\ access \in [Account -> Nat \union {-1}]
    /\ condemned \subseteq Nat
    /\ req \in [Process -> Progress]

(* A login has one successor at most: however refreshes, logouts, resets   *)
(* and bans interleave, a family never has two tokens that could both be   *)
(* refreshed.  A second one would let a stolen token live beside the       *)
(* rightful one without the reuse being noticed (RotateRefreshToken's      *)
(* conditional UPDATE). *)
OneLivePerFamily ==
    \A r, s \in refresh : Live(r) /\ Live(s) /\ r.family = s.family => r = s

(* Once a logout, a reuse of a revoked token, a reset of the password or a *)
(* ban has reported success, no session it was to end comes back, not even *)
(* through a refresh that had begun before it. *)
CondemnedStaysDead ==
    \A row \in refresh : row.family \in condemned => ~Live(row)

(* A password changes at most once for each reset token that was mailed    *)
(* and spent, and an address counts as confirmed only through a token sent *)
(* to confirm it: no token is spent twice or for the other purpose. *)
Spent(a, kind) == {row \in mail : row.account = a /\ row.kind = kind /\ row.used}
MailSpentOnce ==
    \A a \in Account :
       /\ accounts[a].password <= Cardinality(Spent(a, "password_reset"))
       /\ accounts[a].verified => Spent(a, "verify_email") # {}

(* However many violations are reported and whatever moderators do         *)
(* meanwhile, an account is never under two automatic bans at once         *)
(* (autoBan: check, then insert). *)
OneSystemBan ==
    \A b, c \in bans :
       /\ b.account = c.account /\ b.by = NoAccount /\ c.by = NoAccount
       /\ ~b.lifted /\ ~c.lifted /\ (b.forever \/ b.expires > now) /\ (c.forever \/ c.expires > now)
       => b = c

=============================================================================
