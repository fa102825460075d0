--------------------------- MODULE AccountsProofs ---------------------------
(***************************************************************************)
(* Proofs about the account service, for every number of accounts,         *)
(* handlers and rows.  The argument, in this order:                        *)
(*   - types, with the account every request in progress is about and the  *)
(*     finiteness of the tables whose rows are numbered by counting;       *)
(*   - Rows: ids are unique, families belong to one account, and the row a *)
(*     rotation has locked stays live until it commits - from which a      *)
(*     family has one live token at most, on either database;              *)
(*   - Dead: with one connection nothing is inserted between the snapshot  *)
(*     of a revocation and its end, so what it condemns stays dead;        *)
(*   - Single: between autoBan's check and its insert only the persister   *)
(*     could have added an automatic ban;                                  *)
(*   - Mailed: every change of a password, made or to come, has a spent    *)
(*     token of its own.                                                   *)
(***************************************************************************)
EXTENDS Accounts, FiniteSetTheorems, TLAPS

(* A request in progress is about an account; a ban in preparation has an  *)
(* author, unless it is the persister's. *)
Placed ==
    \A p \in Process :
       /\ req[p].at # "idle" => req[p].account \in Account
       /\ p \in Request /\ req[p].at \in {"target", "ban"} => req[p].actor \in Account
       /\ req[p].at = "target" => req[p].op \in {"ban", "role"}
       /\ p = Persister => req[p].actor = NoAccount /\ req[p].at # "target"

FiniteTables == IsFiniteSet(mail) /\ IsFiniteSet(bans)

Typed == TypeOK /\ Placed /\ FiniteTables

(* What a step does to the variables, as far as types are concerned: one   *)
(* lemma per table. *)
LEMMA StartedType ==
    ASSUME NEW op \in Op, NEW at \in Call
    PROVE  Started(op, at) \in Progress
BY DEF Started, Progress

(* Moving a request along, finishing it, starting one. *)
LEMMA GotoTyped ==
    ASSUME TypeOK, Placed, NEW p \in Process, NEW call \in Call, Goto(p, call),
           req[p].at # "idle",
           call # "target", p \in Request /\ call = "ban" => req[p].actor \in Account
    PROVE  req' \in [Process -> Progress] /\ Placed'
<1>1. req[p] \in Progress /\ req[p].account \in Account
  BY DEF TypeOK, Placed
<1>2. req' = [req EXCEPT ![p].at = call]
  BY DEF Goto
<1>3. [req[p] EXCEPT !.at = call] \in Progress
  BY <1>1 DEF Progress
<1>4. req' \in [Process -> Progress]
  BY <1>2, <1>3 DEF TypeOK
<1>5. /\ req'[p].account = req[p].account /\ req'[p].actor = req[p].actor /\ req'[p].at = call
      /\ \A q \in Process \ {p} : req'[q] = req[q]
  BY <1>1, <1>2 DEF TypeOK, Progress
<1> QED  BY <1>1, <1>4, <1>5 DEF Placed

LEMMA BeginTyped ==
    ASSUME TypeOK, Placed, NEW p \in Process, NEW r \in Progress, Begin(p, r),
           r.at # "idle" => r.account \in Account,
           p \in Request /\ r.at \in {"target", "ban"} => r.actor \in Account,
           r.at = "target" => r.op \in {"ban", "role"},
           p = Persister => r.actor = NoAccount /\ r.at # "target"
    PROVE  req' \in [Process -> Progress] /\ Placed'
<1>1. req' = [req EXCEPT ![p] = r]
  BY DEF Begin
<1>2. req'[p] = r /\ \A q \in Process \ {p} : req'[q] = req[q]
  BY <1>1 DEF TypeOK
<1> QED  BY <1>1, <1>2 DEF TypeOK, Placed

LEMMA ReturnTyped ==
    ASSUME TypeOK, Placed, NEW p \in Process, Return(p)
    PROVE  req' \in [Process -> Progress] /\ Placed'
<1>1. Idle \in Progress /\ Idle.at = "idle" /\ Idle.actor = NoAccount
  BY StartedType DEF Idle, Started, Op, Call
<1>2. Begin(p, Idle)
  BY DEF Begin, Return
<1> QED  BY <1>1, <1>2, BeginTyped

LEMMA NewTokenType ==
    ASSUME now \in Nat, issued \in Nat, NEW a \in Account, NEW f \in Nat
    PROVE  NewToken(a, f) \in RefreshRow
BY AccountsAssumption DEF NewToken, RefreshRow

LEMMA RevokedType ==
    ASSUME NEW rows \in SUBSET RefreshRow, NEW ids
    PROVE  Revoked(rows, ids) \in SUBSET RefreshRow
BY DEF Revoked, RefreshRow

LEMMA AddMailType ==
    ASSUME TypeOK, FiniteTables, NEW a \in Account, NEW k \in Kind, AddMail(a, k)
    PROVE  mail' \subseteq MailRow /\ IsFiniteSet(mail')
<1>1. Cardinality(mail) + 1 \in Nat
  BY FS_CardinalityType DEF FiniteTables
<1>2. now + MailTTL \in Nat
  BY AccountsAssumption DEF TypeOK
<1> DEFINE row == [id |-> Cardinality(mail) + 1, account |-> a,
                   kind |-> k, expires |-> now + MailTTL, used |-> FALSE]
<1>3. row \in MailRow
  BY <1>1, <1>2 DEF MailRow
<1>4. mail' = mail \union {row}
  BY DEF AddMail
<1> HIDE DEF row
<1> QED  BY <1>3, <1>4, FS_AddElement DEF TypeOK, FiniteTables

LEMMA ConsumeType ==
    ASSUME TypeOK, FiniteTables, NEW row \in mail, NEW k, Consume(row, k)
    PROVE  mail' \subseteq MailRow /\ IsFiniteSet(mail') /\ row.account \in Account
<1>1. row \in MailRow
  BY DEF TypeOK
<1>2. [row EXCEPT !.used = TRUE] \in MailRow /\ row.account \in Account
  BY <1>1 DEF MailRow
<1>3. mail' = (mail \ {row}) \union {[row EXCEPT !.used = TRUE]}
  BY DEF Consume
<1>4. IsFiniteSet(mail \ {row})
  BY FS_RemoveElement DEF FiniteTables
<1> QED  BY <1>2, <1>3, <1>4, FS_AddElement DEF TypeOK

LEMMA LiftType ==
    ASSUME TypeOK, FiniteTables, NEW a,
           bans' = {IF b.account = a THEN [b EXCEPT !.lifted = TRUE] ELSE b : b \in bans}
    PROVE  bans' \subseteq BanRow /\ IsFiniteSet(bans')
<1> DEFINE Lift(b) == IF b.account = a THEN [b EXCEPT !.lifted = TRUE] ELSE b
           f == [b \in bans |-> Lift(b)]
<1>1. \A b \in BanRow : Lift(b) \in BanRow
  BY DEF BanRow
<1>2. bans' = {f[b] : b \in bans}
  OBVIOUS
<1>3. f \in Surjection(bans, bans')
  BY <1>2 DEF Surjection
<1>4. IsFiniteSet(bans')
  BY <1>3, FS_Surjection DEF FiniteTables
<1> QED  BY <1>1, <1>4 DEF TypeOK

LEMMA TypedInit == ASSUME Init PROVE Typed
<1>1. Idle \in Progress /\ Idle.at = "idle" /\ Idle.actor = NoAccount
  BY StartedType DEF Idle, Started, Op, Call
<1>2. req \in [Process -> Progress] /\ Placed
  BY <1>1 DEF Init, Placed
<1>3. accounts \in [Account -> AccountRow]
  <2> SUFFICES ASSUME NEW a \in Account PROVE accounts[a] \in AccountRow
    BY DEF Init
  <2> QED  BY DEF Init, AccountRow, Role
<1>4. FiniteTables
  BY FS_EmptySet DEF Init, FiniteTables
<1> QED  BY <1>2, <1>3, <1>4 DEF Init, Typed, TypeOK

(* A handler's next call: no handler reaches "ban" or "target" but through *)
(* Moderate, which names an actor. *)
LEMMA NextCall ==
    ASSUME Typed, NEW p \in Process, req[p].at # "idle", NEW call \in Call \ {"target", "ban"},
           Goto(p, call)
    PROVE  req' \in [Process -> Progress] /\ Placed'
BY GotoTyped DEF Typed

(* A request a handler begins for an account, except moderation. *)
LEMMA NewRequest ==
    ASSUME Typed, NEW p \in Request, NEW r \in Progress, Begin(p, r),
           r.account \in Account, r.at \notin {"target", "ban"}
    PROVE  req' \in [Process -> Progress] /\ Placed'
BY BeginTyped, AccountsAssumption DEF Typed, Process

LEMMA TypedStep == ASSUME Typed, [Next]_vars PROVE Typed'
<1>1. ASSUME NEW p \in Request, NEW a \in Account, NEW email \in BOOLEAN, Register(p, a, email)
      PROVE  Typed'
  <2> DEFINE r == [Started("login", IF email THEN "send" ELSE "issue") EXCEPT !.account = a]
  <2>1. r \in Progress /\ r.account = a /\ r.at \in {"send", "issue"}
    BY StartedType DEF Started, Progress, Op, Call
  <2>2. Begin(p, r)
    BY <1>1 DEF Register, CreateAccount
  <2> HIDE DEF r
  <2>3. req' \in [Process -> Progress] /\ Placed'
    BY <2>1, <2>2, NewRequest
  <2>4. accounts' \in [Account -> AccountRow]
    BY <1>1 DEF Register, CreateAccount, Typed, TypeOK, AccountRow, Role
  <2> QED  BY <1>1, <2>3, <2>4 DEF Register, CreateAccount, Typed, TypeOK, FiniteTables
<1>2. ASSUME NEW p \in Request, NEW a \in Account, Login(p, a) PROVE Typed'
  <2> DEFINE r == [Started("login", "issue") EXCEPT !.account = a]
  <2>1. r \in Progress /\ r.account = a /\ r.at = "issue"
    BY StartedType DEF Started, Progress, Op, Call
  <2>2. Begin(p, r)
    BY <1>2 DEF Login
  <2> HIDE DEF r
  <2>3. req' \in [Process -> Progress] /\ Placed'
    BY <2>1, <2>2, NewRequest
  <2> QED  BY <1>2, <2>3 DEF Login, Typed, TypeOK, FiniteTables
<1>3. ASSUME NEW p \in Request, NEW a \in Account, RequestPasswordReset(p, a) PROVE Typed'
  <2>1. mail' \subseteq MailRow /\ IsFiniteSet(mail')
    BY <1>3, AddMailType DEF RequestPasswordReset, Typed, Kind
  <2> QED  BY <1>3, <2>1 DEF RequestPasswordReset, Typed, TypeOK, FiniteTables, Placed
<1>4. ASSUME NEW p \in Request, SendVerification(p) PROVE Typed'
  <2>1. req[p].account \in Account /\ p \in Process
    BY <1>4 DEF SendVerification, At, Typed, Placed, Process
  <2>2. mail' \subseteq MailRow /\ IsFiniteSet(mail')
    BY <1>4, <2>1, AddMailType DEF SendVerification, Typed, Kind
  <2>3. req' \in [Process -> Progress] /\ Placed'
    BY <1>4, <2>1, NextCall DEF SendVerification, At, Call
  <2> QED  BY <1>4, <2>2, <2>3 DEF SendVerification, Typed, TypeOK, FiniteTables
<1>5. ASSUME NEW p \in Request, IssueLogin(p) PROVE Typed'
  <2>1. req[p].account \in Account /\ p \in Process
    BY <1>5 DEF IssueLogin, At, Typed, Placed, Process
  <2>2. NewToken(req[p].account, issued + 1) \in RefreshRow
    BY <2>1, NewTokenType DEF Typed, TypeOK
  <2>3. access' \in [Account -> Nat \union {-1}]
    BY <1>5, <2>1, AccountsAssumption DEF IssueLogin, Sign, Typed, TypeOK
  <2>4. req' \in [Process -> Progress] /\ Placed'
    BY <1>5, <2>1, ReturnTyped DEF IssueLogin, Typed
  <2> QED  BY <1>5, <2>2, <2>3, <2>4 DEF IssueLogin, Typed, TypeOK, FiniteTables
<1>6. ASSUME NEW p \in Request, NEW row \in refresh, Refresh(p, row) PROVE Typed'
  <2>1. row.id \in Nat /\ row.family \in Nat /\ row.account \in Account
    BY DEF Typed, TypeOK, RefreshRow
  <2> DEFINE x == Started("refresh", "revoke")
             y == Started("refresh", "rotate")
             r == [x EXCEPT !.family = row.family, !.account = row.account]
             s == [y EXCEPT !.row = row.id, !.family = row.family, !.account = row.account]
  <2>2. r \in Progress /\ r.account \in Account /\ r.at = "revoke"
    <3>1. x \in Progress /\ x.at = "revoke"
      BY StartedType DEF Op, Call, Started
    <3> HIDE DEF x
    <3> QED  BY <2>1, <3>1 DEF Progress
  <2>3. s \in Progress /\ s.account \in Account /\ s.at = "rotate"
    <3>1. y \in Progress /\ y.at = "rotate"
      BY StartedType DEF Op, Call, Started
    <3> HIDE DEF y
    <3> QED  BY <2>1, <3>1 DEF Progress
  <2>4. Begin(p, r) \/ Begin(p, s)
    BY <1>6 DEF Refresh
  <2> HIDE DEF r, s
  <2>5. req' \in [Process -> Progress] /\ Placed'
    BY <2>2, <2>3, <2>4, NewRequest
  <2> QED  BY <1>6, <2>5 DEF Refresh, Typed, TypeOK, FiniteTables
<1>7. ASSUME NEW p \in Request, NEW row \in refresh, Logout(p, row) PROVE Typed'
  <2>1. row.id \in Nat /\ row.family \in Nat /\ row.account \in Account
    BY DEF Typed, TypeOK, RefreshRow
  <2> DEFINE x == Started("logout", "revoke")
             r == [x EXCEPT !.family = row.family, !.account = row.account]
  <2>2. r \in Progress /\ r.account \in Account /\ r.at = "revoke"
    <3>1. x \in Progress /\ x.at = "revoke"
      BY StartedType DEF Op, Call, Started
    <3> HIDE DEF x
    <3> QED  BY <2>1, <3>1 DEF Progress
  <2>3. Begin(p, r)
    BY <1>7 DEF Logout
  <2> HIDE DEF r
  <2>4. req' \in [Process -> Progress] /\ Placed'
    BY <2>2, <2>3, NewRequest
  <2> QED  BY <1>7, <2>4 DEF Logout, Typed, TypeOK, FiniteTables
<1>8. ASSUME NEW p \in Request, Rotate(p) PROVE Typed'
  <2>1. req' \in [Process -> Progress] /\ Placed'
    BY <1>8, NextCall DEF Rotate, At, Call, Process
  <2> QED  BY <1>8, <2>1 DEF Rotate, Typed, TypeOK, FiniteTables
<1>9. ASSUME NEW p \in Request, RotateInsert(p) PROVE Typed'
  <2>1. req[p].account \in Account /\ req[p].family \in Nat /\ p \in Process
    BY <1>9 DEF RotateInsert, At, Typed, Placed, Process, TypeOK, Progress
  <2>2. NewToken(req[p].account, req[p].family) \in RefreshRow
    BY <2>1, NewTokenType DEF Typed, TypeOK
  <2>3. refresh \ Expired(p) \in SUBSET RefreshRow
    BY DEF Typed, TypeOK
  <2>4. Revoked(refresh \ Expired(p), {req[p].row}) \in SUBSET RefreshRow
    BY <2>3, RevokedType
  <2>5. access' \in [Account -> Nat \union {-1}]
    BY <1>9, <2>1, AccountsAssumption DEF RotateInsert, Sign, Typed, TypeOK
  <2>6. req' \in [Process -> Progress] /\ Placed'
    BY <1>9, <2>1, ReturnTyped DEF RotateInsert, Typed
  <2>7. refresh' \subseteq RefreshRow
    BY <1>9, <2>2, <2>4 DEF RotateInsert
  <2>8. issued' \in Nat /\ UNCHANGED <<now, accounts, mail, bans, cheats, condemned>>
    BY <1>9 DEF RotateInsert, Typed, TypeOK
  <2> QED  BY <2>5, <2>6, <2>7, <2>8 DEF Typed, TypeOK, FiniteTables
<1>10. ASSUME NEW p \in Request, NEW row \in mail, VerifyEmail(p, row) PROVE Typed'
  <2>1. mail' \subseteq MailRow /\ IsFiniteSet(mail') /\ row.account \in Account
    BY <1>10, ConsumeType DEF VerifyEmail, Typed
  <2> DEFINE r == [Started("verify", "verified") EXCEPT !.account = row.account]
  <2>2. r \in Progress /\ r.account \in Account /\ r.at = "verified"
    BY <2>1, StartedType DEF Started, Progress, Op, Call
  <2>3. Begin(p, r)
    BY <1>10 DEF VerifyEmail
  <2> HIDE DEF r
  <2>4. req' \in [Process -> Progress] /\ Placed'
    BY <2>2, <2>3, NewRequest
  <2> QED  BY <1>10, <2>1, <2>4 DEF VerifyEmail, Typed, TypeOK, FiniteTables
<1>11. ASSUME NEW p \in Request, NEW row \in mail, ResetPassword(p, row) PROVE Typed'
  <2>1. mail' \subseteq MailRow /\ IsFiniteSet(mail') /\ row.account \in Account
    BY <1>11, ConsumeType DEF ResetPassword, Typed
  <2> DEFINE r == [Started("reset", "password") EXCEPT !.account = row.account]
  <2>2. r \in Progress /\ r.account \in Account /\ r.at = "password"
    BY <2>1, StartedType DEF Started, Progress, Op, Call
  <2>3. Begin(p, r)
    BY <1>11 DEF ResetPassword
  <2> HIDE DEF r
  <2>4. req' \in [Process -> Progress] /\ Placed'
    BY <2>2, <2>3, NewRequest
  <2> QED  BY <1>11, <2>1, <2>4 DEF ResetPassword, Typed, TypeOK, FiniteTables
<1>12. ASSUME NEW p \in Request, SetEmailVerified(p) PROVE Typed'
  <2>1. req' \in [Process -> Progress] /\ Placed'
    BY <1>12, ReturnTyped DEF SetEmailVerified, Typed, Process
  <2>2. accounts' \in [Account -> AccountRow]
    BY <1>12 DEF SetEmailVerified, Typed, TypeOK, AccountRow
  <2> QED  BY <1>12, <2>1, <2>2 DEF SetEmailVerified, Typed, TypeOK, FiniteTables
<1>13. ASSUME NEW p \in Request, UpdatePassword(p) PROVE Typed'
  <2>1. req' \in [Process -> Progress] /\ Placed'
    BY <1>13, NextCall DEF UpdatePassword, At, Call, Process
  <2> DEFINE a == req[p].account
  <2>2. a \in Account
    BY <1>13 DEF UpdatePassword, At, Typed, Placed, Process
  <2>3. accounts[a] \in AccountRow /\ accounts[a].password + 1 \in Nat
    BY <2>2 DEF Typed, TypeOK, AccountRow
  <2>4. [accounts[a] EXCEPT !.password = accounts[a].password + 1] \in AccountRow
    BY <2>3 DEF AccountRow
  <2>5. accounts' = [accounts EXCEPT ![a] =
                       [accounts[a] EXCEPT !.password = accounts[a].password + 1]]
    BY <1>13, <2>2 DEF UpdatePassword, Typed, TypeOK
  <2> HIDE DEF a
  <2>6. accounts' \in [Account -> AccountRow]
    BY <2>2, <2>4, <2>5 DEF Typed, TypeOK
  <2> QED  BY <1>13, <2>1, <2>6 DEF UpdatePassword, Typed, TypeOK, FiniteTables
<1>14. ASSUME NEW p \in Request, NEW actor \in Account, NEW target \in Account,
              NEW op \in {"ban", "unban", "role"}, Moderate(p, actor, target, op)
       PROVE  Typed'
  <2> DEFINE r == [Started(op, IF op = "unban" THEN "unban" ELSE "target") EXCEPT
                     !.account = target, !.actor = actor,
                     !.rank = RoleRank[accounts[actor].role]]
  <2>1. accounts[actor].role \in Role
    BY DEF Typed, TypeOK, AccountRow
  <2>2. RoleRank[accounts[actor].role] \in 0 .. 2
    BY <2>1 DEF RoleRank
  <2>3. r \in Progress /\ r.account \in Account /\ r.actor \in Account
        /\ (r.at = "target" => r.op \in {"ban", "role"})
    <3>1. CASE op = "unban"
      BY <2>2, <3>1 DEF Started, Progress, Op, Call
    <3>2. CASE op \in {"ban", "role"}
      BY <2>2, <3>2 DEF Started, Progress, Op, Call
    <3> QED  BY <3>1, <3>2
  <2>4. Begin(p, r)
    BY <1>14 DEF Moderate
  <2> HIDE DEF r
  <2>5. req' \in [Process -> Progress] /\ Placed'
    BY <2>3, <2>4, BeginTyped, AccountsAssumption DEF Typed, Process
  <2> QED  BY <1>14, <2>5 DEF Moderate, Typed, TypeOK, FiniteTables
<1>15. ASSUME NEW p \in Request, Target(p) PROVE Typed'
  <2>1. p \in Process /\ req[p].at = "target" /\ req[p].actor \in Account /\ p # Persister
        /\ req[p] \in Progress
    BY <1>15, AccountsAssumption DEF Target, At, Typed, Placed, Process, TypeOK
  <2>2. CASE Return(p)
    BY <1>15, <2>1, <2>2, ReturnTyped DEF Target, Typed, TypeOK, FiniteTables
  <2>3. CASE Goto(p, req[p].op)
    <3>1. req[p].op \in Call /\ req[p].op # "target"
      BY <2>1 DEF Call, Typed, Placed
    <3>2. req' \in [Process -> Progress] /\ Placed'
      BY <2>1, <2>3, <3>1, GotoTyped DEF Typed
    <3> QED  BY <1>15, <3>2 DEF Target, Typed, TypeOK, FiniteTables
  <2> QED  BY <1>15, <2>2, <2>3 DEF Target
<1>16. ASSUME NEW p \in Request, LiftBans(p) PROVE Typed'
  <2>1. req' \in [Process -> Progress] /\ Placed'
    BY <1>16, ReturnTyped DEF LiftBans, Typed, Process
  <2>2. bans' \subseteq BanRow /\ IsFiniteSet(bans')
    BY <1>16, LiftType DEF LiftBans, Typed
  <2> QED  BY <1>16, <2>1, <2>2 DEF LiftBans, Typed, TypeOK, FiniteTables
<1>17. ASSUME NEW p \in Request, NEW role \in Role, SetRole(p, role) PROVE Typed'
  <2>1. req' \in [Process -> Progress] /\ Placed'
    BY <1>17, ReturnTyped DEF SetRole, Typed, Process
  <2>2. accounts' \in [Account -> AccountRow]
    BY <1>17 DEF SetRole, Typed, TypeOK, AccountRow
  <2> QED  BY <1>17, <2>1, <2>2 DEF SetRole, Typed, TypeOK, FiniteTables
<1>18. ASSUME NEW p \in Process, NEW forever \in BOOLEAN, BanAccount(p, forever) PROVE Typed'
  <2>1. /\ req[p] \in Progress /\ req[p].account \in Account
        /\ req[p].actor \in Account \union {NoAccount}
    BY <1>18 DEF BanAccount, At, Typed, Placed, TypeOK, Progress
  <2> DEFINE row == [id |-> Cardinality(bans) + 1, account |-> req[p].account,
                     by |-> req[p].actor, forever |-> forever,
                     expires |-> IF forever THEN 0 ELSE now + BanTTL, lifted |-> FALSE]
  <2>2. Cardinality(bans) + 1 \in Nat
    BY FS_CardinalityType DEF Typed, FiniteTables
  <2>3. now + BanTTL \in Nat
    BY AccountsAssumption DEF Typed, TypeOK
  <2>4. row \in BanRow
    BY <2>1, <2>2, <2>3 DEF BanRow
  <2>5. bans' = bans \union {row}
    BY <1>18 DEF BanAccount
  <2> HIDE DEF row
  <2>6. bans' \subseteq BanRow /\ IsFiniteSet(bans')
    BY <2>4, <2>5, FS_AddElement DEF Typed, TypeOK, FiniteTables
  <2>7. req' \in [Process -> Progress] /\ Placed'
    BY <1>18, NextCall DEF BanAccount, At, Call
  <2> QED  BY <1>18, <2>6, <2>7 DEF BanAccount, Typed, TypeOK, FiniteTables
<1>19. ASSUME NEW p \in Process, Revoke(p) PROVE Typed'
  <2> DEFINE ids == {row.id : row \in {r \in Scope(p) : Live(r)}}
             fams == {row.family : row \in Scope(p)}
  <2>1. ids \in SUBSET Nat /\ fams \in SUBSET Nat
    BY DEF Scope, Typed, TypeOK, RefreshRow
  <2>2. req[p] \in Progress
    BY DEF Typed, TypeOK
  <2>3. req' = [req EXCEPT ![p].at = "revoking", ![p].rows = ids, ![p].families = fams]
    BY <1>19 DEF Revoke
  <2> HIDE DEF ids, fams
  <2>4. /\ req'[p] = [req[p] EXCEPT !.at = "revoking", !.rows = ids, !.families = fams]
        /\ \A q \in Process \ {p} : req'[q] = req[q]
        /\ req' = [req EXCEPT ![p] = req'[p]]
    BY <2>3 DEF Typed, TypeOK
  <2>5. /\ req'[p] \in Progress /\ req'[p].account = req[p].account
        /\ req'[p].actor = req[p].actor /\ req'[p].at = "revoking"
    BY <2>1, <2>2, <2>4 DEF Progress, Call
  <2>6. req' \in [Process -> Progress]
    BY <2>4, <2>5 DEF Typed, TypeOK
  <2>7. req[p].account \in Account /\ (p = Persister => req[p].actor = NoAccount)
    BY <1>19 DEF Revoke, At, Typed, Placed
  <2>8. Placed'
    <3> SUFFICES ASSUME NEW q \in Process
                 PROVE  /\ req'[q].at # "idle" => req'[q].account \in Account
                        /\ q \in Request /\ req'[q].at \in {"target", "ban"} =>
                              req'[q].actor \in Account
                        /\ req'[q].at = "target" => req'[q].op \in {"ban", "role"}
                        /\ q = Persister => req'[q].actor = NoAccount /\ req'[q].at # "target"
      BY DEF Placed
    <3>1. CASE q = p
      BY <2>5, <2>7, <3>1
    <3>2. CASE q # p
      BY <2>4, <3>2 DEF Typed, Placed
    <3> QED  BY <3>1, <3>2
  <2> QED  BY <1>19, <2>6, <2>8 DEF Revoke, Typed, TypeOK, FiniteTables
<1>20. ASSUME NEW p \in Process, RevokeDone(p) PROVE Typed'
  <2>1. req' \in [Process -> Progress] /\ Placed'
    BY <1>20, ReturnTyped DEF RevokeDone, Typed
  <2>2. Revoked(refresh, req[p].rows) \in SUBSET RefreshRow
    BY RevokedType DEF Typed, TypeOK
  <2>3. req[p].families \subseteq Nat
    BY DEF Typed, TypeOK, Progress
  <2> QED  BY <1>20, <2>1, <2>2, <2>3 DEF RevokeDone, Typed, TypeOK, FiniteTables
<1>21. ASSUME NEW p \in Process, Fail(p) PROVE Typed'
  BY <1>21, ReturnTyped DEF Fail, Typed, TypeOK, FiniteTables
<1>22. ASSUME NEW a \in Account, RecordAntiCheat(a) PROVE Typed'
  <2> DEFINE r == [Started("ban", "check") EXCEPT !.account = a]
  <2>1. r \in Progress /\ r.account \in Account /\ r.at = "check" /\ r.actor = NoAccount
    BY StartedType DEF Started, Progress, Op, Call
  <2>2. UNCHANGED req \/ Begin(Persister, r)
    BY <1>22 DEF RecordAntiCheat, AddAntiCheat
  <2> HIDE DEF r
  <2>3. req' \in [Process -> Progress] /\ Placed'
    <3>1. CASE UNCHANGED req
      BY <3>1 DEF Typed, TypeOK, Placed
    <3>2. CASE Begin(Persister, r)
      BY <2>1, <3>2, BeginTyped, AccountsAssumption DEF Typed, Process
    <3> QED  BY <2>2, <3>1, <3>2
  <2>4. cheats' \in [Account -> Nat]
    BY <1>22 DEF RecordAntiCheat, AddAntiCheat, Typed, TypeOK
  <2> QED  BY <1>22, <2>3, <2>4 DEF RecordAntiCheat, AddAntiCheat, Typed, TypeOK, FiniteTables
<1>23. ASSUME CheckBan PROVE Typed'
  <2>1. Persister \in Process /\ req[Persister].at = "check" /\ Persister \notin Request
    BY <1>23, AccountsAssumption DEF CheckBan, At, Process
  <2>2. req' \in [Process -> Progress] /\ Placed'
    BY <1>23, <2>1, ReturnTyped, GotoTyped DEF CheckBan, Typed, Call
  <2> QED  BY <1>23, <2>2 DEF CheckBan, Typed, TypeOK, FiniteTables
<1>24. ASSUME Tick PROVE Typed'
  BY <1>24 DEF Tick, Typed, TypeOK, Placed, FiniteTables
<1>25. CASE UNCHANGED vars
  BY <1>25 DEF vars, Typed, TypeOK, Placed, FiniteTables
<1> QED
  BY <1>1, <1>2, <1>3, <1>4, <1>5, <1>6, <1>7, <1>8, <1>9, <1>10, <1>11, <1>12, <1>13,
     <1>14, <1>15, <1>16, <1>17, <1>18, <1>19, <1>20, <1>21, <1>22, <1>23, <1>24, <1>25
  DEF Next

(* The tables of the service keep their shape, through every interleaving  *)
(* of requests and every failure. *)
THEOREM AccountsTypeCorrect == Spec => []TypeOK
<1>1. Init => Typed
  BY TypedInit
<1>2. Typed /\ [Next]_vars => Typed'
  BY TypedStep
<1>3. Typed => TypeOK
  BY DEF Typed
<1> QED  BY <1>1, <1>2, <1>3, PTL DEF Spec

-----------------------------------------------------------------------------
(* Rows. *)

OneId == \A r, s \in refresh : r.id = s.id => r = s
Numbered == \A r \in refresh : r.id <= issued /\ r.family <= issued
OneOwner == \A r, s \in refresh : r.family = s.family => r.account = s.account

(* The row a rotation works on, wherever it still is, has the family and   *)
(* the account the request has read; from the UPDATE to the commit it is   *)
(* there, live, and nobody else's. *)
Rotating ==
    \A p \in Process : req[p].at \in {"rotate", "insert"} =>
       /\ req[p].row <= issued
       /\ \A r \in refresh : r.id = req[p].row =>
             r.family = req[p].family /\ r.account = req[p].account
Locking ==
    /\ \A p \in Process : req[p].at = "insert" =>
          \E r \in refresh : r.id = req[p].row /\ Live(r)
    /\ \A p, q \in Process :
          req[p].at = "insert" /\ req[q].at = "insert" /\ req[p].row = req[q].row => p = q

Rows == Typed /\ OneId /\ Numbered /\ OneOwner /\ Rotating /\ Locking /\ OneLivePerFamily

(* Steps that leave the refresh tokens alone and bring no request into a   *)
(* rotation or a revocation. *)
Quiet ==
    /\ UNCHANGED <<refresh, issued, condemned>>
    /\ \A q \in Process : \/ req'[q] = req[q]
                          \/ req'[q].at \notin {"rotate", "insert", "revoking"}

LEMMA QuietGoto ==
    ASSUME Typed, NEW p \in Process, NEW call \in Call \ {"rotate", "insert", "revoking"},
           Goto(p, call), UNCHANGED <<refresh, issued, condemned>>
    PROVE  Quiet
<1>1. req' = [req EXCEPT ![p].at = call] /\ req[p] \in Progress
  BY DEF Goto, Typed, TypeOK
<1>2. req'[p].at = call /\ \A q \in Process \ {p} : req'[q] = req[q]
  BY <1>1 DEF Typed, TypeOK, Progress
<1> QED  BY <1>2 DEF Quiet

LEMMA QuietBegin ==
    ASSUME Typed, NEW p \in Process, NEW r, r.at \notin {"rotate", "insert", "revoking"},
           Begin(p, r), UNCHANGED <<refresh, issued, condemned>>
    PROVE  Quiet
<1>1. req'[p] = r /\ \A q \in Process \ {p} : req'[q] = req[q]
  BY DEF Begin, Typed, TypeOK
<1> QED  BY <1>1 DEF Quiet

LEMMA QuietReturn ==
    ASSUME Typed, NEW p \in Process, Return(p), UNCHANGED <<refresh, issued, condemned>>
    PROVE  Quiet
<1>1. Begin(p, Idle) /\ Idle.at = "idle"
  BY DEF Begin, Return, Idle, Started
<1> QED  BY <1>1, QuietBegin

(* The steps that are not quiet. *)
Loud ==
    \/ \E p \in Request : \/ \E row \in refresh : Refresh(p, row)
                          \/ Rotate(p) \/ RotateInsert(p) \/ IssueLogin(p)
    \/ \E p \in Process : Revoke(p) \/ RevokeDone(p)

LEMMA QuietOrLoud == ASSUME Typed, [Next]_vars PROVE Quiet \/ Loud
<1>1. ASSUME NEW p \in Request, NEW a \in Account, NEW email \in BOOLEAN, Register(p, a, email)
      PROVE  Quiet
  <2> DEFINE r == [Started("login", IF email THEN "send" ELSE "issue") EXCEPT !.account = a]
  <2>1. r.at \notin {"rotate", "insert", "revoking"}
    BY DEF Started
  <2>2. Begin(p, r)
    BY <1>1 DEF Register, CreateAccount
  <2> HIDE DEF r
  <2> QED  BY <1>1, <2>1, <2>2, QuietBegin DEF Register, CreateAccount, Process
<1>2. ASSUME NEW p \in Request, NEW a \in Account, Login(p, a) PROVE Quiet
  <2> DEFINE r == [Started("login", "issue") EXCEPT !.account = a]
  <2>1. r.at \notin {"rotate", "insert", "revoking"}
    BY DEF Started
  <2>2. Begin(p, r)
    BY <1>2 DEF Login
  <2> HIDE DEF r
  <2> QED  BY <1>2, <2>1, <2>2, QuietBegin DEF Login, Process
<1>3. ASSUME NEW p \in Request, NEW a \in Account, RequestPasswordReset(p, a) PROVE Quiet
  BY <1>3 DEF RequestPasswordReset, Quiet
<1>4. ASSUME NEW p \in Request, SendVerification(p) PROVE Quiet
  BY <1>4, QuietGoto DEF SendVerification, Call, Process
<1>5. ASSUME NEW p \in Request, NEW row \in refresh, Logout(p, row) PROVE Quiet
  <2> DEFINE r == [Started("logout", "revoke") EXCEPT
                     !.family = row.family, !.account = row.account]
  <2>1. r.at \notin {"rotate", "insert", "revoking"}
    BY DEF Started
  <2>2. Begin(p, r)
    BY <1>5 DEF Logout
  <2> HIDE DEF r
  <2> QED  BY <1>5, <2>1, <2>2, QuietBegin DEF Logout, Process
<1>6. ASSUME NEW p \in Request, NEW row \in mail, VerifyEmail(p, row) \/ ResetPassword(p, row)
      PROVE  Quiet
  <2> DEFINE r == [Started("verify", "verified") EXCEPT !.account = row.account]
             s == [Started("reset", "password") EXCEPT !.account = row.account]
  <2>1. /\ r.at \notin {"rotate", "insert", "revoking"}
        /\ s.at \notin {"rotate", "insert", "revoking"}
    BY DEF Started
  <2>2. Begin(p, r) \/ Begin(p, s)
    BY <1>6 DEF VerifyEmail, ResetPassword
  <2>3. UNCHANGED <<refresh, issued, condemned>>
    BY <1>6 DEF VerifyEmail, ResetPassword
  <2> HIDE DEF r, s
  <2> QED  BY <2>1, <2>2, <2>3, QuietBegin DEF Process
<1>7. ASSUME NEW p \in Request, SetEmailVerified(p) PROVE Quiet
  BY <1>7, QuietReturn DEF SetEmailVerified, Process
<1>8. ASSUME NEW p \in Request, UpdatePassword(p) PROVE Quiet
  BY <1>8, QuietGoto DEF UpdatePassword, Call, Process
<1>9. ASSUME NEW p \in Request, NEW actor \in Account, NEW target \in Account,
             NEW op \in {"ban", "unban", "role"}, Moderate(p, actor, target, op)
      PROVE  Quiet
  <2> DEFINE r == [Started(op, IF op = "unban" THEN "unban" ELSE "target") EXCEPT
                     !.account = target, !.actor = actor,
                     !.rank = RoleRank[accounts[actor].role]]
  <2>1. r.at \notin {"rotate", "insert", "revoking"}
    BY DEF Started
  <2>2. Begin(p, r)
    BY <1>9 DEF Moderate
  <2> HIDE DEF r
  <2> QED  BY <1>9, <2>1, <2>2, QuietBegin DEF Moderate, Process
<1>10. ASSUME NEW p \in Request, Target(p) PROVE Quiet
  <2>1. req[p].op \in {"ban", "role"} /\ p \in Process
    BY <1>10 DEF Target, At, Typed, Placed, Process
  <2> QED  BY <1>10, <2>1, QuietReturn, QuietGoto DEF Target, Call
<1>11. ASSUME NEW p \in Request, LiftBans(p) PROVE Quiet
  BY <1>11, QuietReturn DEF LiftBans, Process
<1>12. ASSUME NEW p \in Request, NEW role \in Role, SetRole(p, role) PROVE Quiet
  BY <1>12, QuietReturn DEF SetRole, Process
<1>13. ASSUME NEW p \in Process, NEW forever \in BOOLEAN, BanAccount(p, forever) PROVE Quiet
  BY <1>13, QuietGoto DEF BanAccount, Call
<1>14. ASSUME NEW p \in Process, Fail(p) PROVE Quiet
  BY <1>14, QuietReturn DEF Fail
<1>15. ASSUME NEW a \in Account, RecordAntiCheat(a) PROVE Quiet
  <2> DEFINE r == [Started("ban", "check") EXCEPT !.account = a]
  <2>1. r.at \notin {"rotate", "insert", "revoking"}
    BY DEF Started
  <2>2. UNCHANGED req \/ Begin(Persister, r)
    BY <1>15 DEF RecordAntiCheat, AddAntiCheat
  <2> HIDE DEF r
  <2>3. UNCHANGED <<refresh, issued, condemned>>
    BY <1>15 DEF RecordAntiCheat, AddAntiCheat
  <2> QED  BY <2>1, <2>2, <2>3, QuietBegin DEF Quiet, Process
<1>16. ASSUME CheckBan PROVE Quiet
  BY <1>16, QuietReturn, QuietGoto DEF CheckBan, Call, Process
<1>17. ASSUME Tick PROVE Quiet
  BY <1>17 DEF Tick, Quiet
<1>18. CASE UNCHANGED vars
  BY <1>18 DEF vars, Quiet
<1> QED
  BY <1>1, <1>2, <1>3, <1>4, <1>5, <1>6, <1>7, <1>8, <1>9, <1>10, <1>11, <1>12, <1>13,
     <1>14, <1>15, <1>16, <1>17, <1>18
  DEF Next, Loud

(* A revocation keeps every row in its place. *)
Mark(s, ids) == IF s.id \in ids THEN [s EXCEPT !.revoked = TRUE] ELSE s

LEMMA RevokedRows ==
    ASSUME NEW rows \in SUBSET RefreshRow, NEW ids, NEW t \in Revoked(rows, ids)
    PROVE  \E s \in rows : /\ t.id = s.id /\ t.family = s.family /\ t.account = s.account
                           /\ t = Mark(s, ids)
                           /\ Live(t) => t = s /\ t.id \notin ids
<1>1. PICK s \in rows : t = Mark(s, ids)
  BY DEF Revoked, Mark
<1>2. s \in RefreshRow
  OBVIOUS
<1>3. /\ t.id = s.id /\ t.family = s.family /\ t.account = s.account
      /\ Live(t) => t = s /\ t.id \notin ids
  <2>1. CASE s.id \in ids
    BY <1>1, <1>2, <2>1 DEF RefreshRow, Live, Mark
  <2>2. CASE s.id \notin ids
    BY <1>1, <1>2, <2>2 DEF RefreshRow, Live, Mark
  <2> QED  BY <2>1, <2>2
<1> QED  BY <1>1, <1>3

LEMMA NotRevoked ==
    ASSUME NEW rows \in SUBSET RefreshRow, NEW ids, NEW s \in rows, s.id \notin ids
    PROVE  s \in Revoked(rows, ids)
BY DEF Revoked

LEMMA RowsQuiet == ASSUME Rows, Typed', Quiet PROVE Rows'
<1>1. \A q \in Process : req'[q].at \in {"rotate", "insert"} => req'[q] = req[q]
  BY DEF Quiet
<1>2. UNCHANGED <<refresh, issued>>
  BY DEF Quiet
<1>3. Rotating'
  BY <1>1, <1>2 DEF Rows, Rotating
<1>4. Locking'
  BY <1>1, <1>2 DEF Rows, Locking, Live
<1> QED
  BY <1>2, <1>3, <1>4 DEF Rows, OneId, Numbered, OneOwner, OneLivePerFamily, Live

LEMMA RowsIssueLogin ==
    ASSUME Rows, Typed', NEW p \in Request, IssueLogin(p)
    PROVE  Rows'
<1> DEFINE new == NewToken(req[p].account, issued + 1)
<1>1. /\ new.id = issued + 1 /\ new.family = issued + 1
      /\ refresh' = refresh \union {new} /\ issued' = issued + 1 /\ issued \in Nat
  BY DEF IssueLogin, NewToken, Rows, Typed, TypeOK
<1> HIDE DEF new
<1>2. \A r \in refresh : r.id \in Nat /\ r.family \in Nat /\ r.id <= issued /\ r.family <= issued
  BY DEF Rows, Typed, TypeOK, RefreshRow, Numbered
<1>3. \A q \in Process : req'[q].at \in {"rotate", "insert"} =>
        req'[q] = req[q] /\ req[q].row \in Nat /\ req[q].row <= issued
  <2> SUFFICES ASSUME NEW q \in Process, req'[q].at \in {"rotate", "insert"}
               PROVE  req'[q] = req[q] /\ req[q].row \in Nat /\ req[q].row <= issued
    OBVIOUS
  <2>1. req' = [req EXCEPT ![p] = Idle] /\ req \in [Process -> Progress] /\ Idle.at = "idle"
    BY DEF IssueLogin, Return, Rows, Typed, TypeOK, Idle, Started
  <2>2. q # p /\ req'[q] = req[q]
    BY <2>1
  <2> QED  BY <2>1, <2>2 DEF Rows, Rotating, Progress
<1>4. OneId' /\ OneOwner' /\ OneLivePerFamily'
  BY <1>1, <1>2 DEF Rows, OneId, OneOwner, OneLivePerFamily
<1>5. Numbered'
  BY <1>1, <1>2 DEF Numbered
<1>6. Rotating'
  BY <1>1, <1>3 DEF Rows, Rotating
<1>7. Locking'
  BY <1>1, <1>3 DEF Rows, Locking
<1> QED  BY <1>4, <1>5, <1>6, <1>7 DEF Rows

LEMMA RowsRefresh ==
    ASSUME Rows, Typed', NEW p \in Request, NEW row \in refresh, Refresh(p, row)
    PROVE  Rows'
<1>1. /\ UNCHANGED <<refresh, issued>> /\ req \in [Process -> Progress] /\ p \in Process
      /\ \A q \in Process \ {p} : req'[q] = req[q]
  BY DEF Refresh, Begin, Rows, Typed, TypeOK, Process
<1>2. \/ req'[p].at = "revoke"
      \/ /\ req'[p].at = "rotate" /\ req'[p].row = row.id
         /\ req'[p].family = row.family /\ req'[p].account = row.account
  <2> DEFINE x == Started("refresh", "revoke")
             y == Started("refresh", "rotate")
             r == [x EXCEPT !.family = row.family, !.account = row.account]
             s == [y EXCEPT !.row = row.id, !.family = row.family, !.account = row.account]
  <2>1. x \in Progress /\ x.at = "revoke" /\ y \in Progress /\ y.at = "rotate"
    BY StartedType DEF Op, Call, Started
  <2> HIDE DEF x, y
  <2>2. /\ r.at = "revoke" /\ s.at = "rotate" /\ s.row = row.id
        /\ s.family = row.family /\ s.account = row.account
    BY <2>1 DEF Progress
  <2>3. req'[p] = r \/ req'[p] = s
    BY <1>1 DEF Refresh, Begin, x, y
  <2> HIDE DEF r, s
  <2> QED  BY <2>2, <2>3
<1>3. Rotating'
  BY <1>1, <1>2 DEF Rows, Rotating, OneId, Numbered
<1>4. Locking'
  BY <1>1, <1>2 DEF Rows, Locking, Live
<1> QED  BY <1>1, <1>3, <1>4 DEF Rows, OneId, Numbered, OneOwner, OneLivePerFamily, Live

LEMMA RowsRotate ==
    ASSUME Rows, Typed', NEW p \in Request, Rotate(p)
    PROVE  Rows'
<1>1. /\ UNCHANGED <<refresh, issued>> /\ req \in [Process -> Progress] /\ p \in Process
      /\ req[p].at = "rotate" /\ req[p] \in Progress
  BY DEF Rotate, At, Rows, Typed, TypeOK, Process
<1>2. /\ req'[p].row = req[p].row /\ req'[p].family = req[p].family
      /\ req'[p].account = req[p].account
      /\ \A q \in Process \ {p} : req'[q] = req[q]
  BY <1>1 DEF Rotate, Goto, Progress
<1>3. Rotating'
  BY <1>1, <1>2 DEF Rows, Rotating
<1>4. CASE Goto(p, "revoke")
  <2>1. req'[p].at = "revoke"
    BY <1>1, <1>4 DEF Goto, Progress
  <2>2. Locking'
    BY <1>1, <1>2, <2>1 DEF Rows, Locking, Live
  <2> QED  BY <1>1, <1>3, <2>2 DEF Rows, OneId, Numbered, OneOwner, OneLivePerFamily, Live
<1>5. CASE (\E row \in RowsWithId(req[p].row) : Live(row)) /\ Goto(p, "insert")
  <2>1. req'[p].at = "insert"
    BY <1>1, <1>5 DEF Goto, Progress
  <2>2. \E r \in refresh : r.id = req[p].row /\ Live(r)
    BY <1>5 DEF RowsWithId
  <2>3. \A q \in Process \ {p} : req[q].at = "insert" => req[q].row # req[p].row
    BY DEF Rotate, LockedByOthers, LockedBy, At
  <2>4. Locking'
    BY <1>1, <1>2, <2>1, <2>2, <2>3 DEF Rows, Locking, Live
  <2> QED  BY <1>1, <1>3, <2>4 DEF Rows, OneId, Numbered, OneOwner, OneLivePerFamily, Live
<1> QED  BY <1>4, <1>5 DEF Rotate

LEMMA RowsRevoke ==
    ASSUME Rows, Typed', NEW p \in Process, Revoke(p)
    PROVE  Rows'
<1>1. /\ UNCHANGED <<refresh, issued>> /\ req \in [Process -> Progress]
      /\ req'[p].at = "revoking"
      /\ \A q \in Process \ {p} : req'[q] = req[q]
  BY DEF Revoke, Rows, Typed, TypeOK, Progress
<1>2. Rotating' /\ Locking'
  BY <1>1 DEF Rows, Rotating, Locking, Live
<1> QED  BY <1>1, <1>2 DEF Rows, OneId, Numbered, OneOwner, OneLivePerFamily, Live

LEMMA RowsRevokeDone ==
    ASSUME Rows, Typed', NEW p \in Process, RevokeDone(p)
    PROVE  Rows'
<1>1. /\ refresh' = Revoked(refresh, req[p].rows) /\ issued' = issued
      /\ req \in [Process -> Progress] /\ refresh \in SUBSET RefreshRow
      /\ req[p].at = "revoking"
  BY DEF RevokeDone, At, Rows, Typed, TypeOK
<1>2. \A q \in Process : req'[q].at \in {"rotate", "insert"} => q # p /\ req'[q] = req[q]
  BY <1>1 DEF RevokeDone, Return, Idle, Started
<1>3. \A t \in refresh' : \E s \in refresh :
         /\ t.id = s.id /\ t.family = s.family /\ t.account = s.account
         /\ t = Mark(s, req[p].rows)
         /\ Live(t) => t = s
  <2> TAKE t \in refresh'
  <2>1. t \in Revoked(refresh, req[p].rows)
    BY <1>1
  <2> QED  BY <1>1, <2>1, RevokedRows
<1>4. OneId'
  <2> SUFFICES ASSUME NEW t \in refresh', NEW u \in refresh', t.id = u.id PROVE t = u
    BY DEF OneId
  <2>1. PICK r \in refresh :
           t.id = r.id /\ t = Mark(r, req[p].rows)
    BY <1>3
  <2>2. PICK s \in refresh :
           u.id = s.id /\ u = Mark(s, req[p].rows)
    BY <1>3
  <2>3. r = s
    BY <2>1, <2>2 DEF Rows, OneId
  <2> QED  BY <2>1, <2>2, <2>3
<1>5. Numbered' /\ OneOwner'
  BY <1>1, <1>3 DEF Rows, Numbered, OneOwner
<1>6. OneLivePerFamily'
  BY <1>3 DEF Rows, OneLivePerFamily
<1>7. Rotating'
  BY <1>1, <1>2, <1>3 DEF Rows, Rotating
<1>8. \A q \in Process : req'[q].at = "insert" =>
         \E r \in refresh' : r.id = req'[q].row /\ Live(r)
  <2> SUFFICES ASSUME NEW q \in Process, req'[q].at = "insert"
               PROVE  \E r \in refresh' : r.id = req'[q].row /\ Live(r)
    OBVIOUS
  <2>1. q # p /\ req'[q] = req[q] /\ req[q].at = "insert"
    BY <1>2
  <2>2. PICK r \in refresh : r.id = req[q].row /\ Live(r)
    BY <2>1 DEF Rows, Locking
  <2>3. r.id \in LockedByOthers(p)
    BY <2>1, <2>2 DEF LockedByOthers, LockedBy, At
  <2>4. r.id \notin req[p].rows
    BY <2>3 DEF RevokeDone
  <2> QED  BY <1>1, <2>1, <2>2, <2>4, NotRevoked
<1>9. Locking'
  BY <1>2, <1>8 DEF Rows, Locking
<1> QED  BY <1>4, <1>5, <1>6, <1>7, <1>9 DEF Rows

LEMMA RowsRotateInsert ==
    ASSUME Rows, Typed', NEW p \in Request, RotateInsert(p)
    PROVE  Rows'
<1> DEFINE new == NewToken(req[p].account, req[p].family)
           old == Revoked(refresh \ Expired(p), {req[p].row})
<1>1. /\ p \in Process /\ req \in [Process -> Progress] /\ issued \in Nat
      /\ refresh \ Expired(p) \in SUBSET RefreshRow /\ req[p].at = "insert"
  BY DEF RotateInsert, At, Rows, Typed, TypeOK, Process
<1>2. /\ new.id = issued + 1 /\ new.family = req[p].family /\ new.account = req[p].account
      /\ refresh' = old \union {new} /\ issued' = issued + 1
  BY DEF RotateInsert, NewToken
<1>3. PICK mine \in refresh : /\ mine.id = req[p].row /\ Live(mine)
                              /\ mine.family = req[p].family /\ mine.account = req[p].account
  BY <1>1 DEF Rows, Locking, Rotating
<1>4. \A r \in refresh : r.id \in Nat /\ r.family \in Nat /\ r.id <= issued /\ r.family <= issued
  BY DEF Rows, Typed, TypeOK, RefreshRow, Numbered
<1>5. \A t \in old : \E s \in refresh :
         /\ t.id = s.id /\ t.family = s.family /\ t.account = s.account
         /\ t = Mark(s, {req[p].row})
         /\ Live(t) => t = s /\ t.id # req[p].row
  <2> TAKE t \in old
  <2> QED  BY <1>1, RevokedRows
<1>6. \A q \in Process : req'[q].at \in {"rotate", "insert"} =>
         q # p /\ req'[q] = req[q] /\ req[q].row \in Nat /\ req[q].row <= issued
  <2> SUFFICES ASSUME NEW q \in Process, req'[q].at \in {"rotate", "insert"}
               PROVE  q # p /\ req'[q] = req[q] /\ req[q].row \in Nat /\ req[q].row <= issued
    OBVIOUS
  <2>1. req' = [req EXCEPT ![p] = Idle] /\ Idle.at = "idle"
    BY DEF RotateInsert, Return, Idle, Started
  <2>2. q # p /\ req'[q] = req[q]
    BY <1>1, <2>1
  <2> QED  BY <1>1, <2>2 DEF Rows, Rotating, Progress
<1>7. \A q \in Process : req'[q].at = "insert" => \E r \in refresh' : r.id = req'[q].row /\ Live(r)
  <2> SUFFICES ASSUME NEW q \in Process, req'[q].at = "insert"
               PROVE  \E r \in refresh' : r.id = req'[q].row /\ Live(r)
    OBVIOUS
  <2>1. q # p /\ req'[q] = req[q] /\ req[q].at = "insert"
    BY <1>6
  <2>2. PICK r \in refresh : r.id = req[q].row /\ Live(r)
    BY <2>1 DEF Rows, Locking
  <2>3. r.id \in LockedByOthers(p)
    BY <2>1, <2>2 DEF LockedByOthers, LockedBy, At
  <2>4. r \notin Expired(p)
    BY <2>3 DEF RotateInsert
  <2>5. r.id # req[p].row
    BY <1>1, <2>1, <2>2 DEF Rows, Locking
  <2>6. r \in old
    BY <1>1, <2>4, <2>5, NotRevoked
  <2> QED  BY <1>2, <2>1, <2>2, <2>6
<1> HIDE DEF new, old
<1>8. \A t \in old : t.id \in Nat /\ t.id <= issued /\ t.family \in Nat /\ t.family <= issued
  BY <1>4, <1>5
<1>9. OneId'
  <2>1. \A t, u \in old : t.id = u.id => t = u
    <3> SUFFICES ASSUME NEW t \in old, NEW u \in old, t.id = u.id PROVE t = u
      OBVIOUS
    <3>1. PICK r \in refresh :
             t.id = r.id /\ t = Mark(r, {req[p].row})
      BY <1>5
    <3>2. PICK s \in refresh :
             u.id = s.id /\ u = Mark(s, {req[p].row})
      BY <1>5
    <3>3. r = s
      BY <3>1, <3>2 DEF Rows, OneId
    <3> QED  BY <3>1, <3>2, <3>3
  <2> QED  BY <1>1, <1>2, <1>8, <2>1 DEF OneId
<1>10. Numbered'
  BY <1>1, <1>2, <1>3, <1>4, <1>8 DEF Numbered
<1>11. OneOwner'
  BY <1>2, <1>3, <1>5 DEF Rows, OneOwner
<1>12. OneLivePerFamily'
  <2>1. \A t, u \in old : Live(t) /\ Live(u) /\ t.family = u.family => t = u
    BY <1>5 DEF Rows, OneLivePerFamily
  <2>2. \A t \in old : Live(t) => t.family # new.family
    BY <1>2, <1>3, <1>5 DEF Rows, OneLivePerFamily
  <2> QED  BY <1>2, <2>1, <2>2 DEF OneLivePerFamily
<1>13. Rotating'
  BY <1>1, <1>2, <1>5, <1>6 DEF Rows, Rotating
<1>14. Locking'
  BY <1>6, <1>7 DEF Rows, Locking
<1> QED  BY <1>9, <1>10, <1>11, <1>12, <1>13, <1>14 DEF Rows

LEMMA RowsInit == ASSUME Init PROVE Rows
BY TypedInit DEF Init, Rows, OneId, Numbered, OneOwner, OneLivePerFamily, Rotating, Locking,
                 Idle, Started

LEMMA RowsStep == ASSUME Rows, [Next]_vars PROVE Rows'
<1>1. Typed /\ Typed'
  BY TypedStep DEF Rows
<1>2. CASE Quiet
  BY <1>1, <1>2, RowsQuiet
<1>3. CASE Loud
  BY <1>1, <1>3, RowsRefresh, RowsRotate, RowsRotateInsert, RowsIssueLogin, RowsRevoke,
     RowsRevokeDone DEF Loud
<1> QED  BY <1>1, <1>2, <1>3, QuietOrLoud

(* A login has one live refresh token at most, on SQLite and on            *)
(* PostgreSQL: the conditional UPDATE of RotateRefreshToken and its row    *)
(* lock suffice. *)
THEOREM RotationKeepsOneLive == Spec => []OneLivePerFamily
<1>1. Rows => OneLivePerFamily
  BY DEF Rows
<1> QED  BY <1>1, RowsInit, RowsStep, PTL DEF Spec

-----------------------------------------------------------------------------
(* Dead: what a revocation has condemned stays revoked, with one           *)
(* connection. *)

Alone == \A p, q \in Process : InTransaction(p) /\ InTransaction(q) => p = q
Known ==
    /\ \A f \in condemned : f <= issued
    /\ \A p \in Process : req[p].at = "revoking" => \A f \in req[p].families : f <= issued
Found ==
    \A p \in Process : req[p].at = "revoking" =>
       \A r \in refresh : Live(r) /\ r.family \in req[p].families => r.id \in req[p].rows

Dead == Rows /\ Alone /\ Known /\ Found /\ CondemnedStaysDead

LEMMA DeadQuiet == ASSUME Dead, Rows', Quiet PROVE Dead'
<1>1. \A q \in Process : req'[q].at \in {"insert", "revoking"} => req'[q] = req[q]
  BY DEF Quiet
<1>2. UNCHANGED <<refresh, issued, condemned>>
  BY DEF Quiet
<1> QED
  BY <1>1, <1>2 DEF Dead, Alone, Known, Found, CondemnedStaysDead, InTransaction, Live

(* The step of one process alone, which ends outside a transaction or,     *)
(* with nobody else in one, inside. *)
LEMMA AloneStep ==
    ASSUME Alone, NEW p \in Process, \A q \in Process \ {p} : req'[q] = req[q],
           \/ req'[p].at \notin {"insert", "revoking"}
           \/ \A q \in Process \ {p} : ~InTransaction(q)
    PROVE  Alone'
BY DEF Alone, InTransaction

(* Nobody else is revoking while p has the connection. *)
LEMMA NobodyElse ==
    ASSUME OneConnection, NEW p \in Process, Connected(p)
    PROVE  \A q \in Process \ {p} : ~InTransaction(q)
BY DEF Connected

LEMMA DeadIssueLogin ==
    ASSUME OneConnection, Dead, Rows', NEW p \in Request, IssueLogin(p)
    PROVE  Dead'
<1> DEFINE new == NewToken(req[p].account, issued + 1)
<1>1. /\ new.family = issued + 1 /\ refresh' = refresh \union {new}
      /\ issued' = issued + 1 /\ issued \in Nat /\ UNCHANGED condemned /\ p \in Process
      /\ condemned \subseteq Nat
  BY DEF IssueLogin, NewToken, Dead, Rows, Typed, TypeOK, Process
<1>2. req'[p].at = "idle" /\ \A q \in Process \ {p} : req'[q] = req[q]
  BY <1>1 DEF IssueLogin, Return, Idle, Started, Dead, Rows, Typed, TypeOK
<1>3. \A q \in Process : req'[q].at # "revoking"
  BY <1>1, <1>2, NobodyElse DEF IssueLogin, InTransaction
<1> HIDE DEF new
<1>4. Alone'
  BY <1>1, <1>2, AloneStep DEF Dead
<1>5. Found'
  BY <1>3 DEF Found
<1>6. Known'
  <2>1. \A f \in condemned : f <= issued /\ f \in Nat
    BY <1>1 DEF Dead, Known
  <2>2. \A f \in condemned' : f <= issued'
    BY <1>1, <2>1
  <2> QED  BY <1>3, <2>2 DEF Known
<1>7. CondemnedStaysDead'
  BY <1>1 DEF Dead, Known, CondemnedStaysDead
<1> QED  BY <1>4, <1>5, <1>6, <1>7 DEF Dead

LEMMA DeadRotateInsert ==
    ASSUME OneConnection, Dead, Rows', NEW p \in Request, RotateInsert(p)
    PROVE  Dead'
<1> DEFINE new == NewToken(req[p].account, req[p].family)
           old == Revoked(refresh \ Expired(p), {req[p].row})
<1>1. /\ p \in Process /\ issued \in Nat /\ condemned \subseteq Nat
      /\ refresh \ Expired(p) \in SUBSET RefreshRow /\ req[p].at = "insert"
      /\ refresh' = old \union {new} /\ issued' = issued + 1 /\ UNCHANGED condemned
      /\ new.family = req[p].family
  BY DEF RotateInsert, NewToken, At, Dead, Rows, Typed, TypeOK, Process
<1>2. req'[p].at = "idle" /\ \A q \in Process \ {p} : req'[q] = req[q]
  BY <1>1 DEF RotateInsert, Return, Idle, Started, Dead, Rows, Typed, TypeOK
<1>3. \A q \in Process : req'[q].at # "revoking"
  BY <1>1, <1>2, NobodyElse DEF RotateInsert, InTransaction
<1>4. \A t \in old : Live(t) => t \in refresh
  <2> TAKE t \in old
  <2> QED  BY <1>1, RevokedRows
<1>5. PICK mine \in refresh : Live(mine) /\ mine.family = req[p].family
  BY <1>1 DEF Dead, Rows, Locking, Rotating
<1> HIDE DEF new, old
<1>6. Alone'
  BY <1>1, <1>2, AloneStep DEF Dead
<1>7. Known' /\ Found'
  BY <1>1, <1>3 DEF Dead, Known, Found
<1>8. new.family \notin condemned
  BY <1>1, <1>5 DEF Dead, CondemnedStaysDead
<1>9. CondemnedStaysDead'
  BY <1>1, <1>4, <1>8 DEF Dead, CondemnedStaysDead
<1> QED  BY <1>6, <1>7, <1>9 DEF Dead

LEMMA DeadRefreshRotate ==
    ASSUME OneConnection, Dead, Rows', NEW p \in Request,
           Rotate(p) \/ \E row \in refresh : Refresh(p, row)
    PROVE  Dead'
<1>1. /\ p \in Process /\ UNCHANGED <<refresh, issued, condemned>>
      /\ req \in [Process -> Progress] /\ Connected(p)
  BY DEF Rotate, Refresh, Dead, Rows, Typed, TypeOK, Process
<1>2. \A q \in Process \ {p} : req'[q] = req[q]
  BY <1>1 DEF Rotate, Refresh, Goto, Begin
<1>3. \A q \in Process \ {p} : ~InTransaction(q)
  BY <1>1, NobodyElse
<1>4. req'[p].at # "revoking"
  <2>1. CASE Rotate(p)
    BY <1>1, <2>1 DEF Rotate, Goto, Progress
  <2>2. ASSUME NEW row \in refresh, Refresh(p, row) PROVE req'[p].at # "revoking"
    <3> DEFINE r == [Started("refresh", "revoke") EXCEPT
                       !.family = row.family, !.account = row.account]
               s == [Started("refresh", "rotate") EXCEPT
                       !.row = row.id, !.family = row.family, !.account = row.account]
    <3>1. r.at = "revoke" /\ s.at = "rotate"
      BY DEF Started
    <3>2. req'[p] = r \/ req'[p] = s
      BY <1>1, <2>2 DEF Refresh, Begin
    <3> HIDE DEF r, s
    <3> QED  BY <3>1, <3>2
  <2> QED  BY <2>1, <2>2
<1>5. Alone'
  BY <1>1, <1>2, <1>3, AloneStep DEF Dead
<1>6. Known' /\ Found' /\ CondemnedStaysDead'
  BY <1>1, <1>2, <1>4 DEF Dead, Known, Found, CondemnedStaysDead, Live
<1> QED  BY <1>5, <1>6 DEF Dead

LEMMA DeadRevoke ==
    ASSUME OneConnection, Dead, Rows', NEW p \in Process, Revoke(p)
    PROVE  Dead'
<1> DEFINE ids == {row.id : row \in {r \in Scope(p) : Live(r)}}
           fams == {row.family : row \in Scope(p)}
<1>1. /\ UNCHANGED <<refresh, issued, condemned>>
      /\ req \in [Process -> Progress] /\ Connected(p)
  BY DEF Revoke, Dead, Rows, Typed, TypeOK
<1>2. \A q \in Process \ {p} : req'[q] = req[q]
  BY <1>1 DEF Revoke
<1>3. \A r \in refresh : Live(r) /\ r.family \in fams => r.id \in ids
  <2> SUFFICES ASSUME NEW r \in refresh, Live(r), NEW s \in Scope(p), s.family = r.family
               PROVE  r.id \in ids
    OBVIOUS
  <2>1. s \in refresh /\ InScope(p, s) /\ r.account = s.account
    BY DEF Scope, Dead, Rows, OneOwner
  <2>2. InScope(p, r)
    BY <2>1 DEF InScope
  <2> QED  BY <2>2 DEF Scope
<1>4. \A f \in fams : f <= issued
  BY DEF Scope, Dead, Rows, Numbered
<1>5. /\ req'[p].at = "revoking" /\ req'[p].rows = ids /\ req'[p].families = fams
  BY <1>1 DEF Revoke, Progress
<1> HIDE DEF ids, fams
<1>6. Alone'
  BY <1>1, <1>2, NobodyElse, AloneStep DEF Dead
<1>7. Known'
  BY <1>1, <1>2, <1>4, <1>5 DEF Dead, Known
<1>8. Found'
  BY <1>1, <1>2, <1>3, <1>5 DEF Dead, Found, Live
<1> QED  BY <1>1, <1>6, <1>7, <1>8 DEF Dead, CondemnedStaysDead, Live

LEMMA DeadRevokeDone ==
    ASSUME OneConnection, Dead, Rows', NEW p \in Process, RevokeDone(p)
    PROVE  Dead'
<1>1. /\ refresh' = Revoked(refresh, req[p].rows) /\ UNCHANGED issued
      /\ condemned' = condemned \union req[p].families
      /\ req[p].at = "revoking" /\ refresh \in SUBSET RefreshRow /\ Connected(p)
  BY DEF RevokeDone, At, Dead, Rows, Typed, TypeOK
<1>2. req'[p].at = "idle" /\ \A q \in Process \ {p} : req'[q] = req[q]
  BY DEF RevokeDone, Return, Idle, Started, Dead, Rows, Typed, TypeOK
<1>3. \A q \in Process : req'[q].at # "revoking"
  BY <1>1, <1>2, NobodyElse DEF InTransaction
<1>4. \A t \in refresh' : Live(t) => t \in refresh /\ t.id \notin req[p].rows
  <2> TAKE t \in refresh'
  <2>1. t \in Revoked(refresh, req[p].rows)
    BY <1>1
  <2> QED  BY <1>1, <2>1, RevokedRows
<1>5. Alone'
  BY <1>1, <1>2, AloneStep DEF Dead
<1>6. Known' /\ Found'
  BY <1>1, <1>3 DEF Dead, Known, Found
<1>7. CondemnedStaysDead'
  BY <1>1, <1>4 DEF Dead, Found, CondemnedStaysDead
<1> QED  BY <1>5, <1>6, <1>7 DEF Dead

LEMMA DeadInit == ASSUME Init PROVE Dead
BY RowsInit DEF Init, Dead, Alone, Known, Found, CondemnedStaysDead, InTransaction, Idle, Started

LEMMA DeadStep == ASSUME OneConnection, Dead, [Next]_vars PROVE Dead'
<1>1. Rows' /\ Typed
  BY RowsStep DEF Dead, Rows
<1>2. CASE Quiet
  BY <1>1, <1>2, DeadQuiet
<1>3. CASE Loud
  BY <1>1, <1>3, DeadRefreshRotate, DeadRotateInsert, DeadIssueLogin, DeadRevoke,
     DeadRevokeDone DEF Loud
<1> QED  BY <1>1, <1>2, <1>3, QuietOrLoud

(* With SQLite, whose pool is one connection, a logout, a noticed reuse, a *)
(* reset of the password or a ban ends its sessions for good.  The run     *)
(* accounts_postgres shows that the assumption is needed. *)
THEOREM RevocationIsFinal == ASSUME OneConnection PROVE Spec => []CondemnedStaysDead
<1>1. Dead /\ [Next]_vars => Dead'
  BY DeadStep
<1>2. Dead => CondemnedStaysDead
  BY DEF Dead
<1> QED  BY <1>1, <1>2, DeadInit, PTL DEF Spec

-----------------------------------------------------------------------------
(* Automatic bans: only the persister inserts them, one call after it has  *)
(* seen none. *)

InForce(b) == ~b.lifted /\ (b.forever \/ b.expires > now)
Unbanned ==
    req[Persister].at = "ban" =>
       \A b \in bans : b.account = req[Persister].account /\ b.by = NoAccount => ~InForce(b)
Single == Typed /\ Unbanned /\ OneSystemBan

(* Steps that add no ban and do not end a check. *)
Tame ==
    /\ UNCHANGED <<bans, now>>
    /\ req'[Persister] = req[Persister] \/ req'[Persister].at # "ban"

LEMMA TameStep == ASSUME Single, Typed', Tame PROVE Single'
BY DEF Single, Tame, Unbanned, OneSystemBan, InForce

LEMMA Others ==
    ASSUME Typed, NEW p \in Request, UNCHANGED <<bans, now>>,
           UNCHANGED req \/ \E r : req' = [req EXCEPT ![p] = r]
    PROVE  Tame
<1>1. p # Persister /\ Persister \in Process
  BY AccountsAssumption DEF Process
<1> QED  BY <1>1 DEF Tame, Typed, TypeOK

LEMMA TameOrBan ==
    ASSUME Typed, [Next]_vars
    PROVE  \/ Tame
           \/ \E p \in Request : LiftBans(p)
           \/ \E p \in Process, forever \in BOOLEAN : BanAccount(p, forever)
           \/ CheckBan
           \/ Tick
<1>1. ASSUME NEW p \in Request, NEW a \in Account
      PROVE  /\ \A email \in BOOLEAN : Register(p, a, email) => Tame
             /\ Login(p, a) \/ RequestPasswordReset(p, a) => Tame
  <2>1. ASSUME NEW email \in BOOLEAN, Register(p, a, email) PROVE Tame
    BY <2>1, Others DEF Register, CreateAccount, Begin
  <2>2. ASSUME Login(p, a) PROVE Tame
    BY <2>2, Others DEF Login, Begin
  <2>3. ASSUME RequestPasswordReset(p, a) PROVE Tame
    BY <2>3, Others DEF RequestPasswordReset
  <2> QED  BY <2>1, <2>2, <2>3
<1>2. ASSUME NEW p \in Request, NEW call, Goto(p, call), UNCHANGED <<bans, now>> PROVE Tame
  BY <1>2, Others DEF Goto, Typed, TypeOK
<1>3. ASSUME NEW p \in Request, Return(p), UNCHANGED <<bans, now>> PROVE Tame
  BY <1>3, Others DEF Return
<1>4. ASSUME NEW p \in Request, SendVerification(p) \/ Rotate(p) \/ UpdatePassword(p) PROVE Tame
  <2>1. CASE SendVerification(p)
    BY <1>2, <2>1 DEF SendVerification
  <2>2. CASE Rotate(p)
    BY <1>2, <2>2 DEF Rotate
  <2>3. CASE UpdatePassword(p)
    BY <1>2, <2>3 DEF UpdatePassword
  <2> QED  BY <1>4, <2>1, <2>2, <2>3
<1>5. ASSUME NEW p \in Request,
             \/ IssueLogin(p) \/ RotateInsert(p) \/ SetEmailVerified(p)
             \/ \E role \in Role : SetRole(p, role)
      PROVE  Tame
  <2>1. Return(p) /\ UNCHANGED <<bans, now>>
    BY <1>5 DEF IssueLogin, RotateInsert, SetEmailVerified, SetRole
  <2> QED  BY <1>3, <2>1
<1>6. ASSUME NEW p \in Request, NEW row \in refresh, Refresh(p, row) \/ Logout(p, row) PROVE Tame
  BY <1>6, Others DEF Refresh, Logout, Begin
<1>7. ASSUME NEW p \in Request, NEW row \in mail, VerifyEmail(p, row) \/ ResetPassword(p, row)
      PROVE  Tame
  BY <1>7, Others DEF VerifyEmail, ResetPassword, Begin
<1>8. ASSUME NEW p \in Request, NEW actor \in Account, NEW target \in Account,
             NEW op \in {"ban", "unban", "role"}, Moderate(p, actor, target, op)
      PROVE  Tame
  BY <1>8, Others DEF Moderate, Begin
<1>9. ASSUME NEW p \in Request, Target(p) PROVE Tame
  <2>1. Goto(p, req[p].op) \/ Return(p)
    BY <1>9 DEF Target
  <2> QED  BY <1>2, <1>3, <1>9, <2>1 DEF Target
<1>10. ASSUME NEW p \in Process, Revoke(p) \/ RevokeDone(p) \/ Fail(p) PROVE Tame
  <2>1. UNCHANGED <<bans, now>> /\ req \in [Process -> Progress] /\ Persister \in Process
    BY <1>10 DEF Revoke, RevokeDone, Fail, Typed, TypeOK, Process
  <2>2. \A q \in Process \ {p} : req'[q] = req[q]
    BY <1>10, <2>1 DEF Revoke, RevokeDone, Fail, Return
  <2>3. req'[p].at # "ban"
    <3>1. CASE Revoke(p)
      BY <2>1, <3>1 DEF Revoke, Progress
    <3>2. CASE Return(p)
      BY <2>1, <3>2 DEF Return, Idle, Started
    <3> QED  BY <1>10, <3>1, <3>2 DEF RevokeDone, Fail
  <2> QED  BY <2>1, <2>2, <2>3 DEF Tame
<1>11. ASSUME NEW a \in Account, RecordAntiCheat(a) PROVE Tame
  <2> DEFINE r == [Started("ban", "check") EXCEPT !.account = a]
  <2>1. r.at = "check"
    BY DEF Started
  <2>2. UNCHANGED req \/ Begin(Persister, r)
    BY <1>11 DEF RecordAntiCheat, AddAntiCheat
  <2>3. UNCHANGED <<bans, now>> /\ req \in [Process -> Progress] /\ Persister \in Process
    BY <1>11 DEF RecordAntiCheat, AddAntiCheat, Typed, TypeOK, Process
  <2> HIDE DEF r
  <2> QED  BY <2>1, <2>2, <2>3 DEF Tame, Begin
<1>12. CASE UNCHANGED vars
  BY <1>12 DEF vars, Tame
<1> QED
  BY <1>1, <1>4, <1>5, <1>6, <1>7, <1>8, <1>9, <1>10, <1>11, <1>12 DEF Next

LEMMA SingleInit == ASSUME Init PROVE Single
BY TypedInit, AccountsAssumption
   DEF Init, Single, Unbanned, OneSystemBan, Process, Idle, Started

LEMMA SingleStep == ASSUME Single, [Next]_vars PROVE Single'
<1>1. Typed /\ Typed' /\ Persister \in Process /\ Persister \notin Request
  BY TypedStep, AccountsAssumption DEF Single, Process
<1>2. ASSUME NEW p \in Request, LiftBans(p) PROVE Single'
  <2>1. UNCHANGED now /\ req'[Persister] = req[Persister]
    BY <1>1, <1>2 DEF LiftBans, Return, Typed, TypeOK
  <2>2. \A b \in bans' : InForce(b) => b \in bans
    <3>1. \A b \in BanRow : [b EXCEPT !.lifted = TRUE].lifted
      BY DEF BanRow
    <3> QED  BY <1>1, <1>2, <3>1 DEF LiftBans, InForce, Typed, TypeOK
  <2> QED  BY <1>1, <2>1, <2>2 DEF Single, Unbanned, OneSystemBan, InForce
<1>3. ASSUME NEW p \in Process, NEW forever \in BOOLEAN, BanAccount(p, forever) PROVE Single'
  <2> DEFINE new == [id |-> Cardinality(bans) + 1, account |-> req[p].account,
                     by |-> req[p].actor, forever |-> forever,
                     expires |-> IF forever THEN 0 ELSE now + BanTTL, lifted |-> FALSE]
  <2>1. /\ bans' = bans \union {new} /\ UNCHANGED now /\ req[p].at = "ban"
        /\ new.account = req[p].account /\ new.by = req[p].actor
    BY <1>3 DEF BanAccount, At
  <2> HIDE DEF new
  <2>2. /\ req'[p].at = "revoke" /\ \A q \in Process \ {p} : req'[q] = req[q]
    BY <1>1, <1>3 DEF BanAccount, Goto, Typed, TypeOK, Progress
  <2>3. CASE p = Persister
    BY <1>1, <2>1, <2>2, <2>3 DEF Single, Unbanned, OneSystemBan, InForce
  <2>4. CASE p \in Request
    <3>1. new.by # NoAccount
      BY <2>1, <2>4, AccountsAssumption DEF Single, Typed, Placed
    <3> QED  BY <1>1, <2>1, <2>2, <2>4, <3>1 DEF Single, Unbanned, OneSystemBan, InForce
  <2> QED  BY <2>3, <2>4 DEF Process
<1>4. CASE CheckBan
  <2>1. UNCHANGED <<bans, now>> /\ req[Persister] \in Progress
    BY <1>1, <1>4 DEF CheckBan, Typed, TypeOK
  <2>2. CASE Return(Persister)
    BY <1>1, <2>1, <2>2, TameStep DEF Return, Tame, Idle, Started, Typed, TypeOK
  <2>3. CASE ~ActiveBan(req[Persister].account) /\ Goto(Persister, "ban")
    <3>1. req'[Persister].account = req[Persister].account
      BY <1>1, <2>1, <2>3 DEF Goto, Typed, TypeOK, Progress
    <3>2. Unbanned'
      BY <2>1, <2>3, <3>1 DEF Unbanned, ActiveBan, InForce
    <3> QED  BY <1>1, <2>1, <3>2 DEF Single, OneSystemBan
  <2> QED  BY <1>4, <2>2, <2>3 DEF CheckBan
<1>5. CASE Tick
  <2>1. UNCHANGED <<bans, req>> /\ now' = now + 1 /\ now \in Nat
    BY <1>1, <1>5 DEF Tick, Typed, TypeOK
  <2>2. \A b \in bans : b.expires \in Nat
    BY <1>1 DEF Typed, TypeOK, BanRow
  <2>3. \A b \in bans : InForce(b)' => InForce(b)
    BY <2>1, <2>2 DEF InForce
  <2>4. Unbanned'
    BY <2>1, <2>3 DEF Single, Unbanned, InForce
  <2>5. OneSystemBan'
    BY <2>1, <2>2 DEF Single, OneSystemBan
  <2> QED  BY <1>1, <2>4, <2>5 DEF Single
<1> QED  BY <1>1, <1>2, <1>3, <1>4, <1>5, TameOrBan, TameStep

(* An account is never under two automatic bans at once, whatever          *)
(* moderators and requests do between autoBan's check and its insert. *)
THEOREM SystemBanIsSingle == Spec => []OneSystemBan
<1>1. Single => OneSystemBan
  BY DEF Single
<1> QED  BY <1>1, SingleInit, SingleStep, PTL DEF Spec

-----------------------------------------------------------------------------
(* Mailed tokens: a token that is spent is one request's, which changes    *)
(* the password, or confirms the address, once at most. *)

NumberedMail ==
    /\ \A r, s \in mail : r.id = s.id => r = s
    /\ \A r \in mail : r.id <= Cardinality(mail)
Resetting(a) == {p \in Process : req[p].at = "password" /\ req[p].account = a}
Confirmed(a) == Spent(a, "verify_email") # {}
Backed ==
    \A a \in Account :
       /\ IsFiniteSet(Resetting(a))
       /\ accounts[a].password + Cardinality(Resetting(a)) <= Cardinality(Spent(a, "password_reset"))
       /\ accounts[a].verified => Confirmed(a)
Confirming == \A p \in Process : req[p].at = "verified" => Confirmed(req[p].account)
Mailed == Typed /\ NumberedMail /\ Backed /\ Confirming

LEMMA SpentFinite ==
    ASSUME Typed, NEW a, NEW k
    PROVE  IsFiniteSet(Spent(a, k)) /\ Cardinality(Spent(a, k)) \in Nat
<1>1. Spent(a, k) \subseteq mail /\ IsFiniteSet(mail)
  BY DEF Spent, Typed, FiniteTables
<1> QED  BY <1>1, FS_Subset, FS_CardinalityType

(* A new token is not spent, and has a number of its own. *)
LEMMA MailAdded ==
    ASSUME Typed, NumberedMail, NEW a, NEW k, AddMail(a, k)
    PROVE  NumberedMail' /\ \A b, j : Spent(b, j)' = Spent(b, j)
<1> DEFINE new == [id |-> Cardinality(mail) + 1, account |-> a,
                   kind |-> k, expires |-> now + MailTTL, used |-> FALSE]
<1>1. /\ mail' = mail \union {new} /\ new.id = Cardinality(mail) + 1 /\ new.used = FALSE
  BY DEF AddMail
<1> HIDE DEF new
<1>2. IsFiniteSet(mail) /\ Cardinality(mail) \in Nat /\ \A r \in mail : r.id \in Nat
  BY FS_CardinalityType DEF Typed, TypeOK, FiniteTables, MailRow
<1>3. new \notin mail
  BY <1>1, <1>2 DEF NumberedMail
<1>4. Cardinality(mail') = Cardinality(mail) + 1
  BY <1>1, <1>2, <1>3, FS_AddElement
<1>5. NumberedMail'
  BY <1>1, <1>2, <1>4 DEF NumberedMail
<1> QED  BY <1>1, <1>5 DEF Spent

(* A token is spent once: it was not among the spent ones of its account   *)
(* and kind, and is. *)
LEMMA MailConsumed ==
    ASSUME Typed, NumberedMail, NEW row \in mail, NEW k, Consume(row, k)
    PROVE  /\ NumberedMail' /\ row.account \in Account
           /\ Cardinality(Spent(row.account, k)') = Cardinality(Spent(row.account, k)) + 1
           /\ Spent(row.account, k)' # {}
           /\ \A b, j : b # row.account \/ j # k => Spent(b, j)' = Spent(b, j)
<1> DEFINE new == [row EXCEPT !.used = TRUE]
           rest == mail \ {row}
<1>1. /\ row \in MailRow /\ row.kind = k /\ row.used = FALSE /\ mail' = rest \union {new}
  BY DEF Consume, Spendable, Typed, TypeOK, MailRow
<1>2. /\ new.id = row.id /\ new.account = row.account /\ new.kind = k /\ new.used = TRUE
      /\ row.account \in Account
  BY <1>1 DEF MailRow
<1> HIDE DEF new
<1>3. IsFiniteSet(mail) /\ Cardinality(mail) \in Nat /\ \A r \in mail : r.id \in Nat
  BY FS_CardinalityType DEF Typed, TypeOK, FiniteTables, MailRow
<1>4. new \notin mail
  BY <1>1, <1>2 DEF NumberedMail
<1>5. Cardinality(mail') = Cardinality(mail)
  <2>1. IsFiniteSet(rest) /\ Cardinality(rest) = Cardinality(mail) - 1
    BY <1>3, FS_RemoveElement
  <2>2. Cardinality(rest \union {new}) = Cardinality(rest) + 1
    BY <1>4, <2>1, FS_AddElement
  <2> QED  BY <1>1, <1>3, <2>1, <2>2
<1>6. NumberedMail'
  BY <1>1, <1>2, <1>5 DEF NumberedMail
<1>7. Spent(row.account, k)' = Spent(row.account, k) \union {new} /\ new \notin Spent(row.account, k)
  BY <1>1, <1>2, <1>4 DEF Spent
<1>8. Cardinality(Spent(row.account, k)') = Cardinality(Spent(row.account, k)) + 1
  BY <1>7, SpentFinite, FS_AddElement
<1>9. \A b, j : b # row.account \/ j # k => Spent(b, j)' = Spent(b, j)
  BY <1>1, <1>2 DEF Spent
<1> QED  BY <1>2, <1>6, <1>7, <1>8, <1>9

(* Steps that spend no token and do nothing a spent token is for. *)
Calm ==
    /\ UNCHANGED mail \/ \E a, k : AddMail(a, k)
    /\ \A a \in Account : /\ accounts'[a].password <= accounts[a].password
                          /\ accounts'[a].verified => accounts[a].verified
    /\ \A p \in Process : req'[p] = req[p] \/ req'[p].at \notin {"password", "verified"}

LEMMA CalmStep == ASSUME Mailed, Typed', Calm PROVE Mailed'
<1>1. NumberedMail' /\ \A b, j : Spent(b, j)' = Spent(b, j)
  <2>1. CASE UNCHANGED mail
    BY <2>1 DEF Mailed, NumberedMail, Spent
  <2>2. ASSUME NEW a, NEW k, AddMail(a, k) PROVE NumberedMail' /\ \A b, j : Spent(b, j)' = Spent(b, j)
    BY <2>2, MailAdded DEF Mailed
  <2> QED  BY <2>1, <2>2 DEF Calm
<1>2. ASSUME NEW a \in Account
      PROVE  /\ IsFiniteSet(Resetting(a)')
             /\ accounts'[a].password + Cardinality(Resetting(a)') <= Cardinality(Spent(a, "password_reset"))
  <2>1. Resetting(a)' \subseteq Resetting(a)
    BY DEF Calm, Resetting
  <2>2. IsFiniteSet(Resetting(a))
    BY DEF Mailed, Backed
  <2>3. /\ IsFiniteSet(Resetting(a)') /\ Cardinality(Resetting(a)') <= Cardinality(Resetting(a))
        /\ Cardinality(Resetting(a)') \in Nat /\ Cardinality(Resetting(a)) \in Nat
    BY <2>1, <2>2, FS_Subset, FS_CardinalityType
  <2>4. accounts[a].password \in Nat /\ accounts'[a].password \in Nat
    BY DEF Mailed, Typed, TypeOK, AccountRow
  <2>5. Cardinality(Spent(a, "password_reset")) \in Nat
    BY SpentFinite DEF Mailed
  <2> QED  BY <2>3, <2>4, <2>5 DEF Mailed, Backed, Calm
<1>3. \A a : Confirmed(a)' = Confirmed(a)
  BY <1>1 DEF Confirmed
<1>4. Backed'
  BY <1>1, <1>2, <1>3 DEF Mailed, Backed, Calm
<1>5. Confirming'
  BY <1>3 DEF Mailed, Confirming, Calm
<1> QED  BY <1>1, <1>4, <1>5 DEF Mailed

LEMMA StaysCalm ==
    ASSUME Typed, NEW p \in Process, UNCHANGED accounts,
           UNCHANGED mail \/ \E a, k : AddMail(a, k),
           UNCHANGED req \/ \E r : req' = [req EXCEPT ![p] = r] /\ r.at \notin {"password", "verified"}
    PROVE  Calm
<1>1. \A a \in Account : accounts[a].password \in Nat
  BY DEF Typed, TypeOK, AccountRow
<1> QED  BY <1>1 DEF Calm, Typed, TypeOK

LEMMA CalmOrSpent ==
    ASSUME Typed, [Next]_vars
    PROVE  \/ Calm
           \/ \E p \in Request, row \in mail : VerifyEmail(p, row) \/ ResetPassword(p, row)
           \/ \E p \in Request : SetEmailVerified(p) \/ UpdatePassword(p)
<1>1. ASSUME NEW p \in Process, Return(p), UNCHANGED <<accounts, mail>> PROVE Calm
  <2>1. Idle.at = "idle"
    BY DEF Idle, Started
  <2>2. req' = [req EXCEPT ![p] = Idle] /\ Idle.at \notin {"password", "verified"}
    BY <1>1, <2>1 DEF Return
  <2> QED  BY <1>1, <2>2, StaysCalm
<1>2. ASSUME NEW p \in Process, NEW call \in Call \ {"password", "verified"}, Goto(p, call),
             UNCHANGED accounts, UNCHANGED mail \/ \E a, k : AddMail(a, k)
      PROVE  Calm
  <2>1. req[p] \in Progress
    BY DEF Typed, TypeOK
  <2>2. req' = [req EXCEPT ![p] = [req[p] EXCEPT !.at = call]] /\ [req[p] EXCEPT !.at = call].at = call
    BY <1>2, <2>1 DEF Goto, Progress
  <2> QED  BY <1>2, <2>2, StaysCalm
<1>3. ASSUME NEW p \in Process, NEW r, r.at \notin {"password", "verified"}, Begin(p, r),
             UNCHANGED <<accounts, mail>>
      PROVE  Calm
  BY <1>3, StaysCalm DEF Begin
<1>4. ASSUME NEW p \in Request, NEW a \in Account
      PROVE  /\ \A email \in BOOLEAN : Register(p, a, email) => Calm
             /\ Login(p, a) \/ RequestPasswordReset(p, a) => Calm
  <2>1. ASSUME NEW email \in BOOLEAN, Register(p, a, email) PROVE Calm
    <3> DEFINE r == [Started("login", IF email THEN "send" ELSE "issue") EXCEPT !.account = a]
    <3>1. r.at \in {"send", "issue"} /\ req' = [req EXCEPT ![p] = r] /\ UNCHANGED mail
      BY <2>1 DEF Register, Begin, Started
    <3> HIDE DEF r
    <3>2. \A q \in Process : req'[q] = req[q] \/ req'[q].at \notin {"password", "verified"}
      BY <3>1 DEF Typed, TypeOK, Process
    <3>3. \A b \in Account : /\ accounts'[b].password <= accounts[b].password
                             /\ accounts'[b].verified => accounts[b].verified
      BY <2>1 DEF Register, CreateAccount, Typed, TypeOK, AccountRow
    <3> QED  BY <3>1, <3>2, <3>3 DEF Calm
  <2>2. ASSUME Login(p, a) PROVE Calm
    <3>1. [Started("login", "issue") EXCEPT !.account = a].at = "issue"
      BY DEF Started
    <3> QED  BY <1>3, <2>2, <3>1 DEF Login, Process
  <2>3. ASSUME RequestPasswordReset(p, a) PROVE Calm
    BY <2>3, StaysCalm DEF RequestPasswordReset, Process
  <2> QED  BY <2>1, <2>2, <2>3
<1>5. ASSUME NEW p \in Request, SendVerification(p) \/ Rotate(p) PROVE Calm
  <2>1. CASE SendVerification(p)
    BY <1>2, <2>1 DEF SendVerification, Process, Call
  <2>2. CASE Rotate(p)
    BY <1>2, <2>2 DEF Rotate, Process, Call
  <2> QED  BY <1>5, <2>1, <2>2
<1>6. ASSUME NEW p \in Request, IssueLogin(p) \/ RotateInsert(p) \/ LiftBans(p) PROVE Calm
  BY <1>1, <1>6 DEF IssueLogin, RotateInsert, LiftBans, Process
<1>7. ASSUME NEW p \in Request, NEW role \in Role, SetRole(p, role) PROVE Calm
  <2>1. \A b \in Account : /\ accounts'[b].password <= accounts[b].password
                           /\ accounts'[b].verified => accounts[b].verified
    BY <1>7 DEF SetRole, Typed, TypeOK, AccountRow
  <2>2. \A q \in Process : req'[q] = req[q] \/ req'[q].at \notin {"password", "verified"}
    BY <1>7 DEF SetRole, Return, Idle, Started, Typed, TypeOK, Process
  <2> QED  BY <1>7, <2>1, <2>2 DEF SetRole, Calm
<1>8. ASSUME NEW p \in Request, NEW row \in refresh, Refresh(p, row) \/ Logout(p, row) PROVE Calm
  <2> DEFINE reused == [Started("refresh", "revoke") EXCEPT !.family = row.family, !.account = row.account]
             good == [Started("refresh", "rotate") EXCEPT
                        !.row = row.id, !.family = row.family, !.account = row.account]
             out == [Started("logout", "revoke") EXCEPT !.family = row.family, !.account = row.account]
  <2>1. reused.at = "revoke" /\ good.at = "rotate" /\ out.at = "revoke"
    BY DEF Started
  <2>2. (Begin(p, reused) \/ Begin(p, good) \/ Begin(p, out)) /\ UNCHANGED <<accounts, mail>>
    BY <1>8 DEF Refresh, Logout
  <2> HIDE DEF reused, good, out
  <2> QED  BY <1>3, <2>1, <2>2 DEF Process
<1>9. ASSUME NEW p \in Request, NEW actor \in Account, NEW target \in Account,
             NEW op \in {"ban", "unban", "role"}, Moderate(p, actor, target, op)
      PROVE  Calm
  <2> DEFINE r == [Started(op, IF op = "unban" THEN "unban" ELSE "target") EXCEPT
                     !.account = target, !.actor = actor, !.rank = RoleRank[accounts[actor].role]]
  <2>1. r.at \in {"unban", "target"}
    BY DEF Started
  <2>2. Begin(p, r) /\ UNCHANGED <<accounts, mail>>
    BY <1>9 DEF Moderate
  <2> HIDE DEF r
  <2> QED  BY <1>3, <2>1, <2>2 DEF Process
<1>10. ASSUME NEW p \in Request, Target(p) PROVE Calm
  <2>1. p \in Process /\ UNCHANGED <<accounts, mail>> /\ req[p].at = "target"
    BY <1>10 DEF Target, At, Process
  <2>2. req[p].op \in {"ban", "role"}
    BY <2>1 DEF Typed, Placed
  <2>3. Goto(p, req[p].op) \/ Return(p)
    BY <1>10 DEF Target
  <2> QED  BY <1>1, <1>2, <2>1, <2>2, <2>3 DEF Call
<1>11. ASSUME NEW p \in Process, NEW forever \in BOOLEAN, BanAccount(p, forever) PROVE Calm
  BY <1>2, <1>11 DEF BanAccount, Call
<1>12. ASSUME NEW p \in Process, Revoke(p) \/ RevokeDone(p) \/ Fail(p) PROVE Calm
  <2>1. CASE Revoke(p)
    <3>1. req[p] \in Progress /\ UNCHANGED <<accounts, mail>>
      BY <2>1 DEF Revoke, Typed, TypeOK
    <3>2. \A q \in Process : req'[q] = req[q] \/ req'[q].at = "revoking"
      BY <2>1, <3>1 DEF Revoke, Typed, TypeOK, Progress
    <3>3. \A a \in Account : accounts[a].password \in Nat
      BY DEF Typed, TypeOK, AccountRow
    <3> QED  BY <3>1, <3>2, <3>3 DEF Calm
  <2>2. CASE RevokeDone(p) \/ Fail(p)
    BY <1>1, <2>2 DEF RevokeDone, Fail
  <2> QED  BY <1>12, <2>1, <2>2
<1>13. ASSUME NEW a \in Account, RecordAntiCheat(a) PROVE Calm
  <2> DEFINE r == [Started("ban", "check") EXCEPT !.account = a]
  <2>1. r.at = "check" /\ Persister \in Process
    BY DEF Started, Process
  <2>2. (UNCHANGED req \/ Begin(Persister, r)) /\ UNCHANGED <<accounts, mail>>
    BY <1>13 DEF RecordAntiCheat, AddAntiCheat
  <2> HIDE DEF r
  <2> QED  BY <2>1, <2>2, StaysCalm DEF Begin
<1>14. CASE CheckBan
  <2>1. (Return(Persister) \/ Goto(Persister, "ban")) /\ UNCHANGED <<accounts, mail>>
    BY <1>14 DEF CheckBan
  <2> QED  BY <1>1, <1>2, <2>1 DEF Process, Call
<1>15. CASE Tick \/ UNCHANGED vars
  <2>1. UNCHANGED <<accounts, mail, req>>
    BY <1>15 DEF Tick, vars
  <2> QED  BY <2>1, StaysCalm DEF Process
<1> QED
  BY <1>4, <1>5, <1>6, <1>7, <1>8, <1>9, <1>10, <1>11, <1>12, <1>13, <1>14, <1>15 DEF Next

LEMMA MailedInit == ASSUME Init PROVE Mailed
<1>1. Typed /\ mail = {} /\ \A p \in Process : req[p].at = "idle"
  BY TypedInit DEF Init, Idle, Started
<1>2. \A a : Resetting(a) = {} /\ Spent(a, "password_reset") = {}
  BY <1>1 DEF Resetting, Spent
<1>3. IsFiniteSet({}) /\ Cardinality({}) = 0
  BY FS_EmptySet
<1>4. \A a \in Account : accounts[a].password = 0 /\ accounts[a].verified = FALSE
  BY DEF Init
<1>5. Backed
  BY <1>2, <1>3, <1>4 DEF Backed
<1> QED  BY <1>1, <1>5 DEF Mailed, NumberedMail, Confirming

LEMMA MailedStep == ASSUME Mailed, [Next]_vars PROVE Mailed'
<1>1. /\ Typed /\ Typed' /\ NumberedMail
      /\ \A q \in Process : req[q] \in Progress /\ req'[q] \in Progress
      /\ \A a \in Account : accounts[a].password \in Nat
      /\ \A a, k : Cardinality(Spent(a, k)) \in Nat
      /\ \A a \in Account : IsFiniteSet(Resetting(a)) /\ Cardinality(Resetting(a)) \in Nat
  BY TypedStep, SpentFinite, FS_CardinalityType DEF Mailed, Backed, Typed, TypeOK, AccountRow
<1>2. ASSUME NEW p \in Request, NEW row \in mail, VerifyEmail(p, row) PROVE Mailed'
  <2> DEFINE r == [Started("verify", "verified") EXCEPT !.account = row.account]
  <2>1. r.at = "verified" /\ r.account = row.account
    BY DEF Started
  <2>2. /\ Consume(row, "verify_email") /\ UNCHANGED accounts /\ req[p].at = "idle"
        /\ req' = [req EXCEPT ![p] = r]
    BY <1>2 DEF VerifyEmail, Begin, At
  <2> HIDE DEF r
  <2>3. /\ NumberedMail' /\ \A a : Spent(a, "password_reset")' = Spent(a, "password_reset")
        /\ Spent(row.account, "verify_email")' # {}
        /\ \A a : a # row.account => Spent(a, "verify_email")' = Spent(a, "verify_email")
    BY <1>1, <2>2, MailConsumed
  <2>4. req'[p] = r /\ \A q \in Process \ {p} : req'[q] = req[q]
    BY <1>1, <2>2 DEF Typed, TypeOK, Process
  <2>5. \A a : Resetting(a)' = Resetting(a)
    BY <2>1, <2>2, <2>4 DEF Resetting
  <2>6. \A a : Confirmed(a) => Confirmed(a)'
    BY <2>3 DEF Confirmed
  <2>7. Backed'
    BY <2>2, <2>3, <2>5, <2>6 DEF Mailed, Backed
  <2>8. Confirming'
    BY <2>1, <2>3, <2>4, <2>6 DEF Mailed, Confirming, Confirmed
  <2> QED  BY <1>1, <2>3, <2>7, <2>8 DEF Mailed
<1>3. ASSUME NEW p \in Request, NEW row \in mail, ResetPassword(p, row) PROVE Mailed'
  <2> DEFINE r == [Started("reset", "password") EXCEPT !.account = row.account]
             owner == row.account
  <2>1. r.at = "password" /\ r.account = owner
    BY DEF Started
  <2>2. /\ Consume(row, "password_reset") /\ UNCHANGED accounts /\ req[p].at = "idle"
        /\ req' = [req EXCEPT ![p] = r] /\ p \in Process
    BY <1>3 DEF ResetPassword, Begin, At, Process
  <2> HIDE DEF r
  <2>3. /\ NumberedMail' /\ owner \in Account
        /\ Cardinality(Spent(owner, "password_reset")') = Cardinality(Spent(owner, "password_reset")) + 1
        /\ \A a, k : a # owner \/ k # "password_reset" => Spent(a, k)' = Spent(a, k)
    BY <1>1, <2>2, MailConsumed
  <2> HIDE DEF owner
  <2>4. req'[p] = r /\ \A q \in Process \ {p} : req'[q] = req[q]
    BY <1>1, <2>2 DEF Typed, TypeOK
  <2>5. Resetting(owner)' = Resetting(owner) \union {p} /\ p \notin Resetting(owner)
    BY <2>1, <2>2, <2>4 DEF Resetting
  <2>6. /\ IsFiniteSet(Resetting(owner)')
        /\ Cardinality(Resetting(owner)') = Cardinality(Resetting(owner)) + 1
    BY <1>1, <2>3, <2>5, FS_AddElement
  <2>7. \A a : a # owner => Resetting(a)' = Resetting(a)
    BY <2>1, <2>2, <2>4 DEF Resetting
  <2>8. \A a : Confirmed(a)' = Confirmed(a)
    BY <2>3 DEF Confirmed
  <2>9. ASSUME NEW a \in Account
        PROVE  /\ IsFiniteSet(Resetting(a)')
               /\ accounts'[a].password + Cardinality(Resetting(a)')
                    <= Cardinality(Spent(a, "password_reset")')
    <3>1. CASE a = owner
      BY <1>1, <2>2, <2>3, <2>6, <3>1 DEF Mailed, Backed
    <3>2. CASE a # owner
      BY <2>2, <2>3, <2>7, <3>2 DEF Mailed, Backed
    <3> QED  BY <3>1, <3>2
  <2>10. Backed'
    BY <2>2, <2>8, <2>9 DEF Mailed, Backed
  <2>11. Confirming'
    BY <2>1, <2>4, <2>8 DEF Mailed, Confirming
  <2> QED  BY <1>1, <2>3, <2>10, <2>11 DEF Mailed
<1>4. ASSUME NEW p \in Request, SetEmailVerified(p) PROVE Mailed'
  <2>0. p \in Process /\ req[p].at = "verified" /\ req[p].account \in Account
    BY <1>4 DEF SetEmailVerified, At, Process, Mailed, Typed, Placed
  <2> PICK owner \in Account : owner = req[p].account
    BY <2>0
  <2>1. /\ p \in Process /\ req[p].at = "verified" /\ UNCHANGED mail
        /\ accounts' = [accounts EXCEPT ![owner].verified = TRUE] /\ req' = [req EXCEPT ![p] = Idle]
    BY <1>4, <2>0 DEF SetEmailVerified, Return
  <2>2. owner \in Account /\ Confirmed(owner)
    BY <2>0 DEF Mailed, Confirming
  <2>3. \A a \in Account : /\ accounts'[a].password = accounts[a].password
                           /\ a # owner => accounts'[a].verified = accounts[a].verified
    BY <1>1, <2>1, <2>2 DEF Typed, TypeOK, AccountRow
  <2>4. \A a, k : Spent(a, k)' = Spent(a, k)
    BY <2>1 DEF Spent
  <2>5. Idle.at = "idle"
    BY DEF Idle, Started
  <2>6. \A q \in Process : req'[q] = IF q = p THEN Idle ELSE req[q]
    BY <1>1, <2>1 DEF Typed, TypeOK
  <2>7. \A a : Resetting(a)' = Resetting(a)
    BY <2>1, <2>5, <2>6 DEF Resetting
  <2>8. \A a : Confirmed(a)' = Confirmed(a)
    BY <2>4 DEF Confirmed
  <2>9. Backed'
    BY <2>2, <2>3, <2>4, <2>7, <2>8 DEF Mailed, Backed
  <2>10. Confirming'
    BY <2>5, <2>6, <2>8 DEF Mailed, Confirming
  <2> QED  BY <1>1, <2>1, <2>9, <2>10 DEF Mailed, NumberedMail
<1>5. ASSUME NEW p \in Request, UpdatePassword(p) PROVE Mailed'
  <2>0. p \in Process /\ req[p].at = "password" /\ req[p].account \in Account
    BY <1>5 DEF UpdatePassword, At, Process, Mailed, Typed, Placed
  <2> PICK owner \in Account : owner = req[p].account
    BY <2>0
  <2>1. /\ p \in Process /\ req[p].at = "password" /\ UNCHANGED mail
        /\ accounts' = [accounts EXCEPT ![owner].password = @ + 1]
        /\ req' = [req EXCEPT ![p].at = "revoke"]
    BY <1>5, <2>0 DEF UpdatePassword, Goto
  <2>2. owner \in Account /\ p \in Resetting(owner)
    BY <2>0 DEF Resetting
  <2>3. /\ accounts'[owner].password = accounts[owner].password + 1
        /\ \A a \in Account : /\ a # owner => accounts'[a].password = accounts[a].password
                              /\ accounts'[a].verified = accounts[a].verified
    BY <1>1, <2>1, <2>2 DEF Typed, TypeOK, AccountRow
  <2>4. \A a, k : Spent(a, k)' = Spent(a, k)
    BY <2>1 DEF Spent
  <2>5. req'[p].at = "revoke" /\ \A q \in Process \ {p} : req'[q] = req[q]
    BY <1>1, <2>1 DEF Typed, TypeOK, Progress
  <2>6. Resetting(owner)' = Resetting(owner) \ {p}
    <3>1. p \notin Resetting(owner)'
      BY <2>5 DEF Resetting
    <3>2. \A q : q # p => (q \in Resetting(owner)' <=> q \in Resetting(owner))
      BY <2>5 DEF Resetting
    <3> QED  BY <3>1, <3>2
  <2>7. /\ IsFiniteSet(Resetting(owner)')
        /\ Cardinality(Resetting(owner)') = Cardinality(Resetting(owner)) - 1
    BY <1>1, <2>2, <2>6, FS_RemoveElement
  <2>8. \A a \in Account : a # owner => Resetting(a)' = Resetting(a)
    <3>1. \A a : a # owner => p \notin Resetting(a)
      BY <2>2 DEF Resetting
    <3> QED  BY <2>5, <3>1 DEF Resetting
  <2>9. \A a : Confirmed(a)' = Confirmed(a)
    BY <2>4 DEF Confirmed
  <2>10. ASSUME NEW a \in Account
         PROVE  /\ IsFiniteSet(Resetting(a)')
                /\ accounts'[a].password + Cardinality(Resetting(a)')
                     <= Cardinality(Spent(a, "password_reset")')
    <3>1. CASE a = owner
      <4>1. accounts[owner].password + Cardinality(Resetting(owner))
              <= Cardinality(Spent(owner, "password_reset"))
        BY <2>2 DEF Mailed, Backed
      <4>2. /\ accounts[owner].password \in Nat /\ Cardinality(Resetting(owner)) \in Nat
            /\ Cardinality(Spent(owner, "password_reset"))
                 = Cardinality(Spent(owner, "password_reset")')
        BY <1>1, <2>2, <2>4
      <4> QED  BY <2>3, <2>7, <3>1, <4>1, <4>2
    <3>2. CASE a # owner
      BY <2>3, <2>4, <2>8, <3>2 DEF Mailed, Backed
    <3> QED  BY <3>1, <3>2
  <2>11. Backed'
    BY <2>3, <2>9, <2>10 DEF Mailed, Backed
  <2>12. Confirming'
    BY <2>5, <2>9 DEF Mailed, Confirming
  <2> QED  BY <1>1, <2>1, <2>11, <2>12 DEF Mailed, NumberedMail
<1> QED  BY <1>1, <1>2, <1>3, <1>4, <1>5, CalmOrSpent, CalmStep

(* No mailed token is spent twice or for the other purpose, whatever       *)
(* requests race, fail or register accounts (ConsumeAccountToken,          *)
(* ResetPassword, VerifyEmail). *)
THEOREM MailIsSpentOnce == Spec => []MailSpentOnce
<1>1. ASSUME Mailed, NEW a \in Account
      PROVE  /\ accounts[a].password <= Cardinality(Spent(a, "password_reset"))
             /\ accounts[a].verified => Spent(a, "verify_email") # {}
  <2>1. /\ accounts[a].password \in Nat /\ Cardinality(Spent(a, "password_reset")) \in Nat
        /\ Cardinality(Resetting(a)) \in Nat
    BY <1>1, SpentFinite, FS_CardinalityType DEF Mailed, Backed, Typed, TypeOK, AccountRow
  <2> QED  BY <1>1, <2>1 DEF Mailed, Backed, Confirmed
<1>2. Mailed => MailSpentOnce
  BY <1>1 DEF MailSpentOnce
<1> QED  BY <1>2, MailedInit, MailedStep, PTL DEF Spec

=============================================================================
