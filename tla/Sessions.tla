----------------------------- MODULE Sessions -----------------------------
(***************************************************************************)
(* Accounts, refresh-token families, TOTP, password reset, invitations and *)
(* the administration of accounts: AuthService (auth/auth.service.ts),     *)
(* JwtStrategy, PermissionsGuard, the invite handlers (tenant/commands),   *)
(* updateUserStatus and updateUserRole (admin/admin.service.ts), and the   *)
(* browser's store (web/src/store/auth.ts).                                *)
(*                                                                         *)
(* A person stands for an e-mail address.  A request is a call c, split    *)
(* where the code awaits between a read and the write that rests on it.    *)
(* Passwords are versions.  A refresh token remembers the version its       *)
(* session was opened under, the one the login gave and the second factor. *)
(***************************************************************************)
EXTENDS Naturals, FiniteSets

CONSTANTS People, Roots,   \* Roots: accounts of the seed, SUPER_ADMIN
          Tokens,          \* refresh tokens that may be made
          Clients,         \* people whose own requests are followed
          Calls, NoCall, NoUser, NoToken,
          MaxFailed,       \* MAX_FAILED
          MaxPw,           \* password resets, per person
          MaxEdits,        \* changes made by administrators and invitations
          MaxCrashes,
          InviteRoles, AdminRoles, AdminStatuses,
          Scenarios        \* bound: the sets of routes that are used together

\* Groups of routes; "overlap" stands for clients that do not wait for an answer.
Routes == {"register", "invite", "admin", "tokens", "reset", "lock", "totp", "overlap"}

ASSUME SessionsAssumption ==
  /\ Roots \subseteq People /\ Roots # {} /\ Clients \subseteq People
  /\ Scenarios \subseteq SUBSET Routes
  /\ MaxFailed \in Nat \ {0} /\ MaxPw \in Nat /\ MaxEdits \in Nat /\ MaxCrashes \in Nat

VARIABLES user,            \* User rows
          token,           \* RefreshToken rows
          temp,            \* MFA temp tokens signed: person, purpose and the login's password
          invite,          \* TenantInvite by person
          shops,           \* people for whom registerMerchant made a Shop
          web,             \* browsers that hold an access token
          guesses,         \* wrong passwords compared since the last lock, reset or login
          reused,          \* families in which a reuse was detected
          cut,             \* people whose password reset was cut off by a crash
          call, edits, crashes,
          uses             \* the scenario

vars == <<user, token, temp, invite, shops, web, guesses, reused, cut, call, edits, crashes, uses>>

UserRole == {"CUSTOMER", "MERCHANT", "ADMIN", "SUPER_ADMIN"}

UserStatus == {"ACTIVE", "INACTIVE", "SUSPENDED", "PENDING_VERIFICATION"}

ASSUME RolesAssumption ==
  InviteRoles \subseteq UserRole /\ AdminRoles \subseteq UserRole /\ AdminStatuses \subseteq UserStatus

\* tfa: no secret, a secret not yet confirmed, or twoFactorEnabled.  verify and
\* reset: an e-mail or reset token is out.
UserRows ==
  [status : UserStatus, role : UserRole, pw : 0 .. MaxPw, failed : 0 .. MaxFailed - 1,
   locked : BOOLEAN, tfa : {"off", "setup", "on"}, verify : BOOLEAN, reset : BOOLEAN]

\* given: the token was sent to the client.  pw: the password when the session was
\* opened; login: the one that was typed, older when a temp token came in between.
RefreshTokenRows ==
  [user : People, family : Tokens, live : BOOLEAN, given : BOOLEAN, pw : 0 .. MaxPw,
   login : 0 .. MaxPw, role : UserRole, mfa : BOOLEAN]

InviteStates == {"none", "open", "expired", "accepted"}

Invites == [state : InviteStates, role : UserRole]

Steps == {"create", "shop", "fail", "finalize", "issue", "rotate", "retire", "kill", "revoke",
          "password", "revokeAll", "verifyEmail", "enable"}

\* seen: the User row the call read; t: the token it was given; new: the one it made.
CallRows ==
  [step : Steps, p : People, seen : UserRows, login : 0 .. MaxPw, mfa : BOOLEAN,
   t : Tokens \cup {NoToken}, new : Tokens \cup {NoToken}]

CallStates == CallRows \cup {NoCall}

ASSUME NothingAssumption ==
  NoUser \notin UserRows /\ NoCall \notin CallRows /\ NoToken \notin Tokens \cup RefreshTokenRows

IsAdminRole(r) == r \in {"ADMIN", "SUPER_ADMIN"}

Barred(u) == u.status \in {"SUSPENDED", "INACTIVE"}

Exists(p) == user[p] # NoUser

Live(t) == token[t] # NoToken /\ token[t].live

At(c, s) == call[c] # NoCall /\ call[c].step = s

\* A request about p may start: its earlier ones are over, unless clients overlap them.
MayStart(c, p) ==
  /\ call[c] = NoCall
  /\ "overlap" \in uses \/ \A d \in Calls : call[d] # NoCall => call[d].p # p

BeginWith(c, s, p, u, login, mfa, t) ==
  call' = [call EXCEPT ![c] =
             [step |-> s, p |-> p, seen |-> u, login |-> login, mfa |-> mfa, t |-> t,
              new |-> NoToken]]

Begin(c, s, p, u, mfa, t) == BeginWith(c, s, p, u, u.pw, mfa, t)

Goes(c, s) == call' = [call EXCEPT ![c].step = s]

Returns(c) == call' = [call EXCEPT ![c] = NoCall]

\* Rows that S does not name stay as they are.
Revoked(S) == [t \in Tokens |-> IF t \in S THEN [token[t] EXCEPT !.live = FALSE] ELSE token[t]]

NewUser(role, status, verify) ==
  [status |-> status, role |-> role, pw |-> 0, failed |-> 0, locked |-> FALSE,
   tfa |-> "off", verify |-> verify, reset |-> FALSE]

Init ==
  /\ user = [p \in People |->
               IF p \in Roots THEN [NewUser("SUPER_ADMIN", "ACTIVE", FALSE) EXCEPT !.tfa = "on"]
               ELSE NoUser]
  /\ token = [t \in Tokens |-> NoToken]
  /\ temp = {}
  /\ invite = [p \in People |-> [state |-> "none", role |-> "CUSTOMER"]]
  /\ shops = {} /\ web = {} /\ reused = {} /\ cut = {}
  /\ guesses = [p \in People |-> 0]
  /\ call = [c \in Calls |-> NoCall]
  /\ edits = 0 /\ crashes = 0
  /\ uses \in Scenarios

-----------------------------------------------------------------------------
(* Registration and the first token of a session                           *)

RegisterCustomer(c, p) ==
  /\ "register" \in uses
  /\ MayStart(c, p)
  /\ ~Exists(p)
  /\ Begin(c, "create", p, NewUser("CUSTOMER", "PENDING_VERIFICATION", TRUE), FALSE, NoToken)
  /\ UNCHANGED <<user, token, temp, invite, shops, web, guesses, reused, cut, edits, crashes, uses>>

\* The shop is made before the user, and stays when the user cannot be made.
RegisterMerchant(c, p) ==
  /\ "register" \in uses
  /\ MayStart(c, p)
  /\ ~Exists(p)
  /\ Begin(c, "shop", p, NewUser("MERCHANT", "PENDING_VERIFICATION", TRUE), FALSE, NoToken)
  /\ UNCHANGED <<user, token, temp, invite, shops, web, guesses, reused, cut, edits, crashes, uses>>

CreateShop(c) ==
  /\ At(c, "shop")
  /\ shops' = shops \cup {call[c].p}
  /\ Goes(c, "create")
  /\ UNCHANGED <<user, token, temp, invite, web, guesses, reused, cut, edits, crashes, uses>>

\* User.email is unique: the insert throws when the row is there by now.
CreateUser(c) ==
  /\ At(c, "create")
  /\ IF Exists(call[c].p)
       THEN Returns(c) /\ UNCHANGED user
       ELSE /\ user' = [user EXCEPT ![call[c].p] = call[c].seen]
            /\ Goes(c, "issue")
  /\ UNCHANGED <<token, temp, invite, shops, web, guesses, reused, cut, edits, crashes, uses>>

\* finishLogin and applySession: the browser keeps what it is sent.
FinishLogin(p) == web' = web \cup {p}

\* issueTokens: a new family.
IssueTokens(c) ==
  /\ At(c, "issue")
  /\ \E t \in Tokens : token[t] = NoToken
  /\ LET t == CHOOSE t \in Tokens : token[t] = NoToken
         p == call[c].p IN
       /\ token' = [token EXCEPT ![t] =
                      [user |-> p, family |-> t, live |-> TRUE, given |-> TRUE,
                       pw |-> call[c].seen.pw, login |-> call[c].login,
                       role |-> call[c].seen.role, mfa |-> call[c].mfa]]
       /\ FinishLogin(p)
  /\ Returns(c)
  /\ UNCHANGED <<user, temp, invite, shops, guesses, reused, cut, edits, crashes, uses>>

-----------------------------------------------------------------------------
(* login, verifyMfa                                                        *)

\* Mutant: a person of the administration whose TOTP is set up but not yet
\* enabled is let in without it.
SecondFactorSetup(u) ==
  IF u.tfa = "on" THEN "code" ELSE IF IsAdminRole(u.role) /\ u.tfa = "off" THEN "enroll" ELSE "none"

\* What a correct password still lacks (outside the demo configuration).
SecondFactor(u) ==
  IF u.tfa = "on" THEN "code" ELSE IF IsAdminRole(u.role) THEN "enroll" ELSE "none"

Purposes == {"mfa", "mfa_enroll"}

\* A JWT for five minutes: nothing takes it back, and one that has expired is one that
\* nobody presents any more.
SignMfaTempToken(p, purpose) == temp' = temp \cup {<<p, purpose, user[p].pw>>}

\* A token of the person, for one of the purposes a route allows; login is the
\* password it was signed for.
VerifyMfaTempToken(p, allowed, login) == \E purpose \in allowed : <<p, purpose, login>> \in temp

Login(c, p, correct, totp) ==
  /\ MayStart(c, p)
  /\ Exists(p)
  /\ ~user[p].locked
  /\ ~Barred(user[p])
  /\ LET need == SecondFactor(user[p]) IN
       \/ /\ ~correct /\ "lock" \in uses
          /\ guesses' = [guesses EXCEPT ![p] = @ + 1]
          /\ Begin(c, "fail", p, user[p], FALSE, NoToken)
          /\ UNCHANGED temp
       \/ /\ correct /\ (need = "none" \/ (need = "code" /\ totp))
          /\ Begin(c, "finalize", p, user[p], need = "code", NoToken)
          /\ UNCHANGED <<temp, guesses>>
       \/ /\ correct /\ ~totp /\ need # "none"
          /\ SignMfaTempToken(p, IF need = "enroll" THEN "mfa_enroll" ELSE "mfa")
          /\ UNCHANGED <<call, guesses>>
  /\ UNCHANGED <<user, token, invite, shops, web, reused, cut, edits, crashes, uses>>

\* Mutant: the lock comes one attempt late.
LoginFailedLate(c) ==
  /\ At(c, "fail")
  /\ LET n == call[c].seen.failed + 1 IN
       user' = [user EXCEPT ![call[c].p].failed = IF n > MaxFailed THEN 0 ELSE n % MaxFailed,
                            ![call[c].p].locked = @ \/ n > MaxFailed]
  /\ Returns(c)
  /\ UNCHANGED <<token, temp, invite, shops, web, guesses, reused, cut, edits, crashes, uses>>

\* Mutant: the count is not reset by the lock.
LoginFailedCounts(c) ==
  /\ At(c, "fail")
  /\ LET n == call[c].seen.failed + 1 IN
       user' = [user EXCEPT ![call[c].p].failed = n, ![call[c].p].locked = @ \/ n >= MaxFailed]
  /\ Returns(c)
  /\ UNCHANGED <<token, temp, invite, shops, web, guesses, reused, cut, edits, crashes, uses>>

\* The count is the one the call read, plus one.
LoginFailed(c) ==
  /\ At(c, "fail")
  /\ LET n == call[c].seen.failed + 1 IN
       user' = [user EXCEPT ![call[c].p].failed = IF n >= MaxFailed THEN 0 ELSE n,
                            ![call[c].p].locked = @ \/ n >= MaxFailed]
  /\ Returns(c)
  /\ UNCHANGED <<token, temp, invite, shops, web, guesses, reused, cut, edits, crashes, uses>>

\* lockedUntil passes.
LockExpires(p) ==
  /\ Exists(p) /\ user[p].locked
  /\ user' = [user EXCEPT ![p].locked = FALSE]
  /\ guesses' = [guesses EXCEPT ![p] = 0]
  /\ UNCHANGED <<token, temp, invite, shops, web, reused, cut, call, edits, crashes, uses>>

\* The token is for a code of an enabled factor: 'mfa_enroll' is refused.  Neither the
\* lock nor the status is looked at, nor whether the password has changed since.
VerifyMfa(c, p) ==
  /\ "totp" \in uses
  /\ MayStart(c, p)
  /\ \E login \in 0 .. MaxPw :
       /\ VerifyMfaTempToken(p, {"mfa"}, login)
       /\ user[p].tfa = "on"
       /\ BeginWith(c, "finalize", p, user[p], login, TRUE, NoToken)
  /\ UNCHANGED <<user, token, temp, invite, shops, web, guesses, reused, cut, edits, crashes, uses>>

FinalizeLogin(c) ==
  /\ At(c, "finalize")
  /\ user' = [user EXCEPT ![call[c].p].failed = 0, ![call[c].p].locked = FALSE]
  /\ guesses' = [guesses EXCEPT ![call[c].p] = 0]
  /\ Goes(c, "issue")
  /\ UNCHANGED <<token, temp, invite, shops, web, reused, cut, edits, crashes, uses>>

-----------------------------------------------------------------------------
(* refresh, logout                                                         *)

Family(f) == {t \in Tokens : token[t] # NoToken /\ token[t].family = f}

\* Mutant: a reuse revokes the token that was presented, not its family.
RevokeFamilyOne(c) ==
  /\ At(c, "kill")
  /\ token' = Revoked({call[c].t})
  /\ reused' = IF Live(call[c].t) THEN reused ELSE reused \cup {token[call[c].t].family}
  /\ Returns(c)
  /\ UNCHANGED <<user, temp, invite, shops, web, guesses, cut, edits, crashes, uses>>

\* The client may hold a token that was replaced long ago: what it lost or kept.
Refresh(c, t) ==
  /\ "tokens" \in uses
  /\ token[t] # NoToken /\ token[t].given
  /\ MayStart(c, token[t].user)
  /\ LET p == token[t].user IN
       \/ Begin(c, IF ~token[t].live \/ Barred(user[p]) THEN "kill" ELSE "rotate",
                p, user[p], token[t].mfa, t)
       \/ token[t].live /\ Begin(c, "revoke", p, user[p], FALSE, t)   \* expired
  /\ UNCHANGED <<user, token, temp, invite, shops, web, guesses, reused, cut, edits, crashes, uses>>

\* Reuse of a revoked token, or a barred user.
RevokeFamily(c) ==
  /\ At(c, "kill")
  /\ LET f == token[call[c].t].family IN
       /\ token' = Revoked(Family(f))
       /\ reused' = IF Live(call[c].t) THEN reused ELSE reused \cup {f}
  /\ Returns(c)
  /\ UNCHANGED <<user, temp, invite, shops, web, guesses, cut, edits, crashes, uses>>

RevokeExpired(c) ==
  /\ At(c, "revoke")
  /\ token' = Revoked({call[c].t})
  /\ Returns(c)
  /\ UNCHANGED <<user, temp, invite, shops, web, guesses, reused, cut, edits, crashes, uses>>

\* Mutant: the token that was exchanged stays valid.
RetireKeeps(c) ==
  /\ At(c, "retire")
  /\ token' = [token EXCEPT ![call[c].new].given = TRUE]
  /\ web' = web \cup {call[c].p}
  /\ Returns(c)
  /\ UNCHANGED <<user, temp, invite, shops, guesses, reused, cut, edits, crashes, uses>>

Rotate(c) ==
  /\ At(c, "rotate")
  /\ \E t \in Tokens : token[t] = NoToken
  /\ LET t == CHOOSE t \in Tokens : token[t] = NoToken IN
       /\ token' = [token EXCEPT ![t] = [token[call[c].t] EXCEPT !.live = TRUE, !.given = FALSE]]
       /\ call' = [call EXCEPT ![c].step = "retire", ![c].new = t]
  /\ UNCHANGED <<user, temp, invite, shops, web, guesses, reused, cut, edits, crashes, uses>>

Retire(c) ==
  /\ At(c, "retire")
  /\ token' = [token EXCEPT ![call[c].t].live = FALSE, ![call[c].new].given = TRUE]
  /\ web' = web \cup {call[c].p}
  /\ Returns(c)
  /\ UNCHANGED <<user, temp, invite, shops, guesses, reused, cut, edits, crashes, uses>>

\* POST /auth/logout with the token in the cookie or the body.
Logout(t) ==
  /\ "tokens" \in uses
  /\ Live(t) /\ token[t].given
  /\ token' = Revoked({t})
  /\ UNCHANGED <<user, temp, invite, shops, web, guesses, reused, cut, call, edits, crashes, uses>>

-----------------------------------------------------------------------------
(* E-mail verification, password reset, TOTP                               *)

VerifyEmail(c, p) ==
  /\ "register" \in uses
  /\ MayStart(c, p)
  /\ Exists(p) /\ user[p].verify
  /\ Begin(c, "verifyEmail", p, user[p], FALSE, NoToken)
  /\ UNCHANGED <<user, token, temp, invite, shops, web, guesses, reused, cut, edits, crashes, uses>>

\* The status written is decided from the row that was read.
WriteVerified(c) ==
  /\ At(c, "verifyEmail")
  /\ LET s == call[c].seen.status IN
       user' = [user EXCEPT ![call[c].p].verify = FALSE,
                            ![call[c].p].status = IF s = "PENDING_VERIFICATION" THEN "ACTIVE" ELSE s]
  /\ Returns(c)
  /\ UNCHANGED <<token, temp, invite, shops, web, guesses, reused, cut, edits, crashes, uses>>

RequestPasswordReset(p) ==
  /\ "reset" \in uses
  /\ Exists(p) /\ ~user[p].reset /\ user[p].pw < MaxPw
  /\ user' = [user EXCEPT ![p].reset = TRUE]
  /\ UNCHANGED <<token, temp, invite, shops, web, guesses, reused, cut, call, edits, crashes, uses>>

ConfirmPasswordReset(c, p) ==
  /\ MayStart(c, p)
  /\ Exists(p) /\ user[p].reset
  /\ Begin(c, "password", p, user[p], FALSE, NoToken)
  /\ UNCHANGED <<user, token, temp, invite, shops, web, guesses, reused, cut, edits, crashes, uses>>

WritePassword(c) ==
  /\ At(c, "password")
  /\ user' = [user EXCEPT ![call[c].p].pw = call[c].seen.pw + 1, ![call[c].p].reset = FALSE,
                          ![call[c].p].failed = 0, ![call[c].p].locked = FALSE]
  /\ guesses' = [guesses EXCEPT ![call[c].p] = 0]
  /\ Goes(c, "revokeAll")
  /\ UNCHANGED <<token, temp, invite, shops, web, reused, cut, edits, crashes, uses>>

\* Mutant: a reset ends the families' first tokens only.
RevokeAllFirst(c) ==
  /\ At(c, "revokeAll")
  /\ token' = Revoked({t \in Tokens : token[t] # NoToken /\ token[t].user = call[c].p
                                      /\ token[t].family = t})
  /\ Returns(c)
  /\ UNCHANGED <<user, temp, invite, shops, web, guesses, reused, cut, edits, crashes, uses>>

RevokeAll(c) ==
  /\ At(c, "revokeAll")
  /\ token' = Revoked({t \in Tokens : token[t] # NoToken /\ token[t].user = call[c].p})
  /\ Returns(c)
  /\ UNCHANGED <<user, temp, invite, shops, web, guesses, reused, cut, edits, crashes, uses>>

\* setupTotpWithTemp and enableTotpWithTemp take any temp token; /auth/2fa/* an access token.
MayEnroll(p) ==
  /\ Exists(p)
  /\ p \in web \/ \E login \in 0 .. MaxPw : VerifyMfaTempToken(p, Purposes, login)

Setup2fa(p) ==
  /\ "totp" \in uses
  /\ MayEnroll(p)
  /\ user[p].tfa # "setup"
  /\ user' = [user EXCEPT ![p].tfa = "setup"]
  /\ UNCHANGED <<token, temp, invite, shops, web, guesses, reused, cut, call, edits, crashes, uses>>

Enable2fa(c, p) ==
  /\ "totp" \in uses
  /\ MayStart(c, p)
  /\ MayEnroll(p)
  /\ user[p].tfa = "setup"
  /\ Begin(c, "enable", p, user[p], FALSE, NoToken)
  /\ UNCHANGED <<user, token, temp, invite, shops, web, guesses, reused, cut, edits, crashes, uses>>

WriteEnabled(c) ==
  /\ At(c, "enable")
  /\ user' = [user EXCEPT ![call[c].p].tfa = "on"]
  /\ Returns(c)
  /\ UNCHANGED <<token, temp, invite, shops, web, guesses, reused, cut, edits, crashes, uses>>

Disable2fa(p) ==
  /\ "totp" \in uses
  /\ p \in web /\ Exists(p)
  /\ ~IsAdminRole(user[p].role)
  /\ user[p].tfa # "off"
  /\ user' = [user EXCEPT ![p].tfa = "off"]
  /\ UNCHANGED <<token, temp, invite, shops, web, guesses, reused, cut, call, edits, crashes, uses>>

-----------------------------------------------------------------------------
(* Administration and invitations                                          *)

\* JwtStrategy.validate: the access token's user is read again.
JwtValidate(p) == Exists(p) /\ user[p].status = "ACTIVE"

\* RolesGuard and PermissionsGuard on the administration's routes.
CanAdminister(p) == JwtValidate(p) /\ IsAdminRole(user[p].role)

Edit == edits < MaxEdits /\ edits' = edits + 1

UpdateUserStatus(p, s) ==
  /\ "admin" \in uses
  /\ Edit
  /\ \E a \in People : CanAdminister(a)
  /\ Exists(p) /\ user[p].status # s
  /\ user' = [user EXCEPT ![p].status = s]
  /\ UNCHANGED <<token, temp, invite, shops, web, guesses, reused, cut, call, crashes, uses>>

ActiveSupers ==
  {p \in People : Exists(p) /\ user[p].role = "SUPER_ADMIN" /\ user[p].status = "ACTIVE"}

\* Mutant: the last one may be demoted.
UpdateUserRoleLast(p, r) ==
  /\ "admin" \in uses
  /\ Edit
  /\ \E a \in People : CanAdminister(a)
  /\ Exists(p) /\ user[p].role # r
  /\ user[p].role = "SUPER_ADMIN" => Cardinality(ActiveSupers) >= 1
  /\ user' = [user EXCEPT ![p].role = r]
  /\ UNCHANGED <<token, temp, invite, shops, web, guesses, reused, cut, call, crashes, uses>>

\* One administrator at a time: two that demote at once may leave none.
UpdateUserRole(p, r) ==
  /\ "admin" \in uses
  /\ Edit
  /\ \E a \in People : CanAdminister(a)
  /\ Exists(p) /\ user[p].role # r
  /\ user[p].role = "SUPER_ADMIN" => Cardinality(ActiveSupers) > 1
  /\ user' = [user EXCEPT ![p].role = r]
  /\ UNCHANGED <<token, temp, invite, shops, web, guesses, reused, cut, call, crashes, uses>>

CreateInvite(p, r) ==
  /\ "invite" \in uses
  /\ Edit
  /\ \E a \in People : CanAdminister(a)
  /\ ~Exists(p)
  /\ invite[p].state # "open"
  /\ invite' = [invite EXCEPT ![p] = [state |-> "open", role |-> r]]
  /\ UNCHANGED <<user, token, temp, shops, web, guesses, reused, cut, call, crashes, uses>>

\* One transaction; User.email is unique.
AcceptInvite(p) ==
  /\ invite[p].state = "open"
  /\ ~Exists(p)
  /\ user' = [user EXCEPT ![p] = NewUser(invite[p].role, "ACTIVE", FALSE)]
  /\ invite' = [invite EXCEPT ![p].state = "accepted"]
  /\ UNCHANGED <<token, temp, shops, web, guesses, reused, cut, call, edits, crashes, uses>>

InviteExpires(p) ==
  /\ invite[p].state = "open"
  /\ invite' = [invite EXCEPT ![p].state = "expired"]
  /\ UNCHANGED <<user, token, temp, shops, web, guesses, reused, cut, call, edits, crashes, uses>>

-----------------------------------------------------------------------------
(* The browser, and crashes                                                *)

\* refresh() of the store, on every page load: it asks /auth/me.
WebRefresh(p) ==
  /\ p \in web
  /\ web' = IF JwtValidate(p) THEN web ELSE web \ {p}
  /\ UNCHANGED <<user, token, temp, invite, shops, guesses, reused, cut, call, edits, crashes, uses>>

\* logout() of the store; also what an expired access token leads to.
WebLogout(p) ==
  /\ p \in web
  /\ web' = web \ {p}
  /\ UNCHANGED <<user, token, temp, invite, shops, guesses, reused, cut, call, edits, crashes, uses>>

\* The process stops; the client gets no answer.
Crash(c) ==
  /\ call[c] # NoCall
  /\ crashes < MaxCrashes
  /\ crashes' = crashes + 1
  /\ cut' = IF call[c].step = "revokeAll" THEN cut \cup {call[c].p} ELSE cut
  /\ Returns(c)
  /\ UNCHANGED <<user, token, temp, invite, shops, web, guesses, reused, edits, uses>>

\* The routes of AuthController.
AuthRoutes(c) ==
  \/ \E p \in Clients :
       \/ RegisterCustomer(c, p) \/ RegisterMerchant(c, p)
       \/ \E correct, totp \in BOOLEAN : Login(c, p, correct, totp)
       \/ VerifyMfa(c, p) \/ VerifyEmail(c, p) \/ ConfirmPasswordReset(c, p) \/ Enable2fa(c, p)
  \/ \E t \in Tokens : Refresh(c, t)

\* The awaits of a call that has begun.
Handler(c) ==
  \/ CreateShop(c) \/ CreateUser(c) \/ IssueTokens(c) \/ LoginFailed(c) \/ FinalizeLogin(c)
  \/ RevokeFamily(c) \/ RevokeExpired(c) \/ Rotate(c) \/ Retire(c)
  \/ WriteVerified(c) \/ WritePassword(c) \/ RevokeAll(c) \/ WriteEnabled(c)

Next ==
  \/ \E c \in Calls : AuthRoutes(c) \/ Handler(c) \/ Crash(c)
  \/ \E t \in Tokens : Logout(t)
  \/ \E p \in Clients :
       \/ RequestPasswordReset(p) \/ Setup2fa(p) \/ Disable2fa(p) \/ LockExpires(p)
       \/ WebRefresh(p) \/ WebLogout(p)
  \/ \E p \in People :
       \/ \E s \in AdminStatuses : UpdateUserStatus(p, s)
       \/ \E r \in AdminRoles : UpdateUserRole(p, r)
       \/ \E r \in InviteRoles : CreateInvite(p, r)
       \/ AcceptInvite(p) \/ InviteExpires(p)

Spec == Init /\ [][Next]_vars

-----------------------------------------------------------------------------
(* Properties                                                              *)

\* Every variable keeps its type; the failure count stays below MAX_FAILED.
TypeOK ==
  /\ user \in [People -> UserRows \cup {NoUser}]
  /\ token \in [Tokens -> RefreshTokenRows \cup {NoToken}]
  /\ temp \in SUBSET (People \X Purposes \X (0 .. MaxPw))
  /\ invite \in [People -> Invites]
  /\ shops \subseteq People /\ web \subseteq People /\ reused \subseteq Tokens /\ cut \subseteq People
  /\ guesses \in [People -> Nat]
  /\ call \in [Calls -> CallStates]
  /\ uses \in Scenarios
  /\ edits \in 0 .. MaxEdits /\ crashes \in 0 .. MaxCrashes

\* A client that sends one request at a time holds at most one valid token of a
\* family, although a rotation that crashed may have left a second one that
\* nobody was sent.
OneValidToken ==
  \A t, u \in Tokens :
    (/\ Live(t) /\ Live(u) /\ t # u /\ token[t].family = token[u].family
     /\ "overlap" \notin uses)
      => ~(token[t].given /\ token[u].given)

\* Once a replaced token was presented again no token of the family is valid
\* (refresh: "All sessions in this family revoked").
ReuseEndsFamily ==
  \A f \in reused : "overlap" \notin uses => \A t \in Family(f) : ~Live(t)

\* After a password reset no session that was opened before it is left, unless the
\* process stopped between the two writes; and one that was opened with the old
\* password after it came from an MFA temp token that the login had got before:
\* confirmPasswordReset revokes refresh tokens, and no temp token.
ResetEndsSessions ==
  \A t \in Tokens :
    LET p == token[t].user IN
    (Live(t) /\ "overlap" \notin uses) =>
      /\ \/ token[t].pw = user[p].pw
         \/ p \in cut
         \/ \E c \in Calls : At(c, "revokeAll") /\ call[c].p = p
      /\ \/ token[t].login = token[t].pw
         \/ token[t].mfa /\ VerifyMfaTempToken(p, {"mfa"}, token[t].login)

\* Between two locks, resets or logins at most MAX_FAILED wrong passwords are
\* compared (one more for a crash that loses a count): the account is locked, or about to be, when there have been so many.
LockBoundsGuesses ==
  "overlap" \notin uses => \A p \in Clients :
    /\ guesses[p] <= MaxFailed + crashes
    /\ guesses[p] = MaxFailed + crashes =>
         user[p].locked \/ \E c \in Calls : At(c, "fail") /\ call[c].p = p

\* A login as ADMIN or SUPER_ADMIN has used TOTP ("mandatory MFA"), and every
\* token of its family with it, also when logins overlap with enrolments, role
\* changes and resets.
AdminLoginsUseMfa ==
  \A t \in Tokens : (token[t] # NoToken /\ IsAdminRole(token[t].role)) => token[t].mfa

\* There is always a SUPER_ADMIN, although the check counts the active ones and
\* they may be suspended.
SomeSuperAdmin == \E p \in People : Exists(p) /\ user[p].role = "SUPER_ADMIN"

\* The tokens that are valid are those the user may have: one of each family, none after
\* a reuse, none of a session from before a password reset.
TokensHold == TypeOK /\ OneValidToken /\ ReuseEndsFamily /\ ResetEndsSessions

\* Accounts keep their protection: guesses are bounded, administrators have used TOTP,
\* and there is somebody who can appoint others.
AccountsHold == LockBoundsGuesses /\ AdminLoginsUseMfa /\ SomeSuperAdmin
=============================================================================
