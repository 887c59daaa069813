-------------------------------- MODULE Auth --------------------------------
(***************************************************************************)
(* AuthService on the users and refresh_tokens tables: registration, login *)
(* and the rotation of refresh tokens.  refresh looks the token up, revokes*)
(* it, looks its owner up and inserts a new one, in four statements.       *)
(* The user and the token inserted by request r have the fresh id r.       *)
(***************************************************************************)
EXTENDS Requests, Naturals

CONSTANTS AuthRequests,  \* requests to POST /auth/*
          Emails,
          Lifetime,      \* JWT_REFRESH_EXPIRATION, in ticks of the clock
          MaxTime        \* bound of the clock

ASSUME AuthAssumption ==
    /\ Nil \notin AuthRequests \cup Emails
    /\ Lifetime \in Nat
    /\ MaxTime \in Nat

VARIABLES user,      \* the users table: the email of each user
          token,     \* the refresh_tokens table
          now,       \* the clock
          authPc,    \* control state of each request
          authCall,  \* its operation, email and presented token
          session    \* the user it acts for and the expiry of its new token

authVars == <<user, token, now, authPc, authCall, session>>

TokenRow == [state   : {"absent", "live", "revoked"},
             user    : AuthRequests \cup {Nil},
             expires : Nat]

(* spent is a history field: the presented token was already revoked or    *)
(* past its expiry when the request was sent.                              *)
AuthOps == [op        : {"none", "register", "login", "refresh", "logout"},
            email     : Emails \cup {Nil},
            presented : AuthRequests \cup {Nil},
            spent     : BOOLEAN]

AuthSteps == {"findByEmail", "createUser", "findToken", "revokeExpired",
              "revoke", "findById", "createToken", "logout"}

(* What the code dereferences is there: a token has an owner, and a        *)
(* request past its lookup has found a user.                               *)
AuthTypeOK ==
    /\ user \in [AuthRequests -> Emails \cup {Nil}]
    /\ token \in [AuthRequests -> TokenRow]
    /\ now \in 0..MaxTime
    /\ authPc \in [AuthRequests -> {"idle"} \cup AuthSteps \cup Answers]
    /\ authCall \in [AuthRequests -> AuthOps]
    /\ session \in [AuthRequests -> [user : AuthRequests \cup {Nil}, expires : Nat]]
    /\ \A r \in AuthRequests :
          /\ token[r].state # "absent" => token[r].user # Nil
          /\ authPc[r] \in {"revoke", "findById", "createToken"} => session[r].user # Nil

AuthInit ==
    /\ user = [r \in AuthRequests |-> Nil]
    /\ token = [r \in AuthRequests |-> [state |-> "absent", user |-> Nil, expires |-> 0]]
    /\ now = 0
    /\ authPc = [r \in AuthRequests |-> "idle"]
    /\ authCall = [r \in AuthRequests |-> [op |-> "none", email |-> Nil,
                                           presented |-> Nil, spent |-> FALSE]]
    /\ session = [r \in AuthRequests |-> [user |-> Nil, expires |-> 0]]

----------------------------------------------------------------------------
AuthGoto(r, step) == authPc' = [authPc EXCEPT ![r] = step]
AuthReply(r, answer) == \E a \in Committed(answer) : AuthGoto(r, a)

(* The tokens a client can hold: those of an answer it received.  Any      *)
(* other string is a token of no row, written Nil.                         *)
Delivered == {k \in AuthRequests : token[k].state # "absent" /\ authPc[k] \in {"created", "ok"}}

Expired(k) == token[k].expires < now

Spent(k) == k # Nil => token[k].state = "revoked" \/ Expired(k)

BeginAuth(r, op, email, presented, step) ==
    /\ authPc[r] = "idle"
    /\ authCall' = [authCall EXCEPT ![r] =
                      [op |-> op, email |-> email, presented |-> presented,
                       spent |-> op = "refresh" /\ Spent(presented)]]
    /\ AuthGoto(r, step)
    /\ UNCHANGED <<user, token, now, session>>

Register(r) == \E e \in Emails : BeginAuth(r, "register", e, Nil, "findByEmail")
Login(r)    == \E e \in Emails : BeginAuth(r, "login", e, Nil, "findByEmail")
Refresh(r)  == \E k \in Delivered \cup {Nil} : BeginAuth(r, "refresh", Nil, k, "findToken")
Logout(r)   == \E k \in Delivered \cup {Nil} : BeginAuth(r, "logout", Nil, k, "logout")

(* generateTokens up to its INSERT: the expiry is computed when the user   *)
(* is known, and the row is written by CreateToken.                        *)
GenerateTokens(r, u) ==
    /\ session' = [session EXCEPT ![r] = [user |-> u, expires |-> now + Lifetime]]
    /\ AuthGoto(r, "createToken")

(* bcrypt.compare accepts or rejects the password of an existing user.     *)
FindByEmail(r) ==
    LET found == {u \in AuthRequests : user[u] = authCall[r].email}
    IN  /\ authPc[r] = "findByEmail"
        /\ \/ /\ authCall[r].op = "register"
              /\ AuthGoto(r, IF found # {} THEN "conflict" ELSE "createUser")
              /\ UNCHANGED session
           \/ /\ authCall[r].op = "login"
              /\ AuthGoto(r, "unauthorized")
              /\ UNCHANGED session
           \/ /\ authCall[r].op = "login"
              /\ \E u \in found : GenerateTokens(r, u)
        /\ UNCHANGED <<user, token, now, authCall>>

(* Faulty variants: users without the UNIQUE constraint on email, and an   *)
(* INSERT ... ON CONFLICT DO NOTHING.                                      *)
CreateUserUnchecked(r) ==
    /\ authPc[r] = "createUser"
    /\ user' = [user EXCEPT ![r] = authCall[r].email]
    /\ GenerateTokens(r, r)
    /\ UNCHANGED <<token, now, authCall>>

CreateUserOrIgnore(r) ==
    /\ authPc[r] = "createUser"
    /\ user' = IF \E u \in AuthRequests : user[u] = authCall[r].email
               THEN user ELSE [user EXCEPT ![r] = authCall[r].email]
    /\ GenerateTokens(r, r)
    /\ UNCHANGED <<token, now, authCall>>

CreateUser(r) ==
    LET taken == \E u \in AuthRequests : user[u] = authCall[r].email
    IN  /\ authPc[r] = "createUser"
        /\ \/ taken /\ AuthGoto(r, "duplicate") /\ UNCHANGED <<user, session>>
           \/ /\ ~taken
              /\ user' = [user EXCEPT ![r] = authCall[r].email]
              /\ GenerateTokens(r, r)
        /\ UNCHANGED <<token, now, authCall>>

(* Faulty variant: looking up the user without the id the token has.       *)
RememberNobody(r, k) == UNCHANGED session

RememberOwner(r, k) == session' = [session EXCEPT ![r].user = token[k].user]

(* Faulty variant: the SELECT without its condition on revoked.            *)
FindAnyToken(r) ==
    LET k == authCall[r].presented
    IN  /\ authPc[r] = "findToken"
        /\ \/ k = Nil /\ AuthGoto(r, "unauthorized") /\ UNCHANGED session
           \/ /\ k # Nil
              /\ RememberOwner(r, k)
              /\ AuthGoto(r, IF Expired(k) THEN "revokeExpired" ELSE "revoke")
        /\ UNCHANGED <<user, token, now, authCall>>

(* SELECT ... WHERE revoked = false, and the comparison with the clock.    *)
FindToken(r) ==
    LET k == authCall[r].presented
        found == k # Nil /\ token[k].state = "live"
    IN  /\ authPc[r] = "findToken"
        /\ \/ ~found /\ AuthGoto(r, "unauthorized") /\ UNCHANGED session
           \/ /\ found
              /\ RememberOwner(r, k)
              /\ AuthGoto(r, IF Expired(k) THEN "revokeExpired" ELSE "revoke")
        /\ UNCHANGED <<user, token, now, authCall>>

(* UPDATE ... SET revoked = true WHERE token = $1, of no row for Nil.      *)
Revoked(k) == [t \in AuthRequests |->
    IF t = k /\ token[t].state = "live" THEN [token[t] EXCEPT !.state = "revoked"]
                                        ELSE token[t]]

(* Faulty variant: leaving the revocation to the end of the rotation.      *)
RevokeNothing(r) ==
    /\ authPc[r] = "revoke"
    /\ AuthGoto(r, "findById")
    /\ UNCHANGED <<user, token, now, authCall, session>>

Revoke(r) ==
    /\ authPc[r] = "revoke"
    /\ token' = Revoked(authCall[r].presented)
    /\ AuthGoto(r, "findById")
    /\ UNCHANGED <<user, now, authCall, session>>

(* The last statement of an expired refresh and of a logout.               *)
RevokeExpired(r) ==
    /\ authPc[r] = "revokeExpired"
    /\ token' = Revoked(authCall[r].presented)
    /\ AuthReply(r, "unauthorized")
    /\ UNCHANGED <<user, now, authCall, session>>

LogoutToken(r) ==
    /\ authPc[r] = "logout"
    /\ token' = Revoked(authCall[r].presented)
    /\ AuthReply(r, "ok")
    /\ UNCHANGED <<user, now, authCall, session>>

FindById(r) ==
    /\ authPc[r] = "findById"
    /\ IF user[session[r].user] = Nil
       THEN AuthGoto(r, "unauthorized") /\ UNCHANGED session
       ELSE GenerateTokens(r, session[r].user)
    /\ UNCHANGED <<user, token, now, authCall>>

CreateToken(r) ==
    /\ authPc[r] = "createToken"
    /\ token' = [token EXCEPT ![r] = [state   |-> "live",
                                      user    |-> session[r].user,
                                      expires |-> session[r].expires]]
    /\ AuthReply(r, IF authCall[r].op = "register" THEN "created" ELSE "ok")
    /\ UNCHANGED <<user, now, authCall, session>>

FailAuth(r) ==
    /\ authPc[r] \in AuthSteps
    /\ AuthGoto(r, "failed")
    /\ UNCHANGED <<user, token, now, authCall, session>>

Tick ==
    /\ now < MaxTime
    /\ now' = now + 1
    /\ UNCHANGED <<user, token, authPc, authCall, session>>

AuthWork(r) ==
    \/ FindByEmail(r) \/ CreateUser(r) \/ FindToken(r) \/ Revoke(r) \/ RevokeExpired(r)
    \/ FindById(r) \/ CreateToken(r) \/ LogoutToken(r)

AuthStep(r) ==
    \/ Register(r) \/ Login(r) \/ Refresh(r) \/ Logout(r)
    \/ AuthWork(r) \/ FailAuth(r)

AuthNext == (\E r \in AuthRequests : AuthStep(r)) \/ Tick

AuthDone == (\A r \in AuthRequests : authPc[r] \in Answers) /\ UNCHANGED authVars

AuthSafety == AuthInit /\ [][AuthNext \/ AuthDone]_authVars

----------------------------------------------------------------------------
(* No email has two users, whichever registrations pass findByEmail while  *)
(* another one hashes its password.                                        *)
UniqueEmails ==
    \A u, v \in AuthRequests : user[u] # Nil /\ user[u] = user[v] => u = v

(* Rotation: from the moment a refresh looks up the owner, and for as long *)
(* as the token it issued exists, the token it was sent is revoked.  A     *)
(* refresh that fails half-way leaves no second usable token behind.       *)
RotationRevokesParent ==
    \A r \in AuthRequests :
        authCall[r].op = "refresh"
            /\ (authPc[r] \in {"findById", "createToken"} \/ token[r].state # "absent")
        => authCall[r].presented # Nil /\ token[authCall[r].presented].state = "revoked"

(* A token that was revoked, by a logout or an exchange, or had expired    *)
(* before a refresh was sent is never exchanged by it, whatever else runs. *)
(* Two exchanges of one token are therefore only possible if both were     *)
(* sent before either revoked it.                                          *)
SpentTokenBuysNothing ==
    \A r \in AuthRequests : authCall[r].spent => token[r].state = "absent"

(* Accounts and sessions never get mixed up.  Whoever an exchange or a     *)
(* lookup raced with, a token belongs to an account that exists: the one   *)
(* with the email that was sent or, along any chain of refreshes, the owner*)
(* of the token that was presented.  A client that was told so has such a  *)
(* token, and an email that was refused is that of an account, be it one   *)
(* whose registration failed half-way, so that a login will find it.       *)
ActsFor(r, u) ==
    /\ u # Nil /\ user[u] # Nil
    /\ IF authCall[r].op = "refresh"
       THEN authCall[r].presented # Nil /\ token[authCall[r].presented].user = u
       ELSE user[u] = authCall[r].email

SessionsKeepTheirOwner ==
    \A r \in AuthRequests :
        /\ token[r].state # "absent" => ActsFor(r, token[r].user)
        /\ authPc[r] \in {"created", "ok"} /\ authCall[r].op # "logout" => token[r].state # "absent"
        /\ authPc[r] \in {"conflict", "duplicate"} => \E u \in AuthRequests : user[u] = authCall[r].email

(* README.md documents /auth/refresh as "Rotate refresh token": a token is *)
(* replaced by one token.  Two refreshes that find it before either        *)
(* revokes it both issue one.                                              *)
TokenReplacedOnce ==
    \A q, r \in AuthRequests :
        /\ authCall[q].op = "refresh" /\ token[q].state # "absent"
        /\ authCall[r].op = "refresh" /\ token[r].state # "absent"
        /\ authCall[q].presented = authCall[r].presented
        => q = r

=============================================================================
