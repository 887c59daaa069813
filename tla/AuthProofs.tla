----------------------------- MODULE AuthProofs -----------------------------
(***************************************************************************)
(* Proofs about Auth for every set of requests and emails, every lifetime  *)
(* of a token and every run of the clock.                                  *)
(***************************************************************************)
EXTENDS Auth, TLAPS

----------------------------------------------------------------------------
(* Type correctness.                                                       *)

LEMMA AuthInitTyped == AuthInit => AuthTypeOK
  BY AuthAssumption DEF AuthInit, AuthTypeOK, TokenRow, AuthOps

(* A request that reaches generateTokens does so for a user.               *)
LEMMA TokensForUser ==
  ASSUME AuthTypeOK, NEW r \in AuthRequests, NEW u \in AuthRequests, GenerateTokens(r, u)
  PROVE  /\ session' \in [AuthRequests -> [user : AuthRequests \cup {Nil}, expires : Nat]]
         /\ authPc' \in [AuthRequests -> {"idle"} \cup AuthSteps \cup Answers]
         /\ \A q \in AuthRequests :
               authPc'[q] \in {"revoke", "findById", "createToken"} => session'[q].user # Nil
<1> DEFINE new == [user |-> u, expires |-> now + Lifetime]
<1>1. new \in [user : AuthRequests \cup {Nil}, expires : Nat] /\ new.user # Nil
  BY AuthAssumption DEF AuthTypeOK
<1>2. session' = [session EXCEPT ![r] = new] /\ authPc' = [authPc EXCEPT ![r] = "createToken"]
  BY DEF GenerateTokens, AuthGoto
<1> HIDE DEF new
<1>3. QED
  BY <1>1, <1>2 DEF AuthTypeOK, AuthSteps

LEMMA AuthStepTyped ==
  ASSUME AuthTypeOK, [AuthNext \/ AuthDone]_authVars
  PROVE  AuthTypeOK'
<1> USE AuthAssumption DEF AuthTypeOK, AuthSteps, Answers, AuthGoto, AuthReply, Committed
<1>1. CASE UNCHANGED authVars
  BY <1>1 DEF authVars, TokenRow, AuthOps
<1>2. CASE AuthDone
  BY <1>2 DEF AuthDone, authVars
<1>3. CASE Tick
  BY <1>3 DEF Tick
<1>4. ASSUME NEW r \in AuthRequests, AuthStep(r)
      PROVE  AuthTypeOK'
  <2>1. ASSUME NEW op \in {"register", "login", "refresh", "logout"},
               NEW email \in Emails \cup {Nil}, NEW presented \in AuthRequests \cup {Nil},
               NEW step \in {"findByEmail", "findToken", "logout"},
               BeginAuth(r, op, email, presented, step)
        PROVE  AuthTypeOK'
    <3>1. [op |-> op, email |-> email, presented |-> presented,
           spent |-> op = "refresh" /\ Spent(presented)] \in AuthOps
      BY DEF AuthOps
    <3>2. QED
      BY <2>1, <3>1 DEF BeginAuth
  <2>2. CASE Register(r)
    BY <2>1, <2>2 DEF Register
  <2>3. CASE Login(r)
    BY <2>1, <2>3 DEF Login
  <2>4. CASE Refresh(r)
    BY <2>1, <2>4 DEF Refresh, Delivered
  <2>5. CASE Logout(r)
    BY <2>1, <2>5 DEF Logout, Delivered
  <2>6. CASE FindByEmail(r)
    <3>1. CASE UNCHANGED session /\ \E a \in {"conflict", "createUser", "unauthorized"} :
                                      AuthGoto(r, a)
      BY <2>6, <3>1 DEF FindByEmail
    <3>2. CASE \E u \in AuthRequests : GenerateTokens(r, u)
      BY <2>6, <3>2, TokensForUser DEF FindByEmail
    <3>3. QED
      BY <2>6, <3>1, <3>2 DEF FindByEmail
  <2>7. CASE CreateUser(r)
    <3>1. user' \in [AuthRequests -> Emails \cup {Nil}]
      BY <2>7 DEF CreateUser, AuthOps
    <3>2. CASE UNCHANGED session /\ AuthGoto(r, "duplicate")
      BY <2>7, <3>1, <3>2 DEF CreateUser
    <3>3. CASE GenerateTokens(r, r)
      BY <2>7, <3>1, <3>3, TokensForUser DEF CreateUser
    <3>4. QED
      BY <2>7, <3>2, <3>3 DEF CreateUser
  <2>8. CASE FindToken(r)
    <3> DEFINE k == authCall[r].presented
    <3>1. CASE AuthGoto(r, "unauthorized") /\ UNCHANGED session
      BY <2>8, <3>1 DEF FindToken
    <3>2. CASE /\ k # Nil /\ token[k].state = "live"
               /\ RememberOwner(r, k)
               /\ AuthGoto(r, IF Expired(k) THEN "revokeExpired" ELSE "revoke")
      <4>1. k \in AuthRequests
        BY <3>2 DEF AuthOps
      <4>2. token[k].user \in AuthRequests
        BY <3>2, <4>1 DEF TokenRow
      <4> HIDE DEF k
      <4>3. session' = [session EXCEPT ![r].user = token[k].user]
        BY <3>2 DEF RememberOwner
      <4>4. session' \in [AuthRequests -> [user : AuthRequests \cup {Nil}, expires : Nat]]
        BY <4>2, <4>3
      <4>5. session'[r].user # Nil
        BY <4>2, <4>3
      <4>6. QED
        BY <2>8, <3>2, <4>3, <4>4, <4>5 DEF FindToken
    <3>3. QED
      BY <2>8, <3>1, <3>2 DEF FindToken
  <2>9. CASE Revoke(r)
    BY <2>9 DEF Revoke, Revoked, TokenRow
  <2>10. CASE RevokeExpired(r)
    BY <2>10 DEF RevokeExpired, Revoked, TokenRow
  <2>11. CASE FindById(r)
    BY <2>11 DEF FindById, GenerateTokens
  <2>12. CASE CreateToken(r)
    BY <2>12 DEF CreateToken, TokenRow
  <2>13. CASE LogoutToken(r)
    BY <2>13 DEF LogoutToken, Revoked, TokenRow
  <2>14. CASE FailAuth(r)
    BY <2>14 DEF FailAuth
  <2>15. QED
    BY <1>4, <2>2, <2>3, <2>4, <2>5, <2>6, <2>7, <2>8, <2>9, <2>10, <2>11, <2>12,
       <2>13, <2>14 DEF AuthStep, AuthWork
<1>5. QED
  BY <1>1, <1>2, <1>3, <1>4 DEF AuthNext

(* What the service dereferences is always there: every stored token has   *)
(* an owner, and every request past its lookup has found a user.           *)
THEOREM AuthTyped == AuthSafety => []AuthTypeOK
<1>1. AuthInit => AuthTypeOK
  BY AuthInitTyped
<1>2. AuthTypeOK /\ [AuthNext \/ AuthDone]_authVars => AuthTypeOK'
  BY AuthStepTyped
<1>3. QED
  BY <1>1, <1>2, PTL DEF AuthSafety

----------------------------------------------------------------------------
(* The inductive invariant behind the safety properties.                   *)

(* A request that has not been answered has inserted no token.             *)
NoTokenBeforeAnswer ==
    \A r \in AuthRequests :
        authPc[r] \in {"idle"} \cup AuthSteps => token[r].state = "absent"

(* A token that is presented exists, and the steps after the lookup have   *)
(* one.                                                                    *)
PresentedExists ==
    \A r \in AuthRequests :
        /\ authCall[r].presented # Nil => token[authCall[r].presented].state # "absent"
        /\ authPc[r] \in {"revoke", "findById"} => authCall[r].presented # Nil
        /\ authPc[r] \in {"findByEmail", "createUser"} => authCall[r].op # "refresh"

(* A refresh of a spent token never gets past the lookup of the token.     *)
SpentIsTurnedAway ==
    \A r \in AuthRequests : authCall[r].spent =>
        /\ authPc[r] \in {"findToken", "revokeExpired", "unauthorized", "failed"}
        /\ token[r].state = "absent"
        /\ Spent(authCall[r].presented)

AuthInv ==
    /\ AuthTypeOK
    /\ UniqueEmails
    /\ NoTokenBeforeAnswer
    /\ PresentedExists
    /\ RotationRevokesParent
    /\ SpentIsTurnedAway

LEMMA AuthInitInv == AuthInit => AuthInv
<1> SUFFICES ASSUME AuthInit PROVE AuthInv
  OBVIOUS
<1>1. AuthTypeOK
  BY AuthInitTyped
<1>2. QED
  BY <1>1 DEF AuthInit, AuthInv, UniqueEmails, NoTokenBeforeAnswer, PresentedExists,
     RotationRevokesParent, SpentIsTurnedAway

LEMMA UniqueEmailsStep ==
  ASSUME AuthInv, [AuthNext \/ AuthDone]_authVars
  PROVE  UniqueEmails'
<1> USE AuthAssumption DEF AuthInv, AuthTypeOK, UniqueEmails
<1>1. CASE UNCHANGED user
  BY <1>1
<1>2. ASSUME NEW r \in AuthRequests, CreateUser(r)
      PROVE  UniqueEmails'
  BY <1>2 DEF CreateUser
<1>3. QED
  BY <1>1, <1>2 DEF AuthNext, AuthStep, AuthWork, AuthDone, Tick, authVars, BeginAuth,
     Register, Login, Refresh, Logout, FindByEmail, FindToken, Revoke, RevokeExpired,
     FindById, CreateToken, LogoutToken, FailAuth

(* What a step may do to the tokens: revoke them, and insert the token of  *)
(* a request that is being answered.                                       *)
LEMMA TokenStep ==
  ASSUME AuthTypeOK, NoTokenBeforeAnswer, [AuthNext \/ AuthDone]_authVars,
         NEW k \in AuthRequests
  PROVE  /\ token[k].state # "absent" =>
               /\ token'[k].state # "absent"
               /\ token'[k].expires = token[k].expires /\ token'[k].user = token[k].user
         /\ token[k].state = "revoked" => token'[k].state = "revoked"
         /\ token[k].state = "absent" /\ token'[k].state # "absent" =>
               authPc[k] = "createToken" /\ authPc'[k] \in {"created", "ok", "failed"}
<1> USE DEF AuthTypeOK
<1>1. CASE UNCHANGED token
  BY <1>1
<1>2. ASSUME NEW p \in AuthRequests \cup {Nil}, token' = Revoked(p)
      PROVE  \/ token'[k] = token[k]
             \/ token[k].state = "live" /\ token'[k] = [token[k] EXCEPT !.state = "revoked"]
  BY <1>2 DEF Revoked
<1>3. CASE \E r \in AuthRequests : Revoke(r) \/ RevokeExpired(r) \/ LogoutToken(r)
  BY <1>2, <1>3 DEF Revoke, RevokeExpired, LogoutToken, AuthOps, TokenRow
<1>4. ASSUME NEW r \in AuthRequests, CreateToken(r)
      PROVE  \/ token'[k] = token[k]
             \/ /\ token[k].state = "absent"
                /\ authPc[k] = "createToken"
                /\ authPc'[k] \in {"created", "ok", "failed"}
  BY <1>4 DEF CreateToken, NoTokenBeforeAnswer, AuthSteps, AuthReply, AuthGoto, Committed
<1>5. QED
  BY <1>1, <1>3, <1>4 DEF AuthNext, AuthStep, AuthWork, AuthDone, Tick, authVars, BeginAuth,
     Register, Login, Refresh, Logout, FindByEmail, CreateUser, FindToken, FindById, FailAuth

(* What a step may do to a request: send it, answer it, which is final, or *)
(* take it to its next statement.                                          *)
LEMMA RequestStep ==
  ASSUME AuthTypeOK, [AuthNext \/ AuthDone]_authVars, NEW q \in AuthRequests
  PROVE  /\ authPc[q] # "idle" => authCall'[q] = authCall[q]
         /\ \/ authPc'[q] = authPc[q] /\ authCall'[q] = authCall[q]
            \/ /\ authPc[q] = "idle" /\ authPc'[q] \in {"findByEmail", "findToken", "logout"}
               /\ Register(q) \/ Login(q) \/ Refresh(q) \/ Logout(q)
            \/ /\ authPc[q] \in AuthSteps /\ authPc'[q] \in Answers
               /\ authPc[q] \in {"findToken", "revokeExpired"} =>
                     authPc'[q] \in {"unauthorized", "failed"}
            \/ /\ authPc[q] \in {"findByEmail", "createUser"}
               /\ authPc'[q] \in {"createUser", "createToken"}
            \/ /\ authPc[q] = "findToken"
               /\ authPc'[q] \in {"revokeExpired", "revoke"}
               /\ authCall[q].presented # Nil
               /\ token[authCall[q].presented].state = "live"
               /\ Expired(authCall[q].presented) => authPc'[q] = "revokeExpired"
            \/ /\ authPc[q] = "revoke" /\ authPc'[q] = "findById"
               /\ token' = Revoked(authCall[q].presented)
            \/ authPc[q] = "findById" /\ authPc'[q] = "createToken"
<1> USE DEF AuthTypeOK, AuthSteps, Answers, Committed, AuthReply, AuthGoto
<1>1. CASE UNCHANGED authVars \/ AuthDone \/ Tick
  BY <1>1 DEF AuthDone, Tick, authVars
<1>2. ASSUME NEW r \in AuthRequests, AuthStep(r), q # r
      PROVE  authPc'[q] = authPc[q] /\ authCall'[q] = authCall[q]
  BY <1>2 DEF AuthStep, AuthWork, BeginAuth, Register, Login, Refresh, Logout, FindByEmail,
     CreateUser, FindToken, Revoke, RevokeExpired, FindById, CreateToken, LogoutToken,
     FailAuth, GenerateTokens
<1>3. CASE Register(q) \/ Login(q) \/ Refresh(q) \/ Logout(q)
  BY <1>3 DEF BeginAuth, Register, Login, Refresh, Logout
<1>4. CASE FindByEmail(q) \/ CreateUser(q) \/ FindById(q)
  BY <1>4 DEF FindByEmail, CreateUser, FindById, GenerateTokens
<1>5. CASE FindToken(q)
  BY <1>5 DEF FindToken
<1>6. CASE Revoke(q)
  BY <1>6 DEF Revoke
<1>7. CASE RevokeExpired(q) \/ CreateToken(q) \/ LogoutToken(q) \/ FailAuth(q)
  BY <1>7 DEF RevokeExpired, CreateToken, LogoutToken, FailAuth
<1>8. QED
  BY <1>1, <1>2, <1>3, <1>4, <1>5, <1>6, <1>7 DEF AuthNext, AuthStep, AuthWork

LEMMA NoTokenStep ==
  ASSUME AuthInv, [AuthNext \/ AuthDone]_authVars
  PROVE  NoTokenBeforeAnswer'
<1> SUFFICES ASSUME NEW q \in AuthRequests, token'[q].state # "absent"
             PROVE  authPc'[q] \notin {"idle"} \cup AuthSteps
  BY DEF NoTokenBeforeAnswer
<1>1. CASE token[q].state # "absent"
  <2>1. authPc[q] \notin {"idle"} \cup AuthSteps
    BY <1>1 DEF AuthInv, NoTokenBeforeAnswer
  <2>2. authPc'[q] = authPc[q]
    BY <2>1, RequestStep DEF AuthInv, AuthSteps
  <2>3. QED
    BY <2>1, <2>2
<1>2. CASE token[q].state = "absent"
  BY <1>2, TokenStep DEF AuthInv, AuthTypeOK, AuthSteps
<1>3. QED
  BY <1>1, <1>2

LEMMA BeginCall ==
  ASSUME AuthTypeOK, NEW q \in AuthRequests, NEW op, NEW email, NEW presented, NEW step,
         BeginAuth(q, op, email, presented, step)
  PROVE  /\ authCall'[q].op = op /\ authCall'[q].email = email
         /\ authCall'[q].presented = presented
         /\ authCall'[q].spent => op = "refresh" /\ Spent(presented)
         /\ authPc'[q] = step
         /\ UNCHANGED <<token, now>>
<1> DEFINE new == [op |-> op, email |-> email, presented |-> presented,
                   spent |-> op = "refresh" /\ Spent(presented)]
<1>1. /\ new.op = op /\ new.email = email
      /\ new.presented = presented
      /\ new.spent => op = "refresh" /\ Spent(presented)
  OBVIOUS
<1> HIDE DEF new
<1>2. /\ authCall' = [authCall EXCEPT ![q] = new]
      /\ authPc' = [authPc EXCEPT ![q] = step]
      /\ UNCHANGED <<token, now>>
  BY DEF BeginAuth, AuthGoto, new
<1>3. authCall'[q] = new /\ authPc'[q] = step
  BY <1>2 DEF AuthTypeOK
<1>4. QED
  BY <1>1, <1>2, <1>3

(* What a request presents when it is sent, and whether that is spent.     *)
LEMMA SentWith ==
  ASSUME AuthTypeOK, [AuthNext \/ AuthDone]_authVars, NEW q \in AuthRequests,
         authPc[q] = "idle", authPc'[q] # "idle"
  PROVE  /\ authPc'[q] \in {"findByEmail", "findToken", "logout"}
         /\ \/ authCall'[q].presented = Nil
            \/ /\ authCall'[q].presented \in AuthRequests
               /\ token[authCall'[q].presented].state # "absent"
         /\ authPc'[q] = "findByEmail" => authCall'[q].op # "refresh"
         /\ authCall'[q].spent => authPc'[q] = "findToken" /\ Spent(authCall'[q].presented)
         /\ UNCHANGED <<token, now>>
<1>1. CASE Register(q) \/ Login(q)
  BY <1>1, BeginCall DEF Register, Login
<1>2. CASE Refresh(q)
  BY <1>2, BeginCall DEF Refresh, Delivered
<1>3. CASE Logout(q)
  BY <1>3, BeginCall DEF Logout, Delivered
<1>4. QED
  BY <1>1, <1>2, <1>3, RequestStep DEF AuthSteps

(* Tokens are never removed, so a presented token goes on existing.        *)
LEMMA PresentedStep ==
  ASSUME AuthInv, [AuthNext \/ AuthDone]_authVars
  PROVE  PresentedExists'
<1>1. AuthTypeOK /\ NoTokenBeforeAnswer /\ PresentedExists
  BY DEF AuthInv
<1> SUFFICES ASSUME NEW q \in AuthRequests
             PROVE  /\ authCall'[q].presented # Nil
                          => token'[authCall'[q].presented].state # "absent"
                    /\ authPc'[q] \in {"revoke", "findById"} => authCall'[q].presented # Nil
                    /\ authPc'[q] \in {"findByEmail", "createUser"}
                          => authCall'[q].op # "refresh"
  BY DEF PresentedExists
<1>2. CASE authPc[q] = "idle" /\ authPc'[q] # "idle"
  BY <1>1, <1>2, SentWith
<1>3. CASE authPc[q] # "idle" \/ authPc'[q] = "idle"
  <2>1. authCall[q].presented \in AuthRequests \cup {Nil}
    BY <1>1 DEF AuthTypeOK, AuthOps
  <2>2. authCall[q].presented # Nil => token'[authCall[q].presented].state # "absent"
    BY <1>1, <2>1, TokenStep DEF PresentedExists
  <2>3. authPc'[q] \in {"revoke", "findById"} => authCall[q].presented # Nil
    BY <1>1, <1>3, RequestStep DEF PresentedExists, Answers
  <2>4. authPc'[q] \in {"findByEmail", "createUser"} => authCall[q].op # "refresh"
    BY <1>1, <1>3, RequestStep DEF PresentedExists, Answers
  <2>5. authCall'[q] = authCall[q]
    BY <1>1, <1>3, RequestStep DEF AuthSteps
  <2>6. QED
    BY <2>2, <2>3, <2>4, <2>5
<1>4. QED
  BY <1>2, <1>3

(* A revoked token stays revoked, and a refresh reaches its second lookup  *)
(* only by revoking.                                                       *)
LEMMA RotationStep ==
  ASSUME AuthInv, [AuthNext \/ AuthDone]_authVars
  PROVE  RotationRevokesParent'
<1> SUFFICES ASSUME NEW q \in AuthRequests,
                    authCall'[q].op = "refresh",
                    authPc'[q] \in {"findById", "createToken"} \/ token'[q].state # "absent"
             PROVE  /\ authCall'[q].presented # Nil
                    /\ token'[authCall'[q].presented].state = "revoked"
  BY DEF RotationRevokesParent
<1> DEFINE k == authCall[q].presented
<1>1. authPc[q] # "idle" /\ authCall'[q] = authCall[q]
  <2>1. CASE authPc'[q] \in {"findById", "createToken"}
    BY <2>1, RequestStep DEF AuthInv, Answers
  <2>2. CASE token'[q].state # "absent"
    <3>1. authPc[q] # "idle"
      BY <2>2, NoTokenStep, TokenStep, RequestStep DEF AuthInv, NoTokenBeforeAnswer, AuthSteps
    <3>2. QED
      BY <3>1, RequestStep DEF AuthInv
  <2>3. QED
    BY <2>1, <2>2
<1>2. k \in AuthRequests \cup {Nil}
  BY DEF AuthInv, AuthTypeOK, AuthOps
<1>3. CASE k # Nil /\ token[k].state = "revoked"
  BY <1>1, <1>2, <1>3, TokenStep DEF AuthInv
<1>4. CASE authPc[q] = "revoke" /\ authPc'[q] = "findById"
  <2>1. k # Nil /\ token[k].state # "absent"
    BY <1>4 DEF AuthInv, PresentedExists
  <2>2. token' = Revoked(k)
    BY <1>4, RequestStep DEF AuthInv, AuthSteps, Answers
  <2>3. token'[k].state = "revoked"
    BY <1>2, <2>1, <2>2 DEF Revoked, AuthInv, AuthTypeOK, TokenRow
  <2>4. QED
    BY <1>1, <2>1, <2>3
<1>5. CASE authPc[q] \in {"findById", "createToken"} \/ token[q].state # "absent"
  BY <1>1, <1>3, <1>5 DEF AuthInv, RotationRevokesParent
<1>6. CASE authPc'[q] \in {"findById", "createToken"}
  BY <1>1, <1>4, <1>5, <1>6, RequestStep DEF AuthInv, PresentedExists, Answers
<1>7. CASE token'[q].state # "absent"
  BY <1>5, <1>7, TokenStep DEF AuthInv
<1>8. QED
  BY <1>6, <1>7

LEMMA ClockStep ==
  ASSUME AuthTypeOK, [AuthNext \/ AuthDone]_authVars
  PROVE  now' \in Nat /\ now \in Nat /\ now' >= now
<1>1. now' = now \/ now' = now + 1
  BY DEF AuthNext, AuthStep, AuthWork, AuthDone, Tick, authVars, BeginAuth, Register, Login,
     Refresh, Logout, FindByEmail, CreateUser, FindToken, Revoke, RevokeExpired, FindById,
     CreateToken, LogoutToken, FailAuth
<1>2. QED
  BY <1>1, AuthAssumption DEF AuthTypeOK

(* Spent tokens stay spent: the clock runs forward, and no expiry changes. *)
LEMMA SpentStep ==
  ASSUME AuthInv, [AuthNext \/ AuthDone]_authVars
  PROVE  SpentIsTurnedAway'
<1>1. AuthTypeOK /\ NoTokenBeforeAnswer /\ PresentedExists /\ SpentIsTurnedAway
  BY DEF AuthInv
<1> SUFFICES ASSUME NEW q \in AuthRequests, authCall'[q].spent
             PROVE  /\ authPc'[q] \in {"findToken", "revokeExpired", "unauthorized", "failed"}
                    /\ token'[q].state = "absent"
                    /\ Spent(authCall[q].presented)'
  BY DEF SpentIsTurnedAway
<1>2. CASE authPc[q] = "idle" /\ authPc'[q] # "idle"
  <2>1. authPc'[q] = "findToken" /\ Spent(authCall'[q].presented) /\ UNCHANGED <<token, now>>
    BY <1>1, <1>2, SentWith
  <2>2. token[q].state = "absent"
    BY <1>1, <1>2 DEF NoTokenBeforeAnswer
  <2>3. QED
    BY <2>1, <2>2 DEF Spent, Expired
<1>3. CASE authPc[q] # "idle" \/ authPc'[q] = "idle"
  <2> DEFINE k == authCall[q].presented
  <2>1. authCall'[q] = authCall[q]
    BY <1>1, <1>3, RequestStep DEF AuthSteps
  <2>2. /\ authPc[q] \in {"findToken", "revokeExpired", "unauthorized", "failed"}
        /\ token[q].state = "absent"
        /\ Spent(k)
    BY <1>1, <2>1 DEF SpentIsTurnedAway
  <2>3. k \in AuthRequests \cup {Nil} /\ (k # Nil => token[k].state # "absent")
    BY <1>1 DEF AuthTypeOK, AuthOps, PresentedExists
  <2>4. Spent(k)'
    <3>1. CASE k = Nil
      BY <2>1, <3>1 DEF Spent
    <3>2. CASE k # Nil /\ token[k].state = "revoked"
      BY <1>1, <2>1, <2>3, <3>2, TokenStep DEF Spent
    <3>3. CASE k # Nil /\ Expired(k)
      <4>1. token'[k].expires = token[k].expires /\ token[k].expires \in Nat
        BY <1>1, <2>3, <3>3, TokenStep DEF AuthTypeOK, TokenRow
      <4>2. now' >= now /\ now \in Nat /\ now' \in Nat
        BY <1>1, ClockStep
      <4>3. token'[k].expires < now'
        BY <3>3, <4>1, <4>2 DEF Expired
      <4>4. QED
        BY <2>1, <4>3 DEF Spent, Expired
    <3>4. QED
      BY <2>2, <3>1, <3>2, <3>3 DEF Spent
  <2>5. k # Nil /\ token[k].state = "live" => Expired(k)
    BY <2>2 DEF Spent
  <2>6. authPc'[q] \in {"findToken", "revokeExpired", "unauthorized", "failed"}
    BY <1>1, <2>2, <2>5, RequestStep DEF AuthSteps
  <2>7. token'[q].state = "absent"
    BY <1>1, <2>2, TokenStep
  <2>8. QED
    BY <2>1, <2>4, <2>6, <2>7
<1>4. QED
  BY <1>2, <1>3

LEMMA AuthStepInv ==
  ASSUME AuthInv, [AuthNext \/ AuthDone]_authVars
  PROVE  AuthInv'
<1>1. AuthTypeOK'
  BY AuthStepTyped DEF AuthInv
<1>2. QED
  BY <1>1, UniqueEmailsStep, NoTokenStep, PresentedStep, RotationStep, SpentStep DEF AuthInv

LEMMA AuthInvariant == AuthSafety => []AuthInv
<1>1. AuthInit => AuthInv
  BY AuthInitInv
<1>2. AuthInv /\ [AuthNext \/ AuthDone]_authVars => AuthInv'
  BY AuthStepInv
<1>3. QED
  BY <1>1, <1>2, PTL DEF AuthSafety

----------------------------------------------------------------------------
(* No two users share an email, for any number of registrations that pass  *)
(* findByEmail at the same time.                                           *)
THEOREM EmailsAreUnique == AuthSafety => []UniqueEmails
<1>1. AuthInv => UniqueEmails
  BY DEF AuthInv
<1>2. QED
  BY <1>1, AuthInvariant, PTL

(* The token a refresh was sent is revoked before the refresh looks up its *)
(* owner, and stays revoked for as long as the token it issued exists, for *)
(* any number of requests and wherever they fail.                          *)
THEOREM RotationRevokes == AuthSafety => []RotationRevokesParent
<1>1. AuthInv => RotationRevokesParent
  BY DEF AuthInv
<1>2. QED
  BY <1>1, AuthInvariant, PTL

(* A token that was revoked or expired before a refresh is sent buys no    *)
(* new token, for any number of requests and any run of the clock.         *)
THEOREM SpentTokensAreWorthless == AuthSafety => []SpentTokenBuysNothing
<1>1. AuthInv => SpentTokenBuysNothing
  BY DEF AuthInv, SpentIsTurnedAway, SpentTokenBuysNothing
<1>2. QED
  BY <1>1, AuthInvariant, PTL

----------------------------------------------------------------------------
(* Who a request acts for, before it has a token and after.  The id of a   *)
(* user is fresh when it is inserted, and the owner of a token is          *)
(* remembered from the lookup of the token to the insertion of the next.   *)
SessionOf(q) ==
    /\ authPc[q] \in {"idle", "findByEmail", "createUser"} => user[q] = Nil
    /\ authPc[q] \in {"findByEmail", "createUser"} => authCall[q].email \in Emails
    /\ authPc[q] \in {"findToken", "revokeExpired", "revoke", "findById"}
          => authCall[q].op = "refresh"
    /\ authPc[q] = "logout" => authCall[q].op = "logout"
    /\ authPc[q] \in {"revoke", "findById"} =>
          session[q].user = token[authCall[q].presented].user
    /\ authPc[q] = "createToken" => ActsFor(q, session[q].user)
    /\ token[q].state # "absent" => ActsFor(q, token[q].user)
    /\ authPc[q] \in {"created", "ok"} /\ authCall[q].op # "logout" => token[q].state # "absent"
    /\ authPc[q] \in {"conflict", "duplicate"} =>
          authCall[q].email \in Emails /\ \E u \in AuthRequests : user[u] = authCall[q].email

SessionInv == \A q \in AuthRequests : SessionOf(q)

LEMMA OneMoves ==
  ASSUME AuthTypeOK, [AuthNext \/ AuthDone]_authVars, NEW q \in AuthRequests
  PROVE  \/ AuthStep(q)
         \/ /\ authPc'[q] = authPc[q] /\ authCall'[q] = authCall[q]
            /\ session'[q] = session[q] /\ user'[q] = user[q]
            /\ token[q].state = "absent" => token'[q] = token[q]
<1> USE DEF AuthTypeOK, AuthReply, AuthGoto
<1>1. CASE UNCHANGED authVars \/ AuthDone \/ Tick
  BY <1>1 DEF AuthDone, Tick, authVars
<1>2. ASSUME NEW r \in AuthRequests, AuthStep(r), q # r
      PROVE  /\ authPc'[q] = authPc[q] /\ authCall'[q] = authCall[q]
             /\ session'[q] = session[q] /\ user'[q] = user[q]
             /\ token[q].state = "absent" => token'[q] = token[q]
  BY <1>2 DEF AuthStep, AuthWork, BeginAuth, Register, Login, Refresh, Logout, FindByEmail,
     CreateUser, FindToken, RememberOwner, Revoke, Revoked, RevokeExpired, FindById, CreateToken,
     LogoutToken, FailAuth, GenerateTokens
<1>3. QED
  BY <1>1, <1>2 DEF AuthNext

(* Accounts are never removed or renamed.                                  *)
LEMMA UsersStay ==
  ASSUME AuthTypeOK, SessionInv, [AuthNext \/ AuthDone]_authVars, NEW u \in AuthRequests,
         user[u] # Nil
  PROVE  user'[u] = user[u]
<1>1. CASE UNCHANGED user
  BY <1>1
<1>2. ASSUME NEW r \in AuthRequests, CreateUser(r)
      PROVE  user'[u] = user[u]
  BY <1>2 DEF CreateUser, SessionInv, SessionOf, AuthTypeOK
<1>3. QED
  BY <1>1, <1>2 DEF AuthNext, AuthStep, AuthWork, AuthDone, Tick, authVars, BeginAuth,
     Register, Login, Refresh, Logout, FindByEmail, FindToken, Revoke, RevokeExpired,
     FindById, CreateToken, LogoutToken, FailAuth

(* Who a request acts for does not change under it.                        *)
LEMMA ActsForStays ==
  ASSUME AuthInv, SessionInv, [AuthNext \/ AuthDone]_authVars,
         NEW q \in AuthRequests, NEW u \in AuthRequests, authCall'[q] = authCall[q], ActsFor(q, u)
  PROVE  ActsFor(q, u)'
<1>1. user'[u] = user[u]
  BY UsersStay DEF AuthInv, ActsFor
<1>2. authCall[q].presented \in AuthRequests \cup {Nil}
  BY DEF AuthInv, AuthTypeOK, AuthOps
<1>3. authCall[q].presented # Nil
      => token'[authCall[q].presented].user = token[authCall[q].presented].user
  BY <1>2, TokenStep DEF AuthInv, PresentedExists
<1>4. QED
  BY <1>1, <1>3 DEF ActsFor

(* Only CreateToken gives a request its token.                             *)
LEMMA OneTokenStep ==
  ASSUME AuthTypeOK, NEW q \in AuthRequests, token[q].state = "absent",
         \/ FindToken(q) \/ Revoke(q) \/ RevokeExpired(q) \/ FindById(q) \/ LogoutToken(q)
  PROVE  token'[q].state = "absent"
BY DEF AuthTypeOK, FindToken, Revoke, Revoked, RevokeExpired, FindById, LogoutToken

(* A step of q finds q as the invariant says and leaves it so.             *)
LEMMA SessionSent ==
  ASSUME AuthInv, SessionInv, [AuthNext \/ AuthDone]_authVars, NEW q \in AuthRequests,
         Register(q) \/ Login(q) \/ Refresh(q) \/ Logout(q)
  PROVE  SessionOf(q)'
<1>1. /\ authPc[q] = "idle" /\ UNCHANGED <<user, token>>
      /\ user[q] = Nil /\ token[q].state = "absent"
  BY DEF AuthInv, NoTokenBeforeAnswer, SessionInv, SessionOf, Register, Login, Refresh, Logout,
         BeginAuth
<1>2. CASE Register(q) \/ Login(q)
  <2>1. authPc'[q] = "findByEmail" /\ authCall'[q].email \in Emails
    BY <1>2, BeginCall DEF AuthInv, Register, Login
  <2>2. QED
    BY <1>1, <2>1 DEF SessionOf
<1>3. CASE Refresh(q) \/ Logout(q)
  <2>1. \/ authPc'[q] = "findToken" /\ authCall'[q].op = "refresh"
        \/ authPc'[q] = "logout" /\ authCall'[q].op = "logout"
    BY <1>3, BeginCall DEF AuthInv, Refresh, Logout
  <2>2. QED
    BY <1>1, <2>1 DEF SessionOf
<1>4. QED
  BY <1>2, <1>3

(* The part of a step that hands a user to generateTokens.                 *)
LEMMA SessionGenerates ==
  ASSUME AuthInv, NEW q \in AuthRequests, NEW u \in AuthRequests, GenerateTokens(q, u),
         UNCHANGED <<token, authCall>>, token[q].state = "absent", ActsFor(q, u)'
  PROVE  SessionOf(q)'
<1>1. authPc'[q] = "createToken" /\ session'[q].user = u
  BY DEF AuthInv, AuthTypeOK, GenerateTokens, AuthGoto
<1>2. ActsFor(q, session[q].user)'
  BY <1>1 DEF ActsFor
<1>3. QED
  BY <1>1, <1>2 DEF SessionOf

LEMMA SessionLooksUp ==
  ASSUME AuthInv, SessionInv, [AuthNext \/ AuthDone]_authVars, NEW q \in AuthRequests,
         FindByEmail(q) \/ CreateUser(q)
  PROVE  SessionOf(q)'
<1>1. /\ authPc[q] \in {"findByEmail", "createUser"} /\ UNCHANGED <<token, authCall>>
      /\ token[q].state = "absent" /\ user[q] = Nil
      /\ authCall[q].op # "refresh" /\ authCall[q].email \in Emails
  BY DEF AuthInv, NoTokenBeforeAnswer, AuthSteps, PresentedExists, SessionInv, SessionOf,
         FindByEmail, CreateUser
<1>2. ASSUME NEW a \in {"conflict", "createUser", "unauthorized", "duplicate"}, AuthGoto(q, a),
             UNCHANGED user,
             a \in {"conflict", "duplicate"} =>
                \E u \in AuthRequests : user[u] = authCall[q].email
      PROVE  SessionOf(q)'
  BY <1>1, <1>2 DEF SessionOf, AuthGoto, AuthInv, AuthTypeOK
<1>3. ASSUME NEW u \in AuthRequests, user'[u] = authCall[q].email, GenerateTokens(q, u)
      PROVE  SessionOf(q)'
  <2>1. ActsFor(q, u)'
    BY <1>1, <1>3, AuthAssumption DEF ActsFor
  <2>2. QED
    BY <1>1, <1>3, <2>1, SessionGenerates
<1>4. CASE FindByEmail(q)
  BY <1>2, <1>3, <1>4 DEF FindByEmail
<1>5. CASE CreateUser(q)
  BY <1>2, <1>3, <1>5 DEF CreateUser, AuthInv, AuthTypeOK
<1>6. QED
  BY <1>4, <1>5

LEMMA SessionExchanges ==
  ASSUME AuthInv, SessionInv, [AuthNext \/ AuthDone]_authVars, NEW q \in AuthRequests,
         FindToken(q) \/ Revoke(q) \/ RevokeExpired(q) \/ FindById(q)
  PROVE  SessionOf(q)'
<1> DEFINE k == authCall[q].presented
<1>1. /\ authPc[q] \in {"findToken", "revoke", "revokeExpired", "findById"}
      /\ UNCHANGED <<user, authCall>>
      /\ token[q].state = "absent" /\ authCall[q].op = "refresh"
  BY DEF AuthInv, NoTokenBeforeAnswer, AuthSteps, SessionInv, SessionOf,
         FindToken, Revoke, RevokeExpired, FindById
<1>2. token'[q].state = "absent"
  BY <1>1, OneTokenStep DEF AuthInv
<1>3. k \in AuthRequests \cup {Nil}
  BY DEF AuthInv, AuthTypeOK, AuthOps
<1>4. k # Nil => token[k].state # "absent" /\ ActsFor(k, token[k].user)
  BY <1>3 DEF AuthInv, PresentedExists, SessionInv, SessionOf
<1>5. ASSUME NEW a \in {"unauthorized", "failed", "revokeExpired"}, AuthGoto(q, a)
      PROVE  SessionOf(q)'
  BY <1>1, <1>2, <1>5 DEF SessionOf, AuthGoto, AuthInv, AuthTypeOK
<1>6. CASE FindToken(q) /\ authPc'[q] = "revoke"
  <2>1. RememberOwner(q, k) /\ UNCHANGED <<user, token, authCall>>
    BY <1>6 DEF FindToken, AuthGoto, AuthInv, AuthTypeOK
  <2>2. session'[q].user = token[k].user
    BY <2>1 DEF RememberOwner, AuthInv, AuthTypeOK
  <2>3. QED
    BY <1>1, <1>2, <1>6, <2>1, <2>2 DEF SessionOf
<1>7. CASE FindToken(q) /\ authPc'[q] # "revoke"
  BY <1>5, <1>7 DEF FindToken, AuthGoto, AuthInv, AuthTypeOK
<1>8. CASE Revoke(q)
  <2>1. /\ authPc'[q] = "findById" /\ session' = session
        /\ session[q].user = token[k].user /\ k # Nil
    BY <1>8 DEF Revoke, AuthGoto, AuthInv, AuthTypeOK, SessionInv, SessionOf, PresentedExists
  <2>2. token'[k].user = token[k].user
    BY <1>3, <1>4, <2>1, TokenStep DEF AuthInv
  <2>3. QED
    BY <1>1, <1>2, <2>1, <2>2 DEF SessionOf
<1>9. CASE RevokeExpired(q)
  BY <1>5, <1>9 DEF RevokeExpired, AuthReply, Committed
<1>10. CASE FindById(q)
  <2>1. CASE AuthGoto(q, "unauthorized")
    BY <1>5, <2>1
  <2>2. CASE GenerateTokens(q, session[q].user)
    <3>1. /\ k # Nil /\ session[q].user = token[k].user /\ UNCHANGED <<user, token, authCall>>
      BY <1>10 DEF FindById, AuthInv, PresentedExists, SessionInv, SessionOf
    <3>2. PICK u \in AuthRequests : u = session[q].user
      BY <1>3, <1>4, <3>1 DEF ActsFor, AuthInv, AuthTypeOK, TokenRow
    <3>3. ActsFor(q, u)'
      BY <1>1, <1>4, <3>1, <3>2 DEF ActsFor
    <3>4. QED
      BY <1>1, <2>2, <3>1, <3>2, <3>3, SessionGenerates
  <2>3. QED
    BY <1>10, <2>1, <2>2 DEF FindById
<1>11. QED
  BY <1>6, <1>7, <1>8, <1>9, <1>10

LEMMA SessionEnds ==
  ASSUME AuthInv, SessionInv, [AuthNext \/ AuthDone]_authVars, NEW q \in AuthRequests,
         CreateToken(q) \/ LogoutToken(q) \/ FailAuth(q)
  PROVE  SessionOf(q)'
<1>1. /\ authPc[q] \in AuthSteps /\ token[q].state = "absent" /\ UNCHANGED <<user, authCall>>
  BY DEF AuthInv, NoTokenBeforeAnswer, AuthSteps, CreateToken, LogoutToken, FailAuth
<1>2. CASE CreateToken(q)
  <2>1. /\ token'[q].state = "live" /\ token'[q].user = session[q].user
        /\ authPc'[q] \in {"created", "ok", "failed"}
    BY <1>2 DEF CreateToken, AuthReply, AuthGoto, Committed, AuthInv, AuthTypeOK
  <2>2. PICK u \in AuthRequests : u = session[q].user /\ ActsFor(q, u)
    BY <1>2 DEF CreateToken, SessionInv, SessionOf, ActsFor, AuthInv, AuthTypeOK
  <2>3. ActsFor(q, u)'
    BY <1>1, <2>2, ActsForStays
  <2>4. ActsFor(q, token[q].user)'
    BY <2>1, <2>2, <2>3 DEF ActsFor
  <2>5. QED
    BY <2>1, <2>4 DEF SessionOf
<1>3. CASE LogoutToken(q)
  <2>1. authCall[q].op = "logout" /\ authPc'[q] \in {"ok", "failed"}
    BY <1>3 DEF LogoutToken, SessionInv, SessionOf, AuthReply, AuthGoto, Committed, AuthInv,
                AuthTypeOK
  <2>2. token'[q].state = "absent"
    BY <1>1, <1>3, <2>1, OneTokenStep DEF AuthInv
  <2>3. QED
    BY <1>1, <2>1, <2>2 DEF SessionOf
<1>4. CASE FailAuth(q)
  BY <1>1, <1>4 DEF FailAuth, AuthGoto, SessionOf, AuthInv, AuthTypeOK
<1>5. QED
  BY <1>2, <1>3, <1>4

LEMMA SessionStep ==
  ASSUME AuthInv, SessionInv, [AuthNext \/ AuthDone]_authVars
  PROVE  SessionInv'
<1> SUFFICES ASSUME NEW q \in AuthRequests
             PROVE  SessionOf(q)'
  BY DEF SessionInv
<1>1. CASE AuthStep(q)
  BY <1>1, SessionSent, SessionLooksUp, SessionExchanges, SessionEnds DEF AuthStep, AuthWork
<1>2. CASE /\ authPc'[q] = authPc[q] /\ authCall'[q] = authCall[q]
           /\ session'[q] = session[q] /\ user'[q] = user[q]
           /\ token[q].state = "absent" => token'[q] = token[q]
  <2>1. SessionOf(q)
    BY DEF SessionInv
  <2>2. ASSUME authPc[q] \in {"revoke", "findById"}
        PROVE  token'[authCall[q].presented].user = token[authCall[q].presented].user
    <3>1. /\ authCall[q].presented \in AuthRequests
          /\ token[authCall[q].presented].state # "absent"
      BY <2>2 DEF AuthInv, AuthTypeOK, AuthOps, PresentedExists
    <3>2. QED
      BY <3>1, TokenStep DEF AuthInv
  <2>3. ASSUME authPc[q] = "createToken"
        PROVE  ActsFor(q, session[q].user)'
    <3>1. PICK u \in AuthRequests : u = session[q].user /\ ActsFor(q, u)
      BY <2>1, <2>3 DEF SessionOf, ActsFor, AuthInv, AuthTypeOK
    <3>2. ActsFor(q, u)'
      BY <1>2, <3>1, ActsForStays
    <3>3. QED
      BY <1>2, <3>1, <3>2 DEF ActsFor
  <2>4. ASSUME token'[q].state # "absent"
        PROVE  ActsFor(q, token[q].user)'
    <3>1. token[q].state # "absent" /\ token'[q].user = token[q].user
      BY <1>2, <2>4, TokenStep DEF AuthInv
    <3>2. PICK u \in AuthRequests : u = token[q].user /\ ActsFor(q, u)
      BY <2>1, <3>1 DEF SessionOf, ActsFor, AuthInv, AuthTypeOK, TokenRow
    <3>3. ActsFor(q, u)'
      BY <1>2, <3>2, ActsForStays
    <3>4. QED
      BY <3>1, <3>2, <3>3 DEF ActsFor
  <2>5. authPc[q] \in {"created", "ok"} /\ authCall[q].op # "logout" => token'[q].state # "absent"
    BY <2>1, TokenStep DEF SessionOf, AuthInv
  <2>6. ASSUME authPc[q] \in {"conflict", "duplicate"}
        PROVE  \E u \in AuthRequests : user'[u] = authCall[q].email
    <3>1. PICK u \in AuthRequests : user[u] = authCall[q].email
      BY <2>1, <2>6 DEF SessionOf
    <3>2. user[u] # Nil
      BY <2>1, <2>6, <3>1, AuthAssumption DEF SessionOf
    <3>3. QED
      BY <3>1, <3>2, UsersStay DEF AuthInv
  <2>7. QED
    BY <1>2, <2>1, <2>2, <2>3, <2>4, <2>5, <2>6 DEF SessionOf
<1>3. QED
  BY <1>1, <1>2, OneMoves DEF AuthInv

(* Every token, along any chain of refreshes, belongs to the account it    *)
(* was issued for, and an email that was refused has an account            *)
(* (AuthService.register, login, refresh).                                 *)
THEOREM SessionsAreKept == AuthSafety => []SessionsKeepTheirOwner
<1>1. AuthInit => SessionInv
  BY DEF AuthInit, SessionInv, SessionOf
<1>2. AuthInv /\ SessionInv /\ [AuthNext \/ AuthDone]_authVars => SessionInv'
  BY SessionStep
<1>3. SessionInv => SessionsKeepTheirOwner
  BY DEF SessionInv, SessionOf, SessionsKeepTheirOwner
<1>4. QED
  BY <1>1, <1>2, <1>3, AuthInvariant, PTL DEF AuthSafety

=============================================================================
