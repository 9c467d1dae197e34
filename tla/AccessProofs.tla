---------------------------- MODULE AccessProofs ----------------------------
(***************************************************************************)
(* Who may sign in and how often one may call, for every number of         *)
(* browsers, users, logins, sessions, requests and keys, every length of a *)
(* day and of a session, and every restart.                                *)
(***************************************************************************)
EXTENDS Access, TLAPS

USE DEF google, requests, NoCallback, NoCall

(* The parts of the type invariant that the proofs rest on.                *)
LoginTypes ==
  /\ started \in [Flows -> {None} \cup [browser : Browsers, time : Ticks]]
  /\ cookie \in [Browsers -> {None} \cup [flow : Flows, exp : Nat, signer : Nat]]
  /\ consents \subseteq Flows \X Users
  /\ callback \in [Browsers ->
       [at : {"none", "exchange", "upsert", "create"}, flow : Flows \cup {None},
        user : Users \cup {None}, began : Nat]]
  /\ \A b \in Browsers : callback[b].at # "none" =>
       callback[b].flow \in Flows /\ callback[b].user \in Users
  /\ holds \in [Browsers -> Tokens \cup {None}]
  /\ origin \in [Tokens -> Flows \cup {None}]
  /\ now \in Ticks /\ secret \in Nat

LEMMA TimeTypes == /\ LastTick \in Nat /\ Ticks \subseteq Nat /\ StateTtl \in Nat
                   /\ MaxRestarts \in Nat
                   /\ None \notin Flows /\ None \notin Tokens
                   /\ \A b \in Browsers, t \in Ticks : None # [browser |-> b, time |-> t]
  BY AccessAssumption DEF AccessAssumption, Ticks

LEMMA LoginInit == AccessInit => LoginTypes
<1> SUFFICES ASSUME AccessInit PROVE LoginTypes
  OBVIOUS
<1>1. now \in Ticks /\ secret \in Nat
  BY TimeTypes DEF AccessInit, Ticks
<1>2. \A b \in Browsers : callback[b].at = "none"
  BY DEF AccessInit
<1>3. callback \in [Browsers ->
        [at : {"none", "exchange", "upsert", "create"}, flow : Flows \cup {None},
         user : Users \cup {None}, began : Nat]]
  BY DEF AccessInit
<1> QED
  BY <1>1, <1>2, <1>3 DEF AccessInit, LoginTypes

(* What a callback leaves behind.                                          *)
LEMMA RedirectTypes ==
  ASSUME LoginTypes, NEW b \in Browsers, Redirect(b)
  PROVE  /\ cookie' \in [Browsers -> {None} \cup [flow : Flows, exp : Nat, signer : Nat]]
         /\ callback' \in [Browsers ->
              [at : {"none", "exchange", "upsert", "create"}, flow : Flows \cup {None},
               user : Users \cup {None}, began : Nat]]
         /\ callback'[b].at = "none" /\ cookie'[b] = None
         /\ \A o \in Browsers : o # b => cookie'[o] = cookie[o] /\ callback'[o] = callback[o]
<1>1. /\ cookie' = [cookie EXCEPT ![b] = None]
      /\ callback' = [callback EXCEPT ![b] =
           [at |-> "none", flow |-> None, user |-> None, began |-> 0]]
  BY DEF Redirect
<1> QED
  BY <1>1 DEF LoginTypes

(* A callback that goes on keeps its flow and its beginning.               *)
LEMMA CallbackMoves ==
  ASSUME LoginTypes, NEW b \in Browsers, NEW l \in {"upsert", "create"},
         callback[b].at # "none", callback' = [callback EXCEPT ![b].at = l]
  PROVE  /\ callback' \in [Browsers ->
              [at : {"none", "exchange", "upsert", "create"}, flow : Flows \cup {None},
               user : Users \cup {None}, began : Nat]]
         /\ callback'[b].flow = callback[b].flow /\ callback'[b].began = callback[b].began
         /\ callback'[b].user = callback[b].user
         /\ \A o \in Browsers : o # b => callback'[o] = callback[o]
  BY DEF LoginTypes

-----------------------------------------------------------------------------
(* A state cookie is of a login of its browser; so are a callback that got *)
(* past the cookie and the token that the browser got by it.               *)
BeganHere(f, b) == started[f] # None /\ started[f].browser = b

SignInv ==
  /\ \A b \in Browsers : cookie[b] # None =>
       /\ BeganHere(cookie[b].flow, b)
       /\ cookie[b].exp = started[cookie[b].flow].time + StateTtl
  /\ \A b \in Browsers : callback[b].at # "none" =>
       /\ BeganHere(callback[b].flow, b)
       /\ callback[b].began < started[callback[b].flow].time + StateTtl
  /\ \A b \in Browsers : holds[b] # None =>
       origin[holds[b]] # None /\ BeganHere(origin[holds[b]], b)

LoginInv == LoginTypes /\ SignInv

LEMMA LoginInvInit == AccessInit => LoginInv
  BY LoginInit DEF LoginInv, SignInv, AccessInit, LoginTypes

LEMMA LoginInvNext == LoginInv /\ [AccessNext]_accessVars => LoginInv'
<1> SUFFICES ASSUME LoginInv, [AccessNext]_accessVars PROVE LoginInv'
  OBVIOUS
<1> USE TimeTypes DEF LoginInv
<1>1. ASSUME UNCHANGED <<started, cookie, consents, callback, holds, origin>>,
             now' \in Ticks, secret' \in Nat
      PROVE  LoginInv'
  BY <1>1 DEF LoginTypes, SignInv, BeganHere
<1>2. ASSUME NEW b \in Browsers, StartLogin(b) PROVE LoginInv'
  <2>1. PICK f \in Flows :
          /\ started[f] = None
          /\ started' = [started EXCEPT ![f] = [browser |-> b, time |-> now]]
          /\ cookie' = [cookie EXCEPT ![b] =
                          [flow |-> f, exp |-> now + StateTtl, signer |-> secret]]
    BY <1>2 DEF StartLogin
  <2>2. UNCHANGED <<now, secret, consents, callback, holds, origin>>
    BY <1>2 DEF StartLogin
  <2>3. started' \in [Flows -> {None} \cup [browser : Browsers, time : Ticks]]
    BY <2>1 DEF LoginTypes
  <2>4. cookie' \in [Browsers -> {None} \cup [flow : Flows, exp : Nat, signer : Nat]]
    <3>1. now + StateTtl \in Nat
      BY DEF LoginTypes
    <3> QED
      BY <3>1, <2>1 DEF LoginTypes
  <2>5. LoginTypes'
    BY <2>2, <2>3, <2>4 DEF LoginTypes
  <2>6. /\ started'[f] = [browser |-> b, time |-> now] /\ started'[f] # None
        /\ \A g \in Flows : started[g] # None => started'[g] = started[g]
    BY <2>1 DEF LoginTypes
  <2>7. /\ cookie'[b] = [flow |-> f, exp |-> now + StateTtl, signer |-> secret]
        /\ \A o \in Browsers : o # b => cookie'[o] = cookie[o]
    BY <2>1 DEF LoginTypes
  <2>8. \A o \in Browsers : cookie'[o] # None =>
          /\ BeganHere(cookie[o].flow, o)'
          /\ cookie'[o].exp = started'[cookie'[o].flow].time + StateTtl
    BY <2>6, <2>7 DEF LoginTypes, SignInv, BeganHere
  <2>9. \A o \in Browsers : callback'[o].at # "none" =>
          /\ BeganHere(callback[o].flow, o)'
          /\ callback'[o].began < started'[callback'[o].flow].time + StateTtl
    BY <2>2, <2>6 DEF LoginTypes, SignInv, BeganHere
  <2>10. \A o \in Browsers : holds'[o] # None =>
          origin'[holds'[o]] # None /\ BeganHere(origin[holds[o]], o)'
    BY <2>2, <2>6 DEF LoginTypes, SignInv, BeganHere
  <2> QED
    BY <2>5, <2>8, <2>9, <2>10 DEF SignInv
<1>3. ASSUME NEW u \in Users, Consent(u) PROVE LoginInv'
  <2>1. consents' \subseteq Flows \X Users
    BY <1>3 DEF Consent, LoginTypes
  <2> QED
    BY <1>3, <2>1 DEF Consent, LoginTypes, SignInv, BeganHere
(* The cookie goes and the callback ends.                                  *)
<1>4. ASSUME NEW b \in Browsers, Redirect(b), consents' \subseteq Flows \X Users,
             UNCHANGED <<now, secret, started, holds, origin>>
      PROVE  LoginInv'
  <2>1. LoginTypes'
    BY <1>4, RedirectTypes DEF LoginTypes
  <2>2. SignInv'
    BY <1>4, RedirectTypes DEF SignInv, BeganHere
  <2> QED
    BY <2>1, <2>2
(* A callback goes on; the cookie stays.                                   *)
<1>5. ASSUME NEW b \in Browsers, NEW l \in {"upsert", "create"}, callback[b].at # "none",
             callback' = [callback EXCEPT ![b].at = l], consents' \subseteq Flows \X Users,
             UNCHANGED <<now, secret, started, cookie, holds, origin>>
      PROVE  LoginInv'
  <2>1. /\ callback' \in [Browsers ->
              [at : {"none", "exchange", "upsert", "create"}, flow : Flows \cup {None},
               user : Users \cup {None}, began : Nat]]
        /\ callback'[b].flow = callback[b].flow /\ callback'[b].began = callback[b].began
        /\ callback'[b].user = callback[b].user
        /\ \A o \in Browsers : o # b => callback'[o] = callback[o]
    BY <1>5, CallbackMoves
  <2>2. LoginTypes'
    BY <1>5, <2>1 DEF LoginTypes
  <2>3. SignInv'
    BY <1>5, <2>1 DEF SignInv, BeganHere
  <2> QED
    BY <2>2, <2>3
<1>6. ASSUME NEW b \in Browsers, CallbackBegins(b) PROVE LoginInv'
  <2>1. UNCHANGED <<now, secret, started, consents, holds, origin>>
    BY <1>6 DEF CallbackBegins
  <2>2. PICK c \in consents :
          IF c[1] \in Unsigned(b)
          THEN /\ callback' = [callback EXCEPT ![b] =
                    [at |-> "exchange", flow |-> c[1], user |-> c[2], began |-> now]]
               /\ UNCHANGED cookie
          ELSE Redirect(b)
    BY <1>6 DEF CallbackBegins
  <2>3. CASE c[1] \notin Unsigned(b)
    BY <2>1, <2>2, <2>3, <1>4 DEF LoginTypes
  <2>4. CASE c[1] \in Unsigned(b)
    <3>1. cookie[b] # None /\ c[1] = cookie[b].flow /\ now < cookie[b].exp
      BY <2>4 DEF Unsigned, LoginTypes
    <3>2. c[1] \in Flows /\ c[2] \in Users /\ now \in Nat
      BY DEF LoginTypes
    <3>3. /\ callback'[b] = [at |-> "exchange", flow |-> c[1], user |-> c[2], began |-> now]
          /\ \A o \in Browsers : o # b => callback'[o] = callback[o]
      BY <2>2, <2>4 DEF LoginTypes
    <3>4. LoginTypes'
      <4>1. callback' \in [Browsers ->
              [at : {"none", "exchange", "upsert", "create"}, flow : Flows \cup {None},
               user : Users \cup {None}, began : Nat]]
        BY <2>2, <2>4, <3>2 DEF LoginTypes
      <4> QED
        BY <4>1, <2>1, <2>2, <2>4, <3>2, <3>3 DEF LoginTypes
    <3>5. BeganHere(c[1], b) /\ now < started[c[1]].time + StateTtl
      BY <3>1 DEF SignInv
    <3>6. SignInv'
      BY <2>1, <2>2, <2>4, <3>3, <3>5 DEF SignInv, BeganHere
    <3> QED
      BY <3>4, <3>6
  <2> QED
    BY <2>3, <2>4
<1>7. ASSUME NEW b \in Browsers, ExchangeCode(b) PROVE LoginInv'
  <2>1. /\ callback[b].at = "exchange" /\ consents' \subseteq consents
        /\ UNCHANGED <<now, secret, started, holds, origin>>
        /\ \/ Redirect(b)
           \/ callback' = [callback EXCEPT ![b].at = "upsert"] /\ UNCHANGED cookie
    BY <1>7 DEF ExchangeCode
  <2>2. consents' \subseteq Flows \X Users
    BY <2>1 DEF LoginTypes
  <2> QED
    BY <2>1, <2>2, <1>4, <1>5
<1>8. ASSUME NEW b \in Browsers, UpsertUser(b) PROVE LoginInv'
  <2>1. /\ callback[b].at = "upsert"
        /\ UNCHANGED <<now, secret, started, consents, holds, origin>>
        /\ \/ Redirect(b)
           \/ callback' = [callback EXCEPT ![b].at = "create"] /\ UNCHANGED cookie
    BY <1>8 DEF UpsertUser
  <2>2. consents' \subseteq Flows \X Users
    BY <2>1 DEF LoginTypes
  <2> QED
    BY <2>1, <2>2, <1>4, <1>5
<1>9. ASSUME NEW b \in Browsers, CreateSession(b) PROVE LoginInv'
  <2>1. PICK t \in Tokens : /\ origin[t] = None
                            /\ origin' = [origin EXCEPT ![t] = callback[b].flow]
                            /\ holds' = [holds EXCEPT ![b] = t]
    BY <1>9 DEF CreateSession
  <2>2. /\ callback[b].at = "create" /\ Redirect(b)
        /\ UNCHANGED <<now, secret, started, consents>>
    BY <1>9 DEF CreateSession
  <2>3. callback[b].flow \in Flows /\ BeganHere(callback[b].flow, b)
    BY <2>2 DEF LoginTypes, SignInv
  <2>4. /\ origin'[t] = callback[b].flow
        /\ \A s \in Tokens : s # t => origin'[s] = origin[s]
        /\ origin' \in [Tokens -> Flows \cup {None}]
    BY <2>1, <2>3 DEF LoginTypes
  <2>5. /\ holds'[b] = t /\ \A o \in Browsers : o # b => holds'[o] = holds[o]
        /\ holds' \in [Browsers -> Tokens \cup {None}]
    BY <2>1 DEF LoginTypes
  <2>6. LoginTypes'
    BY <2>2, <2>4, <2>5, RedirectTypes DEF LoginTypes
  <2>7. \A o \in Browsers : holds'[o] # None =>
          origin'[holds'[o]] # None /\ BeganHere(origin[holds[o]], o)'
    <3> SUFFICES ASSUME NEW o \in Browsers, holds'[o] # None
                 PROVE  origin'[holds'[o]] # None /\ BeganHere(origin[holds[o]], o)'
      OBVIOUS
    <3>1. CASE o = b
      BY <3>1, <2>2, <2>3, <2>4, <2>5 DEF BeganHere
    <3>2. CASE o # b
      <4>1. holds'[o] = holds[o] /\ holds[o] \in Tokens
        BY <3>2, <2>5 DEF LoginTypes
      <4>2. origin[holds[o]] # None /\ BeganHere(origin[holds[o]], o)
        BY <4>1 DEF SignInv
      <4>3. holds[o] # t
        BY <4>2, <2>1
      <4> QED
        BY <4>1, <4>2, <4>3, <2>2, <2>4 DEF BeganHere
    <3> QED
      BY <3>1, <3>2
  <2>8. SignInv'
    BY <2>2, <2>7, RedirectTypes DEF SignInv, BeganHere
  <2> QED
    BY <2>6, <2>8
<1>10. ASSUME NEW b \in Browsers, Logout(b) PROVE LoginInv'
  <2>1. /\ holds' = [holds EXCEPT ![b] = None]
        /\ UNCHANGED <<now, secret, started, cookie, consents, callback, origin>>
    BY <1>10 DEF Logout
  <2> QED
    BY <2>1 DEF LoginTypes, SignInv, BeganHere
<1>11. ASSUME Restart PROVE LoginInv'
  <2>1. /\ callback' = [b \in Browsers |-> NoCallback] /\ secret' \in Nat
        /\ UNCHANGED <<now, started, cookie, consents, holds, origin>>
    BY <1>11 DEF Restart, LoginTypes
  <2>2. LoginTypes'
    BY <2>1 DEF LoginTypes
  <2>3. \A b \in Browsers : callback'[b].at = "none"
    BY <2>1
  <2>4. SignInv'
    BY <2>1, <2>3 DEF SignInv, BeganHere
  <2> QED
    BY <2>2, <2>4
<1>12. CASE UNCHANGED accessVars
  BY <1>12, <1>1 DEF accessVars, LoginTypes
<1>13. ASSUME NEW c \in Calls,
              CallBegins(c) \/ Principal(c) \/ TouchKey(c) \/ ConsumeUsage(c)
       PROVE  LoginInv'
  BY <1>13, <1>1 DEF CallBegins, Principal, TouchKey, ConsumeUsage, LoginTypes
<1>14. ASSUME NEW u \in Users, Disable(u) PROVE LoginInv'
  BY <1>14, <1>1 DEF Disable, LoginTypes
<1>15. CASE ManageKeys
  BY <1>15, <1>1 DEF ManageKeys, LoginTypes
<1>16. CASE Tick
  <2>1. now' \in Ticks
    BY <1>16 DEF Tick, LoginTypes, Ticks
  <2> QED
    BY <1>16, <2>1, <1>1 DEF Tick, LoginTypes
<1> QED
  BY <1>2, <1>3, <1>6, <1>7, <1>8, <1>9, <1>10, <1>11, <1>12, <1>13, <1>14, <1>15,
     <1>16 DEF AccessNext

LEMMA LoginInvariant == AccessSpec => []LoginInv
  BY LoginInvInit, LoginInvNext, PTL DEF AccessSpec

(* Whichever answers of Google are opened in whichever browser, in         *)
(* whatever order logins are started, answered and cut off by restarts: a  *)
(* browser gets a session only by a login of its own, within the time its  *)
(* state was good for.                                                     *)
THEOREM NobodyElsesSession == AccessSpec => []SignInsAreTheirOwn
<1>1. LoginInv => SignInsAreTheirOwn
  BY DEF LoginInv, SignInv, SignInsAreTheirOwn, BeganHere
<1> QED
  BY <1>1, LoginInvariant, PTL

-----------------------------------------------------------------------------
(* What was admitted is what was counted.                                  *)
CountedInv ==
  /\ usage \in [Users \X (0 .. Day(LastTick)) -> 0 .. Limit]
  /\ admitted = usage

LEMMA CountedInit == AccessInit => CountedInv
  BY AccessAssumption DEF AccessInit, CountedInv, AccessAssumption

LEMMA CountedNext == CountedInv /\ [AccessNext]_accessVars => CountedInv'
<1> SUFFICES ASSUME CountedInv, [AccessNext]_accessVars PROVE CountedInv'
  OBVIOUS
<1>1. ASSUME UNCHANGED <<usage, admitted>> PROVE CountedInv'
  BY <1>1 DEF CountedInv
<1>2. ASSUME NEW c \in Calls, ConsumeUsage(c) PROVE CountedInv'
  <2> DEFINE p == <<call[c].user, call[c].day>>
  <2>1. CASE MayCount(p)
    <3>1. /\ usage' = [usage EXCEPT ![p] = usage[p] + 1]
          /\ admitted' = [admitted EXCEPT ![p] = admitted[p] + 1]
      BY <1>2, <2>1 DEF ConsumeUsage
    <3>2. CASE p \in Users \X (0 .. Day(LastTick))
      <4>1. usage[p] + 1 \in 0 .. Limit
        BY <2>1, <3>2, AccessAssumption DEF MayCount, CountedInv, AccessAssumption
      <4> QED
        BY <3>1, <4>1 DEF CountedInv
    <3>3. CASE p \notin Users \X (0 .. Day(LastTick))
      BY <3>1, <3>3 DEF CountedInv
    <3> QED
      BY <3>2, <3>3
  <2>2. CASE ~MayCount(p)
    BY <1>2, <1>1, <2>2 DEF ConsumeUsage
  <2> QED
    BY <2>1, <2>2
<1>3. CASE UNCHANGED accessVars
  BY <1>3, <1>1 DEF accessVars
<1>4. ASSUME NEW b \in Browsers,
             \/ StartLogin(b) \/ CallbackBegins(b) \/ ExchangeCode(b)
             \/ UpsertUser(b) \/ CreateSession(b) \/ Logout(b)
      PROVE  CountedInv'
  BY <1>4, <1>1
  DEF StartLogin, CallbackBegins, ExchangeCode, UpsertUser, CreateSession, Logout
<1>5. ASSUME NEW u \in Users, Consent(u) \/ Disable(u) PROVE CountedInv'
  BY <1>5, <1>1 DEF Consent, Disable
<1>6. ASSUME NEW c \in Calls, CallBegins(c) \/ Principal(c) \/ TouchKey(c)
      PROVE  CountedInv'
  BY <1>6, <1>1 DEF CallBegins, Principal, TouchKey
<1>7. CASE ManageKeys \/ Tick \/ Restart
  BY <1>7, <1>1 DEF ManageKeys, Tick, Restart
<1> QED
  BY <1>2, <1>3, <1>4, <1>5, <1>6, <1>7 DEF AccessNext

(* However many requests of a user are between their check and their       *)
(* count, across midnights and restarts, no more than the limit of a day   *)
(* go through.                                                             *)
THEOREM QuotaIsKept == AccessSpec => []QuotaKept
<1>1. CountedInv => QuotaKept
  BY AccessAssumption DEF CountedInv, QuotaKept, AccessAssumption
<1> QED
  BY <1>1, CountedInit, CountedNext, PTL DEF AccessSpec

-----------------------------------------------------------------------------
(* A token that ended has no session any more, or one that ran out; a new  *)
(* session has a token that was never given out.                           *)
SessionsInv ==
  /\ session = [t \in Tokens |-> session[t]]
  /\ \A t \in Tokens : session[t] # None =>
       origin[t] # None /\ session[t].expires \in Nat /\ session[t].user \in Users

EndedInv ==
  /\ ended \subseteq Tokens
  /\ \A t \in ended : /\ origin[t] # None
                      /\ session[t] # None => session[t].expires <= now

TokensInv == SessionsInv /\ EndedInv

LEMMA TokensInit == AccessInit => TokensInv
  BY DEF AccessInit, TokensInv, SessionsInv, EndedInv

LEMMA TokensNext ==
  LoginInv /\ TokensInv /\ [AccessNext]_accessVars => TokensInv'
<1> SUFFICES ASSUME LoginInv, TokensInv, [AccessNext]_accessVars PROVE TokensInv'
  OBVIOUS
<1> USE TimeTypes DEF TokensInv
<1>1. ASSUME UNCHANGED <<now, session, ended, origin>> PROVE TokensInv'
  BY <1>1 DEF SessionsInv, EndedInv
<1>2. ASSUME NEW b \in Browsers, CreateSession(b) PROVE TokensInv'
  <2>1. PICK t \in Tokens :
          /\ origin[t] = None
          /\ origin' = [origin EXCEPT ![t] = callback[b].flow]
          /\ session' = [s \in Tokens |->
               IF s = t THEN [user |-> callback[b].user,
                              expires |-> callback[b].began + SessionTtl]
               ELSE IF session[s] # None /\ session[s].expires + DayLength < now THEN None
               ELSE session[s]]
    BY <1>2 DEF CreateSession
  <2>2. callback[b].at = "create" /\ UNCHANGED <<now, ended>>
    BY <1>2 DEF CreateSession
  <2>3. /\ callback[b].flow # None /\ callback[b].began + SessionTtl \in Nat
        /\ callback[b].user \in Users
    BY <2>2, AccessAssumption DEF LoginInv, LoginTypes, AccessAssumption
  <2>4. /\ origin'[t] # None /\ session'[t].expires \in Nat /\ session'[t].user \in Users
        /\ \A s \in Tokens : s # t => /\ origin'[s] = origin[s]
                                      /\ session'[s] \in {None, session[s]}
    BY <2>1, <2>3 DEF LoginInv, LoginTypes
  <2>5. SessionsInv'
    <3>1. session' = [s \in Tokens |-> session'[s]]
      BY <2>1
    <3> QED
      BY <2>4, <3>1 DEF SessionsInv
  <2>6. t \notin ended
    BY <2>1 DEF EndedInv
  <2>7. EndedInv'
    BY <2>2, <2>4, <2>6 DEF EndedInv
  <2> QED
    BY <2>5, <2>7
<1>3. ASSUME NEW b \in Browsers, Logout(b) PROVE TokensInv'
  <2>1. /\ holds[b] \in Tokens /\ origin[holds[b]] # None
        /\ session' = [session EXCEPT ![holds[b]] = None]
        /\ ended' = ended \cup {holds[b]} /\ UNCHANGED <<now, origin>>
    BY <1>3 DEF Logout, LoginInv, LoginTypes, SignInv
  <2>2. \A t \in Tokens : session'[t] # None => t # holds[b] /\ session'[t] = session[t]
    BY <2>1 DEF SessionsInv
  <2>3. session' = [t \in Tokens |-> session'[t]]
    BY <2>1 DEF SessionsInv
  <2>4. SessionsInv'
    BY <2>1, <2>2, <2>3 DEF SessionsInv
  <2>5. EndedInv'
    BY <2>1, <2>2 DEF EndedInv
  <2> QED
    BY <2>4, <2>5
<1>4. CASE Tick
  <2>1. /\ ended' = ended \cup {t \in Tokens : session[t] # None
                                               /\ session[t].expires <= now'}
        /\ now \in Nat /\ now' = now + 1 /\ UNCHANGED <<session, origin>>
    BY <1>4 DEF Tick, LoginInv, LoginTypes
  <2> QED
    BY <2>1 DEF SessionsInv, EndedInv
<1>5. CASE UNCHANGED accessVars
  BY <1>5, <1>1 DEF accessVars
<1>6. ASSUME NEW b \in Browsers,
             StartLogin(b) \/ CallbackBegins(b) \/ ExchangeCode(b) \/ UpsertUser(b)
      PROVE  TokensInv'
  BY <1>6, <1>1 DEF StartLogin, CallbackBegins, ExchangeCode, UpsertUser
<1>7. ASSUME NEW u \in Users, Consent(u) \/ Disable(u) PROVE TokensInv'
  BY <1>7, <1>1 DEF Consent, Disable
<1>8. ASSUME NEW c \in Calls,
             CallBegins(c) \/ Principal(c) \/ TouchKey(c) \/ ConsumeUsage(c)
      PROVE  TokensInv'
  BY <1>8, <1>1 DEF CallBegins, Principal, TouchKey, ConsumeUsage
<1>9. CASE ManageKeys \/ Restart
  BY <1>9, <1>1 DEF ManageKeys, Restart
<1> QED
  BY <1>2, <1>3, <1>4, <1>5, <1>6, <1>7, <1>8, <1>9 DEF AccessNext

-----------------------------------------------------------------------------
(* A request carries a key or a token that was given out.                  *)
Carried == [at : {"none", "principal", "touch", "quota"},
            key : Keys \cup {None}, token : Tokens \cup {None},
            user : Users \cup {None}, day : Nat]

Carries(x) ==
  /\ x \in Carried
  /\ x.at = "none" => x.key = None /\ x.token = None
  /\ x.at = "principal" /\ x.key = None => x.token \in Tokens

CallsInv ==
  /\ call = [c \in Calls |-> call[c]]
  /\ \A c \in Calls : Carries(call[c])

LEMMA DayType == \A t \in Ticks : Day(t) \in Nat
  BY AccessAssumption, TimeTypes DEF Day, AccessAssumption

LEMMA NoCallCarries == Carries(NoCall)
  BY DEF Carries, Carried

LEMMA CallsInit == AccessInit => CallsInv
  BY NoCallCarries DEF AccessInit, CallsInv

(* A step of one request.                                                  *)
LEMMA CallMoves ==
  ASSUME CallsInv, NEW c \in Calls, NEW x, Carries(x), call' = [call EXCEPT ![c] = x]
  PROVE  CallsInv'
<1>1. call' = [d \in Calls |-> call'[d]]
  BY DEF CallsInv
<1>2. \A d \in Calls : call'[d] = IF d = c THEN x ELSE call[d]
  BY DEF CallsInv
<1>3. \A d \in Calls : Carries(call'[d])
  BY <1>2 DEF CallsInv
<1> QED
  BY <1>1, <1>3 DEF CallsInv, Carries, Carried

LEMMA CallBeginsNext ==
  ASSUME CallsInv, NEW c \in Calls, CallBegins(c) PROVE CallsInv'
<1>1. \A k \in Keys : Carries(Presents(k, None))
  BY AccessAssumption DEF Carries, Carried, Presents, AccessAssumption
<1>2. \A t \in Tokens : Carries(Presents(None, t))
  BY DEF Carries, Carried, Presents
<1> QED
  BY <1>1, <1>2, CallMoves DEF CallBegins

(* What a session lets in is the session of a user who is active.          *)
LEMMA UserOfToken ==
  ASSUME SessionsInv, NEW t \in Tokens, UserOf(t) # {}
  PROVE  /\ UserOf(t) = {session[t].user} /\ (CHOOSE u \in UserOf(t) : TRUE) = session[t].user
         /\ session[t] # None /\ session[t].user \in Users
         /\ ~(session[t].expires <= now) /\ account[session[t].user] = "active"
  BY DEF UserOf, SessionsInv

(* The outcomes of require_principal.                                      *)
LEMMA PrincipalOutcome ==
  ASSUME CallsInv, TokensInv, NEW c \in Calls, Principal(c)
  PROVE  \/ call' = [call EXCEPT ![c] = NoCall]
         \/ call' = [call EXCEPT ![c] = [call[c] EXCEPT !.at = "touch"]]
         \/ /\ call[c].token \in Tokens /\ UserOf(call[c].token) # {}
            /\ call' = [call EXCEPT ![c] =
                 [at |-> "quota", key |-> None, token |-> call[c].token,
                  user |-> session[call[c].token].user, day |-> Day(now)]]
<1>1. call[c] \in Carried /\ call[c].at = "principal"
  BY DEF Principal, CallsInv, Carries
<1>2. CASE call[c].key # None
  BY <1>2 DEF Principal, CallsInv
<1>3. CASE call[c].key = None
  <2>1. call[c].token \in Tokens
    BY <1>1, <1>3 DEF CallsInv, Carries
  <2>2. CASE UserOf(call[c].token) = {}
    BY <1>3, <2>2 DEF Principal, CallsInv
  <2>3. CASE UserOf(call[c].token) # {}
    <3>1. (CHOOSE u \in UserOf(call[c].token) : TRUE) = session[call[c].token].user
      BY <2>1, <2>3, UserOfToken DEF TokensInv
    <3> QED
      BY <1>3, <2>1, <2>3, <3>1 DEF Principal, CallsInv
  <2> QED
    BY <2>2, <2>3
<1> QED
  BY <1>2, <1>3

LEMMA PrincipalNext ==
  ASSUME CallsInv, TokensInv, LoginInv, NEW c \in Calls, Principal(c) PROVE CallsInv'
<1>1. call[c] \in Carried
  BY DEF CallsInv, Carries
<1>2. CASE call' = [call EXCEPT ![c] = NoCall]
  BY <1>2, NoCallCarries, CallMoves
<1>3. CASE call' = [call EXCEPT ![c] = [call[c] EXCEPT !.at = "touch"]]
  <2>1. Carries([call[c] EXCEPT !.at = "touch"])
    BY <1>1 DEF Carries, Carried
  <2> QED
    BY <1>3, <2>1, CallMoves
<1>4. CASE /\ call[c].token \in Tokens /\ UserOf(call[c].token) # {}
           /\ call' = [call EXCEPT ![c] =
                [at |-> "quota", key |-> None, token |-> call[c].token,
                 user |-> session[call[c].token].user, day |-> Day(now)]]
  <2>1. session[call[c].token].user \in Users /\ Day(now) \in Nat
    BY <1>4, UserOfToken, DayType DEF TokensInv, LoginInv, LoginTypes
  <2>2. Carries([at |-> "quota", key |-> None, token |-> call[c].token,
                 user |-> session[call[c].token].user, day |-> Day(now)])
    BY <1>1, <2>1 DEF Carries, Carried
  <2> QED
    BY <1>4, <2>2, CallMoves
<1> QED
  BY <1>2, <1>3, <1>4, PrincipalOutcome

LEMMA CallsNext ==
  CallsInv /\ TokensInv /\ LoginInv /\ [AccessNext]_accessVars => CallsInv'
<1> SUFFICES ASSUME CallsInv, TokensInv, LoginInv, [AccessNext]_accessVars
             PROVE  CallsInv'
  OBVIOUS
<1>1. ASSUME UNCHANGED call PROVE CallsInv'
  BY <1>1 DEF CallsInv, Carries, Carried
<1>2. ASSUME NEW c \in Calls, TouchKey(c) \/ ConsumeUsage(c) PROVE CallsInv'
  BY <1>2, NoCallCarries, CallMoves DEF TouchKey, ConsumeUsage
<1>3. CASE Restart
  <2>1. call' = [c \in Calls |-> NoCall]
    BY <1>3 DEF Restart
  <2> QED
    BY <2>1, NoCallCarries DEF CallsInv, Carries, Carried
<1>4. CASE UNCHANGED accessVars
  BY <1>4, <1>1 DEF accessVars
<1>5. ASSUME NEW b \in Browsers,
             \/ StartLogin(b) \/ CallbackBegins(b) \/ ExchangeCode(b)
             \/ UpsertUser(b) \/ CreateSession(b) \/ Logout(b)
      PROVE  CallsInv'
  BY <1>5, <1>1
  DEF StartLogin, CallbackBegins, ExchangeCode, UpsertUser, CreateSession, Logout
<1>6. ASSUME NEW u \in Users, Consent(u) \/ Disable(u) PROVE CallsInv'
  BY <1>6, <1>1 DEF Consent, Disable
<1>7. CASE ManageKeys \/ Tick
  BY <1>7, <1>1 DEF ManageKeys, Tick
<1> QED
  BY <1>2, <1>3, <1>4, <1>5, <1>6, <1>7, CallBeginsNext, PrincipalNext DEF AccessNext

(* A token that was logged out or ran out, or is of a disabled user, lets  *)
(* no request in, in whatever order logins, logouts, midnights, restarts   *)
(* and requests come.                                                      *)
THEOREM NothingRevives == AccessSpec => EndedStaysEnded
<1> DEFINE A == \A c \in Calls : Principal(c) /\ call'[c].at = "quota" =>
                  call[c].token \notin ended /\ account[call'[c].user] = "active"
<1>1. CallsInv /\ TokensInv => A
  <2> SUFFICES ASSUME CallsInv, TokensInv, NEW c \in Calls, Principal(c),
                      call'[c].at = "quota"
               PROVE  call[c].token \notin ended /\ account[call'[c].user] = "active"
    OBVIOUS
  <2>1. call[c] \in Carried /\ call = [d \in Calls |-> call[d]]
    BY DEF CallsInv, Carries
  <2>2. /\ call[c].token \in Tokens /\ UserOf(call[c].token) # {}
        /\ call' = [call EXCEPT ![c] =
             [at |-> "quota", key |-> None, token |-> call[c].token,
              user |-> session[call[c].token].user, day |-> Day(now)]]
    <3>1. ASSUME call' = [call EXCEPT ![c] = NoCall] PROVE FALSE
      BY <2>1, <3>1
    <3>2. ASSUME call' = [call EXCEPT ![c] = [call[c] EXCEPT !.at = "touch"]] PROVE FALSE
      BY <2>1, <3>2 DEF Carried
    <3> QED
      BY <3>1, <3>2, PrincipalOutcome
  <2>3. call'[c].user = session[call[c].token].user
    BY <2>1, <2>2
  <2>4. /\ session[call[c].token] # None /\ ~(session[call[c].token].expires <= now)
        /\ account[session[call[c].token].user] = "active"
    BY <2>2, UserOfToken DEF TokensInv
  <2> QED
    BY <2>3, <2>4 DEF TokensInv, EndedInv
<1>2. AccessSpec => [](CallsInv /\ TokensInv /\ LoginInv)
  <2>1. AccessInit => CallsInv /\ TokensInv /\ LoginInv
    BY CallsInit, TokensInit, LoginInvInit
  <2>2. CallsInv /\ TokensInv /\ LoginInv /\ [AccessNext]_accessVars
        => (CallsInv /\ TokensInv /\ LoginInv)'
    BY CallsNext, TokensNext, LoginInvNext
  <2> QED
    BY <2>1, <2>2, PTL DEF AccessSpec
<1> QED
  BY <1>1, <1>2, PTL DEF EndedStaysEnded
-----------------------------------------------------------------------------
(* Days are counted in whole numbers and do not run backwards.             *)
LEMMA DivIsMonotone ==
  ASSUME NEW d \in Nat \ {0}, NEW m \in Nat, NEW n \in Nat, m <= n
  PROVE  m \div d \in Nat /\ m \div d <= n \div d
<1> DEFINE p == m \div d
           q == n \div d
<1>1. /\ p \in Nat /\ q \in Nat
      /\ m = d * p + (m % d) /\ n = d * q + (n % d)
      /\ m % d \in 0 .. d - 1 /\ n % d \in 0 .. d - 1
  OBVIOUS
<1> HIDE DEF p, q
<1>2. ASSUME p > q PROVE FALSE
  <2>1. PICK k \in Nat : p = q + 1 + k
    <3>1. p - q - 1 \in Nat /\ p = q + 1 + (p - q - 1)
      BY <1>1, <1>2
    <3> QED
      BY <3>1
  <2>2. d * p = d * q + d + d * k /\ d * k \in Nat /\ d * q \in Nat
    BY <1>1, <2>1
  <2> QED
    BY <1>1, <2>2
<1> QED
  BY <1>1, <1>2 DEF p, q

LEMMA DaysAreCounted == \A t \in Ticks : Day(t) \in 0 .. Day(LastTick)
<1> SUFFICES ASSUME NEW t \in Ticks PROVE Day(t) \in 0 .. Day(LastTick)
  OBVIOUS
<1>1. t \in Nat /\ t <= LastTick /\ LastTick \in Nat /\ DayLength \in Nat \ {0}
  BY AccessAssumption DEF Ticks, AccessAssumption
<1>2. /\ t \div DayLength \in Nat /\ t \div DayLength <= LastTick \div DayLength
      /\ LastTick \div DayLength \in Nat
  BY <1>1, DivIsMonotone
<1> QED
  BY <1>2 DEF Day

(* What the types of logins, sessions and counts leave open: the accounts, *)
(* the records of the callbacks and of the requests.                       *)
Sessions == [user : Users, expires : Nat]
Callbacks == [at : {"exchange", "upsert", "create"}, flow : Flows, user : Users,
              began : Ticks]
Presented == [at : {"principal", "touch", "quota"},
              key : Keys \cup {None}, token : Tokens \cup {None},
              user : Users \cup {None}, day : 0 .. Day(LastTick)]

TableTypes ==
  /\ secret \in 0 .. MaxRestarts
  /\ account \in [Users -> {"absent", "active", "disabled"}]
  /\ session \in [Tokens -> {None} \cup Sessions]
  /\ key \in [Keys -> {"absent", "active", "revoked"}]
CallbackType == callback \in [Browsers -> {NoCallback} \cup Callbacks]
CallType == call \in [Calls -> {NoCall} \cup Presented]

RestTypes == TableTypes /\ CallbackType /\ CallType

LEMMA RestInit == AccessInit => RestTypes
  BY TimeTypes DEF AccessInit, RestTypes, TableTypes, CallbackType, CallType

LEMMA TablesNext ==
  ASSUME LoginInv, TableTypes, CallbackType, [AccessNext]_accessVars PROVE TableTypes'
<1>1. ASSUME UNCHANGED <<secret, account, session, key>> PROVE TableTypes'
  BY <1>1 DEF TableTypes
<1>2. ASSUME NEW b \in Browsers, UpsertUser(b) PROVE TableTypes'
  <2>1. account' = [account EXCEPT ![callback[b].user] =
                      IF @ = "absent" THEN "active" ELSE @]
        /\ UNCHANGED <<secret, session, key>>
    BY <1>2 DEF UpsertUser
  <2> QED
    BY <2>1 DEF TableTypes
<1>3. ASSUME NEW b \in Browsers, CreateSession(b) PROVE TableTypes'
  <2>1. PICK t \in Tokens :
          session' = [s \in Tokens |->
            IF s = t THEN [user |-> callback[b].user,
                           expires |-> callback[b].began + SessionTtl]
            ELSE IF session[s] # None /\ session[s].expires + DayLength < now THEN None
            ELSE session[s]]
    BY <1>3 DEF CreateSession
  <2>2. callback[b].at = "create" /\ UNCHANGED <<secret, account, key>>
    BY <1>3 DEF CreateSession
  <2>3. callback[b].user \in Users /\ callback[b].began + SessionTtl \in Nat
    BY <2>2, AccessAssumption DEF LoginInv, LoginTypes, AccessAssumption
  <2>4. [user |-> callback[b].user, expires |-> callback[b].began + SessionTtl] \in Sessions
    BY <2>3 DEF Sessions
  <2>5. session' \in [Tokens -> {None} \cup Sessions]
    BY <2>1, <2>4 DEF TableTypes
  <2> QED
    BY <2>2, <2>5 DEF TableTypes
<1>4. ASSUME NEW b \in Browsers, Logout(b) PROVE TableTypes'
  BY <1>4 DEF Logout, TableTypes
<1>5. ASSUME NEW u \in Users, Disable(u) PROVE TableTypes'
  BY <1>5 DEF Disable, TableTypes
<1>6. CASE ManageKeys
  BY <1>6 DEF ManageKeys, IssueKey, RevokeKey, TableTypes
<1>7. CASE Restart
  <2>1. secret' \in 0 .. MaxRestarts
    BY <1>7, TimeTypes DEF Restart, TableTypes
  <2> QED
    BY <1>7, <2>1 DEF Restart, TableTypes
<1>8. CASE UNCHANGED accessVars
  BY <1>8, <1>1 DEF accessVars
<1>9. ASSUME NEW b \in Browsers, StartLogin(b) \/ CallbackBegins(b) \/ ExchangeCode(b)
      PROVE  TableTypes'
  BY <1>9, <1>1 DEF StartLogin, CallbackBegins, ExchangeCode
<1>10. ASSUME NEW c \in Calls, CallBegins(c) \/ Principal(c) \/ TouchKey(c) \/ ConsumeUsage(c)
       PROVE  TableTypes'
  BY <1>10, <1>1 DEF CallBegins, Principal, TouchKey, ConsumeUsage
<1>11. ASSUME NEW u \in Users, Consent(u) PROVE TableTypes'
  BY <1>11, <1>1 DEF Consent
<1>12. CASE Tick
  BY <1>12, <1>1 DEF Tick
<1> QED
  BY <1>2, <1>3, <1>4, <1>5, <1>6, <1>7, <1>8, <1>9, <1>10, <1>11, <1>12 DEF AccessNext
(* A callback that is under way has a record; the others are NoCallback.   *)
LEMMA CallbacksNext ==
  ASSUME LoginInv, CallbackType, [AccessNext]_accessVars PROVE CallbackType'
<1>1. ASSUME UNCHANGED callback PROVE CallbackType'
  BY <1>1 DEF CallbackType
<1>2. ASSUME NEW b \in Browsers, Redirect(b) PROVE CallbackType'
  BY <1>2 DEF Redirect, CallbackType
<1>3. ASSUME NEW b \in Browsers, NEW l \in {"upsert", "create"}, callback[b].at # "none",
             callback' = [callback EXCEPT ![b].at = l]
      PROVE  CallbackType'
  <2>1. callback[b] \in Callbacks
    BY <1>3 DEF CallbackType
  <2>2. [callback[b] EXCEPT !.at = l] \in Callbacks
    BY <2>1 DEF Callbacks
  <2>3. callback' = [callback EXCEPT ![b] = [callback[b] EXCEPT !.at = l]]
    BY <1>3 DEF CallbackType
  <2> HIDE DEF NoCallback
  <2> QED
    BY <2>2, <2>3 DEF CallbackType
<1>4. ASSUME NEW b \in Browsers, CallbackBegins(b) PROVE CallbackType'
  <2>1. PICK c \in consents :
          \/ callback' = [callback EXCEPT ![b] =
               [at |-> "exchange", flow |-> c[1], user |-> c[2], began |-> now]]
          \/ Redirect(b)
    BY <1>4 DEF CallbackBegins
  <2>2. [at |-> "exchange", flow |-> c[1], user |-> c[2], began |-> now] \in Callbacks
    BY DEF LoginInv, LoginTypes, Callbacks
  <2> QED
    BY <2>1, <2>2, <1>2 DEF CallbackType
<1>5. ASSUME NEW b \in Browsers, ExchangeCode(b) PROVE CallbackType'
  BY <1>5, <1>2, <1>3 DEF ExchangeCode
<1>6. ASSUME NEW b \in Browsers, UpsertUser(b) PROVE CallbackType'
  BY <1>6, <1>2, <1>3 DEF UpsertUser
<1>7. ASSUME NEW b \in Browsers, CreateSession(b) PROVE CallbackType'
  BY <1>7, <1>2 DEF CreateSession
<1>8. CASE Restart
  BY <1>8 DEF Restart, CallbackType
<1>9. CASE UNCHANGED accessVars
  BY <1>9, <1>1 DEF accessVars
<1>10. ASSUME NEW b \in Browsers, StartLogin(b) \/ Logout(b) PROVE CallbackType'
  BY <1>10, <1>1 DEF StartLogin, Logout
<1>11. ASSUME NEW c \in Calls, CallBegins(c) \/ Principal(c) \/ TouchKey(c) \/ ConsumeUsage(c)
       PROVE  CallbackType'
  BY <1>11, <1>1 DEF CallBegins, Principal, TouchKey, ConsumeUsage
<1>12. ASSUME NEW u \in Users, Consent(u) \/ Disable(u) PROVE CallbackType'
  BY <1>12, <1>1 DEF Consent, Disable
<1>13. CASE ManageKeys \/ Tick
  BY <1>13, <1>1 DEF ManageKeys, Tick
<1> QED
  BY <1>4, <1>5, <1>6, <1>7, <1>8, <1>9, <1>10, <1>11, <1>12, <1>13 DEF AccessNext

(* A request that is under way has a record; the others are NoCall.        *)
LEMMA CallTypeNext ==
  ASSUME LoginInv, TokensInv, CallsInv, CallType, [AccessNext]_accessVars PROVE CallType'
<1>1. ASSUME UNCHANGED call PROVE CallType'
  BY <1>1 DEF CallType
<1>2. ASSUME NEW c \in Calls, NEW x \in {NoCall} \cup Presented,
             call' = [call EXCEPT ![c] = x]
      PROVE  CallType'
  <2> HIDE DEF NoCall
  <2> QED
    BY <1>2 DEF CallType
<1>3. 0 \in 0 .. Day(LastTick)
  <2>1. 0 \in Ticks
    BY TimeTypes DEF Ticks
  <2>2. Day(0) \in 0 .. Day(LastTick) /\ Day(LastTick) \in Nat
    BY <2>1, DaysAreCounted, DayType, TimeTypes DEF Ticks
  <2> QED
    BY <2>2
<1>4. ASSUME NEW c \in Calls, CallBegins(c) PROVE CallType'
  <2>1. /\ \A k \in Keys : Presents(k, None) \in Presented
        /\ \A t \in Tokens : Presents(None, t) \in Presented
    BY <1>3 DEF Presents, Presented
  <2> QED
    BY <1>4, <1>2, <2>1 DEF CallBegins
<1>5. ASSUME NEW c \in Calls, Principal(c) PROVE CallType'
  <2>1. CASE call' = [call EXCEPT ![c] = NoCall]
    BY <1>2, <2>1
  <2>2. CASE call' = [call EXCEPT ![c] = [call[c] EXCEPT !.at = "touch"]]
    <3>1. call[c] \in Presented
      BY <1>5 DEF CallType, Principal
    <3>2. [call[c] EXCEPT !.at = "touch"] \in Presented
      BY <3>1 DEF Presented
    <3> QED
      BY <1>2, <2>2, <3>2
  <2>3. CASE /\ call[c].token \in Tokens /\ UserOf(call[c].token) # {}
             /\ call' = [call EXCEPT ![c] =
                  [at |-> "quota", key |-> None, token |-> call[c].token,
                   user |-> session[call[c].token].user, day |-> Day(now)]]
    <3>1. session[call[c].token].user \in Users
      BY <2>3, UserOfToken DEF TokensInv
    <3>2. Day(now) \in 0 .. Day(LastTick)
      BY DaysAreCounted DEF LoginInv, LoginTypes
    <3>3. [at |-> "quota", key |-> None, token |-> call[c].token,
           user |-> session[call[c].token].user, day |-> Day(now)] \in Presented
      BY <2>3, <3>1, <3>2 DEF Presented
    <3> QED
      BY <1>2, <2>3, <3>3
  <2> QED
    BY <1>5, <2>1, <2>2, <2>3, PrincipalOutcome
<1>6. ASSUME NEW c \in Calls, TouchKey(c) \/ ConsumeUsage(c) PROVE CallType'
  BY <1>6, <1>2 DEF TouchKey, ConsumeUsage
<1>7. CASE Restart
  BY <1>7 DEF Restart, CallType
<1>8. CASE UNCHANGED accessVars
  BY <1>8, <1>1 DEF accessVars
<1>9. ASSUME NEW b \in Browsers,
             \/ StartLogin(b) \/ CallbackBegins(b) \/ ExchangeCode(b)
             \/ UpsertUser(b) \/ CreateSession(b) \/ Logout(b)
      PROVE  CallType'
  BY <1>9, <1>1
  DEF StartLogin, CallbackBegins, ExchangeCode, UpsertUser, CreateSession, Logout
<1>10. ASSUME NEW u \in Users, Consent(u) \/ Disable(u) PROVE CallType'
  BY <1>10, <1>1 DEF Consent, Disable
<1>11. CASE ManageKeys \/ Tick
  BY <1>11, <1>1 DEF ManageKeys, Tick
<1> QED
  BY <1>4, <1>5, <1>6, <1>7, <1>8, <1>9, <1>10, <1>11 DEF AccessNext

AccessInv == LoginInv /\ TokensInv /\ CallsInv /\ CountedInv /\ RestTypes

LEMMA AccessInvHolds == AccessSpec => []AccessInv
<1>1. AccessInit => AccessInv
  BY LoginInvInit, TokensInit, CallsInit, CountedInit, RestInit DEF AccessInv
<1>2. AccessInv /\ [AccessNext]_accessVars => AccessInv'
  BY LoginInvNext, TokensNext, CallsNext, CountedNext, TablesNext, CallbacksNext,
     CallTypeNext DEF AccessInv, RestTypes
<1> QED
  BY <1>1, <1>2, PTL DEF AccessSpec

(* Every variable keeps its type: no login leaves the record of a browser, *)
(* a session or a request half written, whatever it is interrupted by, and *)
(* a request is counted on a day of the calendar.                          *)
THEOREM AccessTypes == AccessSpec => []AccessTypeOK
<1>1. AccessInv => AccessTypeOK
  <2> SUFFICES ASSUME AccessInv PROVE AccessTypeOK
    OBVIOUS
  <2> HIDE DEF NoCallback, NoCall
  <2>1. admitted \in [Users \X (0 .. Day(LastTick)) -> Nat]
    BY AccessAssumption DEF AccessInv, CountedInv, AccessAssumption
  <2> QED
    BY <2>1 DEF AccessInv, LoginInv, LoginTypes, TokensInv, EndedInv, CountedInv, RestTypes,
       TableTypes, CallbackType, CallType, Sessions, Callbacks, Presented, AccessTypeOK
<1> QED
  BY <1>1, AccessInvHolds, PTL
=============================================================================
