------------------------------- MODULE Access -------------------------------
(***************************************************************************)
(* Who is calling and how often they may: the Google login with its signed *)
(* state cookie, sessions, API keys, and the daily quota of the expensive  *)
(* endpoints.                                                              *)
(*                                                                         *)
(* A login is known by its flow: the state, nonce and verifier that        *)
(* start_login drew together.  Handlers interleave between their awaits;   *)
(* each repository call is a transaction.  Google answers a flow once for  *)
(* each consent and exchanges a code once, for the verifier it was given   *)
(* the challenge of.                                                       *)
(***************************************************************************)
EXTENDS Naturals, FiniteSets

CONSTANTS
  Browsers, Users,
  Allowed,      \* the users whose address is on the allow-lists
  Flows,        \* bound: the logins that are started
  Tokens,       \* bound: the sessions that are created
  Calls,        \* the handlers of expensive requests
  Keys,         \* API keys
  LastTick,     \* bound: the time of a behaviour
  DayLength,    \* the ticks of a day
  StateTtl,     \* STATE_TTL_SECONDS
  SessionTtl,   \* settings.session_ttl_days
  Limit,        \* quota_limit of the action
  MaxRestarts,  \* bound: restarts of the API process that draw a new secret
  None

ASSUME AccessAssumption ==
  /\ Allowed \subseteq Users /\ IsFiniteSet(Users) /\ LastTick \in Nat
  /\ DayLength \in Nat \ {0} /\ StateTtl \in Nat /\ SessionTtl \in Nat
  /\ Limit \in Nat /\ MaxRestarts \in Nat
  /\ None \notin Users \cup Flows \cup Tokens \cup Keys
  /\ \A b \in Browsers, t \in 0 .. LastTick : None # [browser |-> b, time |-> t]

VARIABLES
  now,        \* utcnow()
  secret,     \* what signs the states, by the restarts that drew it
  account,    \* users: absent, or is_active
  session,    \* user_sessions: token -> user and expires_at, or None
  key,        \* api_keys
  usage,      \* usage_counters of the action
  started,    \* each flow: the browser and time of its start, or None
  cookie,     \* STATE_COOKIE of each browser
  consents,   \* the flows Google has an answer for, with the user it names
  callback,   \* google_callback for each browser, one at a time
  holds,      \* SESSION_COOKIE of each browser
  call,       \* each expensive request
  admitted,   \* history: the calls that went through, by user and day
  ended,      \* history: tokens that were logged out or ran out
  origin      \* history: the flow each token came from

google   == <<started, cookie, consents, callback, holds, origin>>
requests == <<call, usage, admitted>>
accessVars == <<now, secret, account, session, key, google, requests, ended>>

Ticks == 0 .. LastTick
Day(t) == t \div DayLength  \* quota_day
NoCallback == [at |-> "none", flow |-> None, user |-> None, began |-> 0]
NoCall == [at |-> "none", key |-> None, token |-> None, user |-> None, day |-> 0]

AccessTypeOK ==
  /\ now \in Ticks /\ secret \in 0 .. MaxRestarts
  /\ account \in [Users -> {"absent", "active", "disabled"}]
  /\ session \in [Tokens -> {None} \cup [user : Users, expires : Nat]]
  /\ key \in [Keys -> {"absent", "active", "revoked"}]
  /\ usage \in [Users \X (0 .. Day(LastTick)) -> 0 .. Limit]
  /\ started \in [Flows -> {None} \cup [browser : Browsers, time : Ticks]]
  /\ cookie \in [Browsers -> {None} \cup [flow : Flows, exp : Nat, signer : Nat]]
  /\ consents \subseteq Flows \X Users
  /\ callback \in [Browsers -> {NoCallback} \cup
       [at : {"exchange", "upsert", "create"}, flow : Flows, user : Users, began : Ticks]]
  /\ holds \in [Browsers -> Tokens \cup {None}]
  /\ call \in [Calls -> {NoCall} \cup
       [at : {"principal", "touch", "quota"},
        key : Keys \cup {None}, token : Tokens \cup {None},
        user : Users \cup {None}, day : 0 .. Day(LastTick)]]
  /\ admitted \in [Users \X (0 .. Day(LastTick)) -> Nat]
  /\ ended \subseteq Tokens /\ origin \in [Tokens -> Flows \cup {None}]

AccessInit ==
  /\ now = 0 /\ secret = 0 /\ account = [u \in Users |-> "absent"]
  /\ session = [t \in Tokens |-> None] /\ key = [k \in Keys |-> "absent"]
  /\ usage = [p \in Users \X (0 .. Day(LastTick)) |-> 0] /\ admitted = usage
  /\ started = [f \in Flows |-> None] /\ cookie = [b \in Browsers |-> None]
  /\ consents = {} /\ callback = [b \in Browsers |-> NoCallback]
  /\ holds = [b \in Browsers |-> None] /\ call = [c \in Calls |-> NoCall]
  /\ ended = {} /\ origin = [t \in Tokens |-> None]

-----------------------------------------------------------------------------
(* Login.                                                                  *)

StartLogin(b) ==
  /\ \E f \in Flows :
       /\ started[f] = None
       /\ started' = [started EXCEPT ![f] = [browser |-> b, time |-> now]]
       /\ cookie' = [cookie EXCEPT ![b] =
                       [flow |-> f, exp |-> now + StateTtl, signer |-> secret]]
  /\ UNCHANGED <<now, secret, account, session, key, consents, callback, holds,
                 origin, requests, ended>>

Consent(u) ==
  /\ \E f \in Flows : started[f] # None /\ consents' = consents \cup {<<f, u>>}
  /\ UNCHANGED <<now, secret, account, session, key, started, cookie, callback,
                 holds, origin, requests, ended>>

AnySigned(b) == IF cookie[b] = None THEN {} ELSE {cookie[b].flow}  \* mutant

(* unsign: the flow of a cookie this process signed that has not run out.  *)
Unsigned(b) == IF \/ cookie[b] = None
                  \/ cookie[b].signer # secret \/ cookie[b].exp <= now
               THEN {} ELSE {cookie[b].flow}

(* _login_redirect: each answer drops the state cookie, a newer one too.   *)
Redirect(b) ==
  /\ cookie' = [cookie EXCEPT ![b] = None]
  /\ callback' = [callback EXCEPT ![b] = NoCallback]

(* Google's redirect is opened in a browser: the one it was meant for, or  *)
(* another, once or again.                                                 *)
CallbackBegins(b) ==
  /\ callback[b].at = "none"
  /\ \E c \in consents :
       IF c[1] \in Unsigned(b)
       THEN /\ callback' = [callback EXCEPT ![b] =
                 [at |-> "exchange", flow |-> c[1], user |-> c[2], began |-> now]]
            /\ UNCHANGED cookie
       ELSE Redirect(b)
  /\ UNCHANGED <<now, secret, account, session, key, started, consents, holds,
                 origin, requests, ended>>

(* exchange_code and parse_id_token: the code is good once; Google may be  *)
(* out of reach, or its answer rejected.                                   *)
ExchangeCode(b) ==
  /\ callback[b].at = "exchange"
  /\ \/ /\ <<callback[b].flow, callback[b].user>> \in consents
        /\ consents' = consents \ {<<callback[b].flow, callback[b].user>>}
        /\ IF callback[b].user \in Allowed
           THEN callback' = [callback EXCEPT ![b].at = "upsert"] /\ UNCHANGED cookie
           ELSE Redirect(b)
     \/ Redirect(b) /\ UNCHANGED consents
  /\ UNCHANGED <<now, secret, account, session, key, started, holds, origin,
                 requests, ended>>

(* upsert_google_user does not touch is_active.                            *)
UpsertUser(b) ==
  LET u == callback[b].user IN
  /\ callback[b].at = "upsert"
  /\ account' = [account EXCEPT ![u] = IF @ = "absent" THEN "active" ELSE @]
  /\ IF account'[u] = "disabled" THEN Redirect(b)
     ELSE callback' = [callback EXCEPT ![b].at = "create"] /\ UNCHANGED cookie
  /\ UNCHANGED <<now, secret, session, key, started, consents, holds, origin,
                 requests, ended>>

(* create_user_session; sessions that ran out a day ago are deleted.       *)
CreateSession(b) ==
  /\ callback[b].at = "create"
  /\ \E t \in Tokens :
       /\ origin[t] = None
       /\ origin' = [origin EXCEPT ![t] = callback[b].flow]
       /\ holds' = [holds EXCEPT ![b] = t]
       /\ session' = [s \in Tokens |->
            IF s = t THEN [user |-> callback[b].user,
                           expires |-> callback[b].began + SessionTtl]
            ELSE IF session[s] # None /\ session[s].expires + DayLength < now THEN None
            ELSE session[s]]
  /\ Redirect(b)
  /\ UNCHANGED <<now, secret, account, key, started, consents, requests, ended>>

(* auth_logout                                                             *)
Logout(b) ==
  /\ holds[b] # None
  /\ session' = [session EXCEPT ![holds[b]] = None]
  /\ ended' = ended \cup {holds[b]}
  /\ holds' = [holds EXCEPT ![b] = None]
  /\ UNCHANGED <<now, secret, account, key, started, cookie, consents, callback,
                 origin, requests>>

-----------------------------------------------------------------------------
(* Requests.                                                               *)

Presents(k, t) == [at |-> "principal", key |-> k, token |-> t, user |-> None, day |-> 0]

(* A request carries a key, a cookie that a browser holds or once held.    *)
CallBegins(c) ==
  /\ call[c].at = "none"
  /\ \/ \E k \in Keys : /\ key[k] # "absent"
                        /\ call' = [call EXCEPT ![c] = Presents(k, None)]
     \/ \E t \in Tokens : /\ origin[t] # None
                          /\ call' = [call EXCEPT ![c] = Presents(None, t)]
  /\ UNCHANGED <<now, secret, account, session, key, google, usage, admitted, ended>>

ForgetsExpiry(t) == IF session[t] = None THEN {} ELSE {session[t].user}  \* mutant

(* get_user_by_session                                                     *)
UserOf(t) ==
  IF session[t] = None \/ session[t].expires <= now \/ account[session[t].user] # "active"
  THEN {} ELSE {session[t].user}

(* require_principal: ApiKeyService.verify reads the key and touches it in *)
(* a second transaction; a session is one read.  401 ends the request.     *)
Principal(c) ==
  /\ call[c].at = "principal"
  /\ call' = [call EXCEPT ![c] =
       IF @.key # None THEN IF key[@.key] = "active"
                            THEN [@ EXCEPT !.at = "touch"] ELSE NoCall
       ELSE IF UserOf(@.token) = {} THEN NoCall
       ELSE [at |-> "quota", key |-> None, token |-> @.token,
             user |-> CHOOSE u \in UserOf(@.token) : TRUE, day |-> Day(now)]]
  /\ UNCHANGED <<now, secret, account, session, key, google, usage, admitted, ended>>

TouchKey(c) ==
  /\ call[c].at = "touch"
  /\ call' = [call EXCEPT ![c] = NoCall]
  /\ UNCHANGED <<now, secret, account, session, key, google, usage, admitted, ended>>

CountsFirst(p) == usage[p] <= Limit  \* mutant

(* The condition of the upsert: under the limit, and the limit not zero.   *)
MayCount(p) == Limit > 0 /\ usage[p] < Limit

(* enforce_quota: consume_usage counts and decides in one statement, and   *)
(* the use stays spent whatever becomes of the request.                    *)
ConsumeUsage(c) ==
  LET p == <<call[c].user, call[c].day>> IN
  /\ call[c].at = "quota"
  /\ IF MayCount(p) THEN /\ usage' = [usage EXCEPT ![p] = @ + 1]
                         /\ admitted' = [admitted EXCEPT ![p] = @ + 1]
     ELSE UNCHANGED <<usage, admitted>>
  /\ call' = [call EXCEPT ![c] = NoCall]
  /\ UNCHANGED <<now, secret, account, session, key, google, ended>>

-----------------------------------------------------------------------------
(* The operator issues and revokes keys (manage_keys) and may disable a    *)
(* user in the table; time passes; the API process restarts.               *)
IssueKey(k) == key[k] = "absent" /\ key' = [key EXCEPT ![k] = "active"]
RevokeKey(k) == key[k] = "active" /\ key' = [key EXCEPT ![k] = "revoked"]
ManageKeys == /\ \E k \in Keys : IssueKey(k) \/ RevokeKey(k)
              /\ UNCHANGED <<now, secret, account, session, google, requests, ended>>

Disable(u) ==
  /\ account[u] = "active" /\ account' = [account EXCEPT ![u] = "disabled"]
  /\ UNCHANGED <<now, secret, session, key, google, requests, ended>>

Tick ==
  /\ now < LastTick /\ now' = now + 1
  /\ ended' = ended \cup {t \in Tokens : session[t] # None /\ session[t].expires <= now'}
  /\ UNCHANGED <<secret, account, session, key, google, requests>>

(* A restart draws a new secret, unless SESSION_SECRET is set.             *)
Restart ==
  /\ \E fresh \in {0, 1} : secret + fresh <= MaxRestarts /\ secret' = secret + fresh
  /\ callback' = [b \in Browsers |-> NoCallback] /\ call' = [c \in Calls |-> NoCall]
  /\ UNCHANGED <<now, account, session, key, started, cookie, consents, holds,
                 origin, usage, admitted, ended>>

AccessNext ==
  \/ \E b \in Browsers : \/ StartLogin(b) \/ CallbackBegins(b) \/ ExchangeCode(b)
                         \/ UpsertUser(b) \/ CreateSession(b) \/ Logout(b)
  \/ \E u \in Users : Consent(u) \/ Disable(u)
  \/ \E c \in Calls : CallBegins(c) \/ Principal(c) \/ TouchKey(c) \/ ConsumeUsage(c)
  \/ ManageKeys \/ Tick \/ Restart

AccessSpec == AccessInit /\ [][AccessNext]_accessVars

-----------------------------------------------------------------------------
(* A browser is signed in only through a login it began itself, while the  *)
(* state of that login was good: whichever redirects are opened where, in  *)
(* whatever order logins are started and answered.                         *)
SignInsAreTheirOwn ==
  \A b \in Browsers :
    /\ callback[b].at # "none" =>
         LET f == callback[b].flow IN
         started[f].browser = b /\ callback[b].began < started[f].time + StateTtl
    /\ holds[b] # None => started[origin[holds[b]]].browser = b

(* A token that was logged out or ran out lets no request in again, nor    *)
(* does one of a disabled user: not after a restart, and not while another *)
(* login of the same user goes on.                                         *)
EndedStaysEnded ==
  [][\A c \in Calls : Principal(c) /\ call'[c].at = "quota" =>
       call[c].token \notin ended /\ account[call'[c].user] = "active"]_accessVars

(* No more than the limit of a user's requests go through in a day,        *)
(* however many are between their check and their count.                   *)
QuotaKept == \A p \in DOMAIN admitted : admitted[p] <= Limit
=============================================================================
