------------------------------- MODULE Accounts -------------------------------
(***************************************************************************)
(* Users, API keys and OAuth states: the HTTP handlers of                  *)
(* gateway/server.js over the users and api_keys collections               *)
(* (users/users.js, abuse/apiKey.js, db/mongo.js) and the OAuth states in  *)
(* Redis (oauth/state.js).                                                 *)
(*                                                                         *)
(* MongoDB and Redis execute one command at a time; a handler is a         *)
(* sequence of them, and the commands of several handlers interleave.  An  *)
(* action is one command together with the code from its answer to the     *)
(* next command.  req[r].pc names the command r sends next.                *)
(***************************************************************************)
EXTENDS Integers, FiniteSets

CONSTANTS
  Requests,     \* the HTTP requests that may be in flight at once
  People,       \* local e-mail addresses and provider profiles
  Providers,    \* the OAuth providers that are configured
  Local,        \* the "provider" of an e-mail address
  ProviderOf,   \* whose profile (or e-mail address) a member of People is
  Addresses,    \* ipHash values
  Keys,         \* tokens that can be drawn (a bound)
  Uids,         \* user ids that can be drawn (a bound)
  Nonces,       \* OAuth states that can be drawn (a bound)
  Nobody        \* null

ASSUME AccountsAssumption ==
  /\ IsFiniteSet(Requests) /\ IsFiniteSet(Keys) /\ IsFiniteSet(Uids)
  /\ Local \notin Providers
  /\ ProviderOf \in [People -> Providers \cup {Local}]
  /\ Nobody \notin People \cup Addresses \cup Keys \cup Uids \cup Nonces

VARIABLES
  users,        \* the collection "users"
  apiKeys,      \* the collection "api_keys", what has expired left out
  oauthStates,  \* the keys oauth:state:* in Redis
  drawn,        \* the tokens, user ids and nonces drawn so far
  spent,        \* history: the nonces a callback has deleted
  req           \* the handler each request runs, and where it is

vars == <<users, apiKeys, oauthStates, drawn, spent, req>>

Ops     == {"key", "register", "login", "oauth", "logout", "delete"}
Settled == {"new", "granted", "refused"}
Steps   == {"findKey", "insertKey", "findUser", "insertUser", "revokeAll",
            "lookup", "deleteUser", "deleteKey", "getState", "delState"}

Documents == [token : Keys, user : Uids \cup {Nobody}, ip : Addresses]

(* before and late are history: the tokens that were live, and whether the  *)
(* nonce was spent, when the request arrived.                               *)
RequestType ==
  [op : Ops \cup {"none"}, pc : Settled \cup Steps,
   who : People \cup {Nobody}, at : Addresses \cup {Nobody},
   token : Keys \cup {Nobody}, uid : Uids \cup {Nobody},
   nonce : Nonces \cup {Nobody}, valid : BOOLEAN,
   before : SUBSET Keys, late : BOOLEAN]

TypeOK ==
  /\ users \subseteq [uid : Uids, person : People]
  /\ apiKeys \subseteq Documents
  /\ oauthStates \subseteq [nonce : Nonces, provider : Providers]
  /\ drawn \subseteq Keys \cup Uids \cup Nonces
  /\ spent \subseteq Nonces
  /\ req \in [Requests -> RequestType]

Blank ==
  [op |-> "none", pc |-> "new", who |-> Nobody, at |-> Nobody, token |-> Nobody,
   uid |-> Nobody, nonce |-> Nobody, valid |-> FALSE, before |-> {}, late |-> FALSE]

Init ==
  /\ users = {}
  /\ apiKeys = {}
  /\ oauthStates = {}
  /\ drawn = {}
  /\ spent = {}
  /\ req = [r \in Requests |-> Blank]

KeysOf(u)       == {d \in apiKeys : d.user = u}
AnonymousAt(a)  == {d \in apiKeys : d.user = Nobody /\ d.ip = a}
AccountOf(p)    == {d \in users : d.person = p}
Answer(r, how)  == req' = [req EXCEPT ![r] = [Blank EXCEPT !.pc = how]]
Goto(r, step)   == req' = [req EXCEPT ![r].pc = step]
Stored          == <<users, apiKeys, oauthStates, drawn, spent>>

-----------------------------------------------------------------------------
(* The requests.  What fails before the first command of a handler (the     *)
(* origin, the body, the rate limits) is a request that Fails at once.      *)

Arrive(r, request) ==
  /\ req[r].pc \in Settled
  /\ req' = [req EXCEPT ![r] = request]
  /\ UNCHANGED Stored

Arrived(op, step, who, at, token, nonce) ==
  [op |-> op, pc |-> step, who |-> who, at |-> at, token |-> token, uid |-> Nobody,
   nonce |-> nonce, valid |-> FALSE,
   before |-> {d.token : d \in apiKeys}, late |-> nonce \in spent]

RequestKey(r, a) == Arrive(r, Arrived("key", "findKey", Nobody, a, Nobody, Nobody))

Register(r, p, a) ==
  /\ ProviderOf[p] = Local
  /\ Arrive(r, Arrived("register", "findUser", p, a, Nobody, Nobody))

Login(r, p, a) ==
  /\ ProviderOf[p] = Local
  /\ Arrive(r, Arrived("login", "findUser", p, a, Nobody, Nobody))

Logout(r, k) ==
  k \in drawn /\ Arrive(r, Arrived("logout", "deleteKey", Nobody, Nobody, k, Nobody))

DeleteAccount(r, k) ==
  k \in drawn /\ Arrive(r, Arrived("delete", "lookup", Nobody, Nobody, k, Nobody))

(* The callback of p's provider, with any state that was ever drawn. *)
OAuthCallback(r, p, a, n) ==
  /\ ProviderOf[p] \in Providers
  /\ n \in drawn
  /\ Arrive(r, Arrived("oauth", "getState", p, a, Nobody, n))

(* handleOAuthStart: one command, so it is never in flight. *)
OAuthStart(pr, n) ==
  /\ n \notin drawn
  /\ oauthStates' = oauthStates \cup {[nonce |-> n, provider |-> pr]}
  /\ drawn' = drawn \cup {n}
  /\ UNCHANGED <<users, apiKeys, spent, req>>

(* A rate limit, a check or a service says no: the handler answers with an  *)
(* error, and what it has done so far stays done.                           *)
Fails(r) ==
  /\ req[r].pc \in Steps
  /\ Answer(r, "refused")
  /\ UNCHANGED Stored

-----------------------------------------------------------------------------
(* abuse/apiKey.js *)

(* (mutated form of FindKey: any active key is overlooked) *)
FindKeyOverlooks(r) ==
  /\ req[r].pc = "findKey"
  /\ Goto(r, "insertKey")
  /\ UNCHANGED Stored

(* generateApiKey without a user: is there an active key of this address?   *)
FindKey(r) ==
  /\ req[r].pc = "findKey"
  /\ IF AnonymousAt(req[r].at) = {} THEN Goto(r, "insertKey") ELSE Answer(r, "refused")
  /\ UNCHANGED Stored

(* generateApiKey's insert; its answer may be lost on the way. *)
InsertKey(r, k) ==
  /\ req[r].pc = "insertKey"
  /\ k \notin drawn
  /\ apiKeys' = apiKeys \cup {[token |-> k, user |-> req[r].uid, ip |-> req[r].at]}
  /\ drawn' = drawn \cup {k}
  /\ \E how \in {"granted", "refused"} : Answer(r, how)
  /\ UNCHANGED <<users, oauthStates, spent>>

AfterRevocation(r) ==
  IF req[r].op = "delete" THEN Answer(r, "granted") ELSE Goto(r, "insertKey")

(* (mutated form of RevokeAll: deleteOne instead of deleteMany) *)
RevokeOne(r) ==
  /\ req[r].pc = "revokeAll"
  /\ IF KeysOf(req[r].uid) = {}
       THEN UNCHANGED apiKeys
       ELSE \E d \in KeysOf(req[r].uid) : apiKeys' = apiKeys \ {d}
  /\ AfterRevocation(r)
  /\ UNCHANGED <<users, oauthStates, drawn, spent>>

(* revokeApiKeysForUser *)
RevokeAll(r) ==
  /\ req[r].pc = "revokeAll"
  /\ apiKeys' = apiKeys \ KeysOf(req[r].uid)
  /\ AfterRevocation(r)
  /\ UNCHANGED <<users, oauthStates, drawn, spent>>

(* revokeApiKey *)
DeleteKey(r) ==
  /\ req[r].pc = "deleteKey"
  /\ apiKeys' = {d \in apiKeys : d.token # req[r].token}
  /\ Answer(r, "granted")
  /\ UNCHANGED <<users, oauthStates, drawn, spent>>

(* (mutated form of Lookup: a key without a user is let through) *)
LookupAnyKey(r) ==
  /\ req[r].pc = "lookup"
  /\ \/ \E d \in apiKeys :
          /\ d.token = req[r].token
          /\ req' = [req EXCEPT ![r].pc = "deleteUser", ![r].uid = d.user]
     \/ /\ \A d \in apiKeys : d.token # req[r].token
        /\ Answer(r, "refused")
  /\ UNCHANGED Stored

(* lookupApiKey, for the deletion of an account. *)
Lookup(r) ==
  /\ req[r].pc = "lookup"
  /\ \/ \E d \in apiKeys :
          /\ d.token = req[r].token
          /\ d.user # Nobody
          /\ req' = [req EXCEPT ![r].pc = "deleteUser", ![r].uid = d.user]
     \/ /\ \A d \in apiKeys : d.token = req[r].token => d.user = Nobody
        /\ Answer(r, "refused")
  /\ UNCHANGED Stored

(* expiresAt passes (every use of the key moves it on). *)
KeyExpires(d) ==
  /\ d \in apiKeys
  /\ apiKeys' = apiKeys \ {d}
  /\ UNCHANGED <<users, oauthStates, drawn, spent, req>>

-----------------------------------------------------------------------------
(* users/users.js *)

Identified(r, d, step) == req' = [req EXCEPT ![r].pc = step, ![r].uid = d.uid]

(* (mutated form of LoginFinds: the sessions of before are left alone) *)
LoginFindsNoRevocation(r) ==
  /\ req[r].op = "login"
  /\ \/ \E d \in AccountOf(req[r].who) : Identified(r, d, "insertKey")
     \/ Answer(r, "refused")

(* verifyLocalLogin: no such user, or the wrong password, is refused. *)
LoginFinds(r) ==
  /\ req[r].op = "login"
  /\ \/ \E d \in AccountOf(req[r].who) : Identified(r, d, "revokeAll")
     \/ Answer(r, "refused")

(* registerLocalUser looks whether the address is taken. *)
RegisterFinds(r) ==
  /\ req[r].op = "register"
  /\ IF AccountOf(req[r].who) = {} THEN Goto(r, "insertUser") ELSE Answer(r, "refused")

(* findOrCreateOAuthUser *)
OAuthFinds(r) ==
  /\ req[r].op = "oauth"
  /\ \/ \E d \in AccountOf(req[r].who) : Identified(r, d, "revokeAll")
     \/ AccountOf(req[r].who) = {} /\ Goto(r, "insertUser")

FindUser(r) ==
  /\ req[r].pc = "findUser"
  /\ LoginFinds(r) \/ RegisterFinds(r) \/ OAuthFinds(r)
  /\ UNCHANGED Stored

NewUser(r, u) ==
  /\ u \notin drawn
  /\ users' = users \cup {[uid |-> u, person |-> req[r].who]}
  /\ drawn' = drawn \cup {u}
  /\ req' = [req EXCEPT ![r].uid = u,
                        ![r].pc = IF req[r].op = "register" THEN "insertKey" ELSE "revokeAll"]

(* (mutated form of InsertUser: no unique index) *)
InsertUserNoIndex(r, u) ==
  /\ req[r].pc = "insertUser"
  /\ NewUser(r, u)
  /\ UNCHANGED <<apiKeys, oauthStates, spent>>

(* The insert; the unique indexes refuse a second account of a person. *)
InsertUser(r, u) ==
  /\ req[r].pc = "insertUser"
  /\ IF AccountOf(req[r].who) = {}
       THEN NewUser(r, u)
       ELSE Answer(r, "refused") /\ UNCHANGED <<users, drawn>>
  /\ UNCHANGED <<apiKeys, oauthStates, spent>>

(* deleteUser, then revokeApiKeysForUser *)
DeleteUser(r) ==
  /\ req[r].pc = "deleteUser"
  /\ users' = {d \in users : d.uid # req[r].uid}
  /\ Goto(r, "revokeAll")
  /\ UNCHANGED <<apiKeys, oauthStates, drawn, spent>>

-----------------------------------------------------------------------------
(* oauth/state.js *)

GetState(r) ==
  /\ req[r].pc = "getState"
  /\ req' = [req EXCEPT
       ![r].pc = "delState",
       ![r].valid = [nonce |-> req[r].nonce, provider |-> ProviderOf[req[r].who]] \in oauthStates]
  /\ UNCHANGED Stored

(* (mutated form of DelState: deleted only when it is refused) *)
DelStateOnRefusal(r) ==
  /\ req[r].pc = "delState"
  /\ oauthStates' = IF req[r].valid THEN oauthStates
                    ELSE {s \in oauthStates : s.nonce # req[r].nonce}
  /\ spent' = spent \cup {req[r].nonce}
  /\ IF req[r].valid THEN Goto(r, "findUser") ELSE Answer(r, "refused")
  /\ UNCHANGED <<users, apiKeys, drawn>>

(* The state is deleted whatever was read; the exchange with the provider,  *)
(* which keeps nothing here, comes next.                                    *)
DelState(r) ==
  /\ req[r].pc = "delState"
  /\ oauthStates' = {s \in oauthStates : s.nonce # req[r].nonce}
  /\ spent' = spent \cup {req[r].nonce}
  /\ IF req[r].valid THEN Goto(r, "findUser") ELSE Answer(r, "refused")
  /\ UNCHANGED <<users, apiKeys, drawn>>

(* STATE_TTL_SECONDS have passed. *)
StateExpires(s) ==
  /\ s \in oauthStates
  /\ oauthStates' = oauthStates \ {s}
  /\ UNCHANGED <<users, apiKeys, drawn, spent, req>>

-----------------------------------------------------------------------------
NewRequest(r) ==
  \/ \E a \in Addresses :
       \/ RequestKey(r, a)
       \/ \E p \in People :
            \/ Register(r, p, a) \/ Login(r, p, a)
            \/ \E n \in Nonces : OAuthCallback(r, p, a, n)
  \/ \E k \in Keys : Logout(r, k) \/ DeleteAccount(r, k)

Handler(r) ==
  \/ FindKey(r) \/ RevokeAll(r) \/ DeleteKey(r) \/ Lookup(r)
  \/ FindUser(r) \/ DeleteUser(r) \/ GetState(r) \/ DelState(r) \/ Fails(r)
  \/ \E k \in Keys : InsertKey(r, k)
  \/ \E u \in Uids : InsertUser(r, u)

Time == (\E d \in apiKeys : KeyExpires(d)) \/ (\E s \in oauthStates : StateExpires(s))

Next ==
  \/ \E r \in Requests : NewRequest(r) \/ Handler(r)
  \/ \E pr \in Providers, n \in Nonces : OAuthStart(pr, n)
  \/ Time

Spec == Init /\ [][Next]_vars

-----------------------------------------------------------------------------
(* What must hold, with the commands of several handlers interleaving.      *)

(* A person has one account: the look before the insert is not enough, two  *)
(* registrations or two first OAuth logins may both find nothing.           *)
OneAccountEach == \A d, e \in users : d.person = e.person => d = e

(* Requests about to insert a key for user u. *)
Issuing(u) == {r \in Requests : req[r].pc = "insertKey" /\ req[r].uid = u}

(* Revocation and insertion are two commands, so logins that overlap leave  *)
(* several sessions of one user; but never more than requests can be in     *)
(* flight, however many logins follow each other and whichever of them fail.*)
SessionBound ==
  \A u \in Uids : Cardinality(KeysOf(u)) + Cardinality(Issuing(u)) <= Cardinality(Requests)

IssuingAt(a) ==
  {r \in Requests : req[r].pc = "insertKey" /\ req[r].uid = Nobody /\ req[r].at = a}

(* The same of the anonymous keys of one address: the look for an active    *)
(* key and the insert are two commands.  One live key at a time, as the     *)
(* comment at apiKey.js:16 has it, is what requests that do not overlap     *)
(* leave: two that do both find none, and both insert one.                  *)
FarmingBound ==
  \A a \in Addresses :
    Cardinality(AnonymousAt(a)) + Cardinality(IssuingAt(a)) <= Cardinality(Requests)

(* A login that is answered has ended every session of the user that was    *)
(* alive when it arrived, and so has the deletion of an account: also those *)
(* that overlapping logins left behind.                                     *)
OlderSessionsEnd ==
  [][\A r \in Requests :
       req[r].op \in {"login", "oauth", "delete"} /\ req'[r].pc = "granted" =>
         \A d \in apiKeys' : d.user = req[r].uid => d.token \notin req[r].before]_vars

(* A key ends by expiring, by its own logout, or by a login or deletion of  *)
(* its user's account; no request ends a stranger's key or an anonymous one.*)
EndedByRight ==
  [][\A d \in apiKeys \ apiKeys' :
       \/ req' = req
       \/ \E r \in Requests :
            /\ req'[r] # req[r]
            /\ \/ req[r].op = "logout" /\ req[r].token = d.token
               \/ req[r].op \in {"login", "oauth", "delete"} /\ d.user # Nobody
                  /\ req[r].uid = d.user]_vars

(* A callback that arrives after another one has used its state up gets no  *)
(* further than consumeOAuthState.                                          *)
SpentStateRefused ==
  \A r \in Requests :
    req[r].late => req[r].pc \in {"getState", "delState"} /\ ~req[r].valid
=============================================================================
