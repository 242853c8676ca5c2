---------------------------- MODULE AccountsProofs ----------------------------
(***************************************************************************)
(* Proofs about Accounts, for any number of requests, people, addresses    *)
(* and tokens.                                                             *)
(***************************************************************************)
EXTENDS Accounts, FiniteSetTheorems, TLAPS

(* Where a request is says which handler it runs and what it carries.       *)
Fits(q) ==
  /\ q.op = "none" <=> q.pc \in Settled
  /\ q.pc = "findKey" => q.op = "key" /\ q.uid = Nobody
  /\ q.pc \in {"findUser", "insertUser"} => q.op \in {"register", "login", "oauth"}
  /\ q.pc = "revokeAll" => q.op \in {"login", "oauth", "delete"} /\ q.uid \in Uids
  /\ q.pc = "insertKey" => q.op \in {"key", "register", "login", "oauth"}
  /\ q.pc = "lookup" => q.op = "delete"
  /\ q.pc = "deleteUser" => q.op = "delete" /\ q.uid \in Uids
  /\ q.pc = "deleteKey" => q.op = "logout"
  /\ q.pc \in {"getState", "delState"} => q.op = "oauth"
  /\ q.op \in {"key", "register", "login", "oauth"} => q.at \in Addresses
  /\ q.op \in {"register", "login", "oauth"} => q.who \in People
  /\ q.op = "oauth" => q.nonce \in Nonces

(* What a request remembers has been drawn, and a late state is spent.      *)
Remembers(q) ==
  /\ q.uid \in drawn \cup {Nobody}
  /\ q.nonce \in drawn \cup {Nobody}
  /\ q.before \subseteq drawn
  /\ q.late => q.nonce \in spent

RequestsSound ==
  \A r \in Requests : Fits(req[r]) /\ Remembers(req[r])

(* Nothing is in a collection that was not drawn, and no spent state is kept. *)
DrawnCovers ==
  /\ \A d \in users : d.uid \in drawn
  /\ \A d \in apiKeys : d.token \in drawn /\ d.user \in drawn \cup {Nobody}
  /\ \A s \in oauthStates : s.nonce \in drawn /\ s.nonce \notin spent
  /\ spent \subseteq drawn

(* A login about to insert its key has none of the older sessions left.     *)
Cleared ==
  \A r \in Requests :
    req[r].pc = "insertKey" /\ req[r].op \in {"login", "oauth"} =>
      \A d \in apiKeys : d.user = req[r].uid => d.token \notin req[r].before

IInv ==
  /\ TypeOK
  /\ RequestsSound
  /\ DrawnCovers
  /\ OneAccountEach
  /\ SpentStateRefused
  /\ Cleared

-----------------------------------------------------------------------------
(* Init establishes the invariant. *)
LEMMA InitEstablishes == Init => IInv
<1> SUFFICES ASSUME Init PROVE IInv
  OBVIOUS
<1> USE AccountsAssumption DEF Init
<1>1. TypeOK
  BY DEF TypeOK, RequestType, Blank, Settled
<1>2. RequestsSound
  BY DEF RequestsSound, Fits, Remembers, Blank, Settled
<1>3. DrawnCovers /\ OneAccountEach
  BY DEF DrawnCovers, OneAccountEach
<1>4. SpentStateRefused /\ Cleared
  BY DEF SpentStateRefused, Cleared, Blank
<1> QED  BY <1>1, <1>2, <1>3, <1>4 DEF IInv

-----------------------------------------------------------------------------
(* One request moves on and the stored data may change: the other requests  *)
(* stay sound when nothing drawn or spent is forgotten and every key that is *)
(* new was not drawn before.                                                *)
LEMMA MoveKeepsRequests ==
  ASSUME IInv, NEW r \in Requests, NEW q \in RequestType,
         req' = [req EXCEPT ![r] = q],
         Fits(q), Remembers(q)',
         q.late => q.pc \in {"getState", "delState"} /\ ~q.valid,
         q.pc = "insertKey" /\ q.op \in {"login", "oauth"} =>
           \A d \in apiKeys' : d.user = q.uid => d.token \notin q.before,
         drawn \subseteq drawn', spent \subseteq spent',
         \A d \in apiKeys' : d \in apiKeys \/ d.token \notin drawn
  PROVE  /\ req' \in [Requests -> RequestType]
         /\ RequestsSound' /\ SpentStateRefused' /\ Cleared'
<1>1. /\ req' \in [Requests -> RequestType]
      /\ req'[r] = q
      /\ \A s \in Requests : s # r => req'[s] = req[s]
  BY DEF IInv, TypeOK
<1>2. RequestsSound'
  BY <1>1 DEF IInv, RequestsSound, Remembers, Fits
<1>3. SpentStateRefused'
  BY <1>1 DEF IInv, SpentStateRefused
<1>4. Cleared'
  BY <1>1 DEF IInv, Cleared, RequestsSound, Remembers
<1> QED  BY <1>1, <1>2, <1>3, <1>4

(* A request that answers forgets everything. *)
LEMMA AnswerKeepsRequests ==
  ASSUME IInv, NEW r \in Requests, NEW how \in Settled, Answer(r, how),
         drawn \subseteq drawn', spent \subseteq spent',
         \A d \in apiKeys' : d \in apiKeys \/ d.token \notin drawn
  PROVE  /\ req' \in [Requests -> RequestType]
         /\ RequestsSound' /\ SpentStateRefused' /\ Cleared'
<1> DEFINE q == [Blank EXCEPT !.pc = how]
<1>1. /\ q \in RequestType
      /\ q.op = "none" /\ q.pc = how /\ q.uid = Nobody /\ q.nonce = Nobody
      /\ q.before = {} /\ q.late = FALSE
  BY DEF RequestType, Blank, Settled
<1>2. req' = [req EXCEPT ![r] = q]
  BY DEF Answer
<1> HIDE DEF q
<1>3. Fits(q) /\ Remembers(q)'
  BY <1>1 DEF Fits, Remembers, Settled
<1>4. q.late = FALSE /\ q.pc # "insertKey"
  BY <1>1 DEF Settled
<1> QED  BY <1>1, <1>2, <1>3, <1>4, MoveKeepsRequests, ZenonT(60)

(* A handler goes on to its next command: what that command expects of the  *)
(* request is what has to be shown.                                         *)
LEMMA StepKeepsRequests ==
  ASSUME IInv, NEW r \in Requests, req[r].pc \in Steps,
         NEW step \in {"insertKey", "findUser", "insertUser", "revokeAll", "deleteUser", "delState"},
         NEW u \in Uids \cup {Nobody}, NEW v \in BOOLEAN,
         req' = [req EXCEPT ![r] = [req[r] EXCEPT !.pc = step, !.uid = u, !.valid = v]],
         step \in {"findUser", "insertUser"} => req[r].op \in {"register", "login", "oauth"},
         step = "insertKey" => req[r].op \in {"key", "register", "login", "oauth"},
         step = "revokeAll" => req[r].op \in {"login", "oauth", "delete"} /\ u \in Uids,
         step = "deleteUser" => req[r].op = "delete" /\ u \in Uids,
         step = "delState" => req[r].op = "oauth",
         u \in drawn' \cup {Nobody},
         req[r].late => step = "delState" /\ ~v,
         step = "insertKey" /\ req[r].op \in {"login", "oauth"} =>
           \A d \in apiKeys' : d.user = u => d.token \notin req[r].before,
         drawn \subseteq drawn', spent \subseteq spent',
         \A d \in apiKeys' : d \in apiKeys \/ d.token \notin drawn
  PROVE  /\ req' \in [Requests -> RequestType]
         /\ RequestsSound' /\ SpentStateRefused' /\ Cleared'
<1>1. PICK p \in RequestType : p = req[r]
  BY DEF IInv, TypeOK
<1>2. PICK q : q = [p EXCEPT !.pc = step, !.uid = u, !.valid = v]
  OBVIOUS
<1>3. /\ q \in RequestType
      /\ q.op = p.op /\ q.pc = step /\ q.who = p.who /\ q.at = p.at
      /\ q.uid = u /\ q.nonce = p.nonce /\ q.valid = v
      /\ q.before = p.before /\ q.late = p.late
  <2>1. step \in Settled \cup Steps
    BY DEF Steps
  <2>2. q = [op |-> p.op, pc |-> step, who |-> p.who, at |-> p.at, token |-> p.token,
             uid |-> u, nonce |-> p.nonce, valid |-> v, before |-> p.before, late |-> p.late]
    BY <1>1, <1>2 DEF RequestType
  <2> QED  BY <1>1, <2>1, <2>2 DEF RequestType
<1>4. Fits(p) /\ Remembers(p)
  BY <1>1 DEF IInv, RequestsSound
<1>5. Fits(q)
  BY <1>1, <1>3, <1>4 DEF Fits, Settled, Steps
<1>6. Remembers(q)'
  BY <1>1, <1>3, <1>4 DEF Remembers
<1>7. q.late => q.pc \in {"getState", "delState"} /\ ~q.valid
  BY <1>1, <1>3
<1>8. q.pc = "insertKey" /\ q.op \in {"login", "oauth"} =>
        \A d \in apiKeys' : d.user = q.uid => d.token \notin q.before
  BY <1>1, <1>3
<1>9. req' = [req EXCEPT ![r] = q]
  BY <1>1, <1>2
<1> QED  BY <1>3, <1>5, <1>6, <1>7, <1>8, <1>9, MoveKeepsRequests, ZenonT(60)

(* Goto changes the program counter and nothing else of the request. *)
LEMMA GotoKeepsRequests ==
  ASSUME IInv, NEW r \in Requests, req[r].pc \in Steps,
         NEW step \in {"insertKey", "findUser", "insertUser", "revokeAll"},
         Goto(r, step),
         step \in {"findUser", "insertUser"} => req[r].op \in {"register", "login", "oauth"},
         step = "insertKey" => req[r].op \in {"key", "register", "login", "oauth"},
         step = "revokeAll" => req[r].op \in {"login", "oauth", "delete"} /\ req[r].uid \in Uids,
         ~req[r].late,
         step = "insertKey" /\ req[r].op \in {"login", "oauth"} =>
           \A d \in apiKeys' : d.user = req[r].uid => d.token \notin req[r].before,
         drawn \subseteq drawn', spent \subseteq spent',
         \A d \in apiKeys' : d \in apiKeys \/ d.token \notin drawn
  PROVE  /\ req' \in [Requests -> RequestType]
         /\ RequestsSound' /\ SpentStateRefused' /\ Cleared'
<1>1. PICK p \in RequestType : p = req[r]
  BY DEF IInv, TypeOK
<1>2. PICK u \in Uids \cup {Nobody} : u = p.uid
  BY <1>1 DEF RequestType
<1>3. PICK v \in BOOLEAN : v = p.valid
  BY <1>1 DEF RequestType
<1>4. [p EXCEPT !.pc = step] = [p EXCEPT !.pc = step, !.uid = u, !.valid = v]
  BY <1>1, <1>2, <1>3 DEF RequestType
<1>5. req' = [req EXCEPT ![r] = [req[r] EXCEPT !.pc = step, !.uid = u, !.valid = v]]
  BY <1>1, <1>4 DEF Goto
<1>6. u \in drawn' \cup {Nobody}
  BY <1>1, <1>2 DEF IInv, RequestsSound, Remembers
<1>7. u = req[r].uid
  BY <1>1, <1>2
<1>8. step = "revokeAll" => req[r].op \in {"login", "oauth", "delete"} /\ u \in Uids
  BY <1>7
<1>9. step = "insertKey" /\ req[r].op \in {"login", "oauth"} =>
        \A d \in apiKeys' : d.user = u => d.token \notin req[r].before
  BY <1>7
<1> QED  BY <1>5, <1>6, <1>8, <1>9, StepKeepsRequests, ZenonT(60)

(* The request learns a user id and goes on. *)
LEMMA IdentifiedKeepsRequests ==
  ASSUME IInv, NEW r \in Requests, req[r].pc \in Steps, ~req[r].late,
         NEW step \in {"insertKey", "revokeAll", "deleteUser"},
         NEW u \in Uids,
         req' = [req EXCEPT ![r].pc = step, ![r].uid = u],
         step = "insertKey" => req[r].op = "register",
         step = "revokeAll" => req[r].op \in {"login", "oauth", "delete"},
         step = "deleteUser" => req[r].op = "delete",
         u \in drawn',
         drawn \subseteq drawn', spent \subseteq spent',
         \A d \in apiKeys' : d \in apiKeys \/ d.token \notin drawn
  PROVE  /\ req' \in [Requests -> RequestType]
         /\ RequestsSound' /\ SpentStateRefused' /\ Cleared'
<1>1. PICK p \in RequestType : p = req[r]
  BY DEF IInv, TypeOK
<1>2. PICK v \in BOOLEAN : v = p.valid
  BY <1>1 DEF RequestType
<1>3. req' = [req EXCEPT ![r] = [p EXCEPT !.pc = step, !.uid = u]]
  BY <1>1 DEF IInv, TypeOK, RequestType
<1>4. [p EXCEPT !.pc = step, !.uid = u] = [p EXCEPT !.pc = step, !.uid = u, !.valid = v]
  BY <1>1, <1>2 DEF RequestType
<1>5. req' = [req EXCEPT ![r] = [req[r] EXCEPT !.pc = step, !.uid = u, !.valid = v]]
  BY <1>1, <1>3, <1>4
<1> QED  BY <1>5, StepKeepsRequests, ZenonT(60)

-----------------------------------------------------------------------------
(* The stored data of a step that adds no account, token or state. *)
LEMMA StoredUnchanged ==
  ASSUME IInv, UNCHANGED Stored, req' \in [Requests -> RequestType]
  PROVE  TypeOK' /\ DrawnCovers' /\ OneAccountEach'
BY DEF IInv, Stored, TypeOK, DrawnCovers, OneAccountEach

LEMMA FailsPreserves ==
  ASSUME IInv, NEW r \in Requests, Fails(r)
  PROVE  IInv'
<1>1. /\ req' \in [Requests -> RequestType]
      /\ RequestsSound' /\ SpentStateRefused' /\ Cleared'
  BY AnswerKeepsRequests DEF Fails, Stored, Settled
<1> QED  BY <1>1, StoredUnchanged DEF Fails, IInv

LEMMA FindKeyPreserves ==
  ASSUME IInv, NEW r \in Requests, FindKey(r)
  PROVE  IInv'
<1>1. req[r].op = "key" /\ req[r].pc \in Steps /\ ~req[r].late
  BY DEF FindKey, IInv, RequestsSound, Fits, Steps, SpentStateRefused
<1>2. /\ req' \in [Requests -> RequestType]
      /\ RequestsSound' /\ SpentStateRefused' /\ Cleared'
  <2>1. CASE Goto(r, "insertKey")
    BY <1>1, <2>1, GotoKeepsRequests DEF FindKey, Stored
  <2>2. CASE Answer(r, "refused")
    BY <2>2, AnswerKeepsRequests DEF FindKey, Stored, Settled
  <2> QED  BY <2>1, <2>2 DEF FindKey
<1> QED  BY <1>2, StoredUnchanged DEF FindKey, IInv

(* The new key's token was never drawn, so no request remembers it as old.  *)
LEMMA InsertKeyPreserves ==
  ASSUME IInv, NEW r \in Requests, NEW k \in Keys, InsertKey(r, k)
  PROVE  IInv'
<1> DEFINE d == [token |-> k, user |-> req[r].uid, ip |-> req[r].at]
<1>1. /\ apiKeys' = apiKeys \cup {d} /\ drawn' = drawn \cup {k} /\ k \notin drawn
      /\ UNCHANGED <<users, oauthStates, spent>>
  BY DEF InsertKey
<1>2. req[r].uid \in (drawn \cup {Nobody}) \cap (Uids \cup {Nobody}) /\ req[r].at \in Addresses
  BY DEF IInv, TypeOK, RequestType, RequestsSound, Fits, Remembers, InsertKey
<1>3. d \in Documents /\ d.token = k /\ d.user = req[r].uid
  BY <1>2 DEF Documents
<1> HIDE DEF d
<1>4. /\ req' \in [Requests -> RequestType]
      /\ RequestsSound' /\ SpentStateRefused' /\ Cleared'
  <2>1. PICK how \in Settled : Answer(r, how)
    BY DEF InsertKey, Settled
  <2> QED  BY <1>1, <1>3, <2>1, AnswerKeepsRequests
<1>5. TypeOK' /\ DrawnCovers' /\ OneAccountEach'
  BY <1>1, <1>2, <1>3, <1>4 DEF IInv, TypeOK, DrawnCovers, OneAccountEach
<1> QED  BY <1>4, <1>5 DEF IInv

(* Fewer keys, fewer states or fewer users disturb nothing of the collections. *)
LEMMA FewerStored ==
  ASSUME IInv, apiKeys' \subseteq apiKeys, users' \subseteq users,
         oauthStates' \subseteq oauthStates, UNCHANGED <<drawn, spent>>,
         req' \in [Requests -> RequestType]
  PROVE  TypeOK' /\ DrawnCovers' /\ OneAccountEach'
BY DEF IInv, TypeOK, DrawnCovers, OneAccountEach

(* After the revocation a login has nothing older left. *)
LEMMA RevokeAllPreserves ==
  ASSUME IInv, NEW r \in Requests, RevokeAll(r)
  PROVE  IInv'
<1>1. /\ req[r].op \in {"login", "oauth", "delete"} /\ req[r].pc \in Steps /\ ~req[r].late
      /\ apiKeys' \subseteq apiKeys /\ \A d \in apiKeys' : d.user # req[r].uid
      /\ UNCHANGED <<users, oauthStates, drawn, spent>>
  BY DEF RevokeAll, KeysOf, IInv, RequestsSound, Fits, Steps, SpentStateRefused
<1>2. /\ req' \in [Requests -> RequestType]
      /\ RequestsSound' /\ SpentStateRefused' /\ Cleared'
  <2>1. CASE req[r].op = "delete" /\ Answer(r, "granted")
    BY <1>1, <2>1, AnswerKeepsRequests DEF Settled
  <2>2. CASE req[r].op # "delete" /\ Goto(r, "insertKey")
    BY <1>1, <2>2, GotoKeepsRequests, ZenonT(60)
  <2> QED  BY <2>1, <2>2 DEF RevokeAll, AfterRevocation
<1> QED  BY <1>1, <1>2, FewerStored DEF IInv

LEMMA DeleteKeyPreserves ==
  ASSUME IInv, NEW r \in Requests, DeleteKey(r)
  PROVE  IInv'
<1>1. apiKeys' \subseteq apiKeys /\ UNCHANGED <<users, oauthStates, drawn, spent>>
  BY DEF DeleteKey
<1>2. /\ req' \in [Requests -> RequestType]
      /\ RequestsSound' /\ SpentStateRefused' /\ Cleared'
  BY <1>1, AnswerKeepsRequests DEF DeleteKey, Settled
<1> QED  BY <1>1, <1>2, FewerStored DEF IInv

LEMMA LookupPreserves ==
  ASSUME IInv, NEW r \in Requests, Lookup(r)
  PROVE  IInv'
<1>1. req[r].op = "delete" /\ req[r].pc \in Steps /\ ~req[r].late /\ req[r].valid \in BOOLEAN
  BY DEF Lookup, IInv, TypeOK, RequestType, RequestsSound, Fits, Steps, SpentStateRefused
<1>2. /\ req' \in [Requests -> RequestType]
      /\ RequestsSound' /\ SpentStateRefused' /\ Cleared'
  <2>1. ASSUME NEW d \in apiKeys, d.user # Nobody,
               req' = [req EXCEPT ![r].pc = "deleteUser", ![r].uid = d.user]
        PROVE  /\ req' \in [Requests -> RequestType]
               /\ RequestsSound' /\ SpentStateRefused' /\ Cleared'
    <3>1. d.user \in Uids /\ d.user \in drawn
      BY <2>1 DEF IInv, TypeOK, Documents, DrawnCovers
    <3> QED  BY <1>1, <2>1, <3>1, IdentifiedKeepsRequests DEF Lookup, Stored
  <2>2. CASE Answer(r, "refused")
    BY <2>2, AnswerKeepsRequests DEF Lookup, Stored, Settled
  <2> QED  BY <2>1, <2>2 DEF Lookup
<1> QED  BY <1>2, StoredUnchanged DEF Lookup, IInv

LEMMA FindUserPreserves ==
  ASSUME IInv, NEW r \in Requests, FindUser(r)
  PROVE  IInv'
<1>1. req[r].pc \in Steps /\ ~req[r].late
  BY DEF FindUser, IInv, Steps, SpentStateRefused
<1>2. ASSUME req[r].op \in {"login", "oauth"}, NEW d \in AccountOf(req[r].who),
             Identified(r, d, "revokeAll")
      PROVE  /\ req' \in [Requests -> RequestType]
             /\ RequestsSound' /\ SpentStateRefused' /\ Cleared'
  <2>1. d.uid \in Uids /\ d.uid \in drawn
    BY DEF IInv, TypeOK, DrawnCovers, AccountOf
  <2>2. UNCHANGED <<apiKeys, drawn, spent>> /\ req' = [req EXCEPT ![r].pc = "revokeAll", ![r].uid = d.uid]
    BY <1>2 DEF Identified, FindUser, Stored
  <2> QED  BY <1>1, <1>2, <2>1, IdentifiedKeepsRequests DEF Identified, FindUser, Stored
<1>3. ASSUME req[r].op \in {"register", "oauth"}, Goto(r, "insertUser")
      PROVE  /\ req' \in [Requests -> RequestType]
             /\ RequestsSound' /\ SpentStateRefused' /\ Cleared'
  BY <1>1, <1>3, GotoKeepsRequests DEF FindUser, Stored
<1>4. ASSUME Answer(r, "refused")
      PROVE  /\ req' \in [Requests -> RequestType]
             /\ RequestsSound' /\ SpentStateRefused' /\ Cleared'
  BY <1>4, AnswerKeepsRequests DEF FindUser, Stored, Settled
<1>5. /\ req' \in [Requests -> RequestType]
      /\ RequestsSound' /\ SpentStateRefused' /\ Cleared'
  BY <1>2, <1>3, <1>4 DEF FindUser, LoginFinds, RegisterFinds, OAuthFinds
<1> QED  BY <1>5, StoredUnchanged DEF FindUser, IInv

(* The unique index lets an account in only when its person has none. *)
LEMMA InsertUserPreserves ==
  ASSUME IInv, NEW r \in Requests, NEW u \in Uids, InsertUser(r, u)
  PROVE  IInv'
<1>1. /\ req[r].op \in {"register", "login", "oauth"} /\ req[r].who \in People
      /\ req[r].pc \in Steps /\ ~req[r].late
  BY DEF InsertUser, IInv, RequestsSound, Fits, Steps, SpentStateRefused
<1>2. CASE AccountOf(req[r].who) = {} /\ NewUser(r, u)
  <2>1. /\ req' \in [Requests -> RequestType]
        /\ RequestsSound' /\ SpentStateRefused' /\ Cleared'
    <3>1. /\ drawn \subseteq drawn' /\ u \in drawn' /\ UNCHANGED <<apiKeys, spent>>
      BY <1>2 DEF NewUser, InsertUser
    <3>2. CASE req[r].op = "register"
      <4>1. req' = [req EXCEPT ![r].pc = "insertKey", ![r].uid = u]
        BY <1>2, <3>2 DEF NewUser, IInv, TypeOK, RequestType
      <4> QED  BY <1>1, <3>1, <3>2, <4>1, IdentifiedKeepsRequests
    <3>3. CASE req[r].op # "register"
      <4>1. req' = [req EXCEPT ![r].pc = "revokeAll", ![r].uid = u]
        BY <1>2, <3>3 DEF NewUser, IInv, TypeOK, RequestType
      <4> QED  BY <1>1, <3>1, <3>3, <4>1, IdentifiedKeepsRequests
    <3> QED  BY <3>2, <3>3
  <2>2. PICK e \in [uid : Uids, person : People] :
          e.person = req[r].who /\ users' = users \cup {e}
    BY <1>1, <1>2 DEF NewUser
  <2>3. \A d \in users : d.person # e.person
    BY <1>2, <2>2 DEF AccountOf
  <2>4. OneAccountEach'
    BY <2>2, <2>3 DEF IInv, OneAccountEach
  <2>5. TypeOK' /\ DrawnCovers'
    BY <1>2, <2>1, <2>2 DEF IInv, TypeOK, DrawnCovers, NewUser, InsertUser
  <2> QED  BY <2>1, <2>4, <2>5 DEF IInv
<1>3. CASE Answer(r, "refused") /\ UNCHANGED <<users, drawn>>
  <2>1. /\ req' \in [Requests -> RequestType]
        /\ RequestsSound' /\ SpentStateRefused' /\ Cleared'
    BY <1>3, AnswerKeepsRequests DEF InsertUser, Settled
  <2> QED  BY <1>3, <2>1, StoredUnchanged DEF InsertUser, Stored, IInv
<1> QED  BY <1>2, <1>3 DEF InsertUser

LEMMA DeleteUserPreserves ==
  ASSUME IInv, NEW r \in Requests, DeleteUser(r)
  PROVE  IInv'
<1>1. /\ req[r].op = "delete" /\ req[r].uid \in Uids /\ req[r].pc \in Steps /\ ~req[r].late
      /\ users' \subseteq users /\ UNCHANGED <<apiKeys, oauthStates, drawn, spent>>
  BY DEF DeleteUser, IInv, RequestsSound, Fits, Steps, SpentStateRefused
<1>2. /\ req' \in [Requests -> RequestType]
      /\ RequestsSound' /\ SpentStateRefused' /\ Cleared'
  BY <1>1, GotoKeepsRequests DEF DeleteUser
<1> QED  BY <1>1, <1>2, FewerStored DEF IInv

(* A late callback finds its state gone. *)
LEMMA GetStatePreserves ==
  ASSUME IInv, NEW r \in Requests, GetState(r)
  PROVE  IInv'
<1>1. PICK p \in RequestType : p = req[r]
  BY DEF IInv, TypeOK
<1>2. PICK v \in BOOLEAN :
        v <=> [nonce |-> p.nonce, provider |-> ProviderOf[p.who]] \in oauthStates
  OBVIOUS
<1>3. PICK u \in Uids \cup {Nobody} : u = p.uid
  BY <1>1 DEF RequestType
<1>4. req' = [req EXCEPT ![r] = [p EXCEPT !.pc = "delState", !.valid = v]]
  BY <1>1, <1>2 DEF GetState, IInv, TypeOK, RequestType
<1>5. [p EXCEPT !.pc = "delState", !.valid = v]
        = [p EXCEPT !.pc = "delState", !.uid = u, !.valid = v]
  BY <1>1, <1>3 DEF RequestType
<1>6. req' = [req EXCEPT ![r] = [req[r] EXCEPT !.pc = "delState", !.uid = u, !.valid = v]]
  BY <1>1, <1>4, <1>5
<1>7. /\ req[r].pc \in Steps /\ req[r].op = "oauth" /\ u \in drawn \cup {Nobody}
      /\ req[r].late => req[r].nonce \in spent
  BY <1>1, <1>3 DEF GetState, IInv, RequestsSound, Fits, Remembers, Steps
<1>8. req[r].late => ~v
  BY <1>1, <1>2, <1>7 DEF IInv, DrawnCovers
<1>9. /\ req' \in [Requests -> RequestType]
      /\ RequestsSound' /\ SpentStateRefused' /\ Cleared'
  BY <1>6, <1>7, <1>8, StepKeepsRequests, ZenonT(60) DEF GetState, Stored
<1> QED  BY <1>9, StoredUnchanged DEF GetState, IInv

LEMMA DelStatePreserves ==
  ASSUME IInv, NEW r \in Requests, DelState(r)
  PROVE  IInv'
<1>1. /\ req[r].op = "oauth" /\ req[r].pc \in Steps /\ req[r].nonce \in Nonces
      /\ req[r].nonce \in drawn
      /\ req[r].valid => ~req[r].late
  BY AccountsAssumption
  DEF DelState, IInv, RequestsSound, Fits, Remembers, Steps, SpentStateRefused
<1>2. /\ spent' = spent \cup {req[r].nonce}
      /\ oauthStates' \subseteq oauthStates
      /\ \A s \in oauthStates' : s.nonce # req[r].nonce
      /\ UNCHANGED <<users, apiKeys, drawn>>
  BY DEF DelState
<1>3. /\ req' \in [Requests -> RequestType]
      /\ RequestsSound' /\ SpentStateRefused' /\ Cleared'
  <2>1. CASE req[r].valid /\ Goto(r, "findUser")
    BY <1>1, <1>2, <2>1, GotoKeepsRequests, ZenonT(60)
  <2>2. CASE Answer(r, "refused")
    BY <1>2, <2>2, AnswerKeepsRequests DEF Settled
  <2> QED  BY <2>1, <2>2 DEF DelState
<1>4. TypeOK' /\ DrawnCovers' /\ OneAccountEach'
  BY <1>1, <1>2, <1>3 DEF IInv, TypeOK, DrawnCovers, OneAccountEach
<1> QED  BY <1>3, <1>4 DEF IInv

-----------------------------------------------------------------------------
(* What the environment does: requests arrive, states are drawn, time passes. *)

(* A request that arrives knows the keys there are and what was drawn.      *)
LEMMA ArrivePreserves ==
  ASSUME IInv, NEW r \in Requests,
         NEW q \in RequestType, Arrive(r, q), Fits(q), Remembers(q),
         q.pc # "insertKey", q.late => q.pc = "getState", q.valid = FALSE
  PROVE  IInv'
<1>1. Remembers(q)'
  BY DEF Arrive, Stored, Remembers
<1>2. /\ req' \in [Requests -> RequestType]
      /\ RequestsSound' /\ SpentStateRefused' /\ Cleared'
  BY <1>1, MoveKeepsRequests DEF Arrive, Stored
<1> QED  BY <1>2, StoredUnchanged DEF Arrive, IInv

(* A request that arrives carries what its handler needs and nothing else.  *)
LEMMA ArrivedSound ==
  ASSUME IInv, NEW r \in Requests, NEW op \in Ops, NEW step \in Steps,
         NEW w \in People \cup {Nobody}, NEW a \in Addresses \cup {Nobody},
         NEW k \in Keys \cup {Nobody}, NEW n \in Nonces \cup {Nobody},
         Arrive(r, Arrived(op, step, w, a, k, n)),
         n \in drawn \cup {Nobody},
         \/ op = "key" /\ step = "findKey" /\ a \in Addresses /\ n = Nobody
         \/ op \in {"register", "login"} /\ step = "findUser"
              /\ w \in People /\ a \in Addresses /\ n = Nobody
         \/ op = "oauth" /\ step = "getState"
              /\ w \in People /\ a \in Addresses /\ n \in Nonces
         \/ op = "logout" /\ step = "deleteKey" /\ n = Nobody
         \/ op = "delete" /\ step = "lookup" /\ n = Nobody
  PROVE  IInv'
<1> DEFINE B == {d.token : d \in apiKeys}
<1>1. B \in SUBSET Keys /\ B \subseteq drawn
  BY DEF IInv, TypeOK, Documents, DrawnCovers
<1> HIDE DEF B
<1>2. PICK l \in BOOLEAN : l <=> n \in spent
  OBVIOUS
<1>3. PICK q : q = Arrived(op, step, w, a, k, n)
  OBVIOUS
<1>4. /\ q.op = op /\ q.pc = step /\ q.who = w /\ q.at = a /\ q.uid = Nobody
      /\ q.nonce = n /\ q.valid = FALSE /\ q.before = B
      /\ q.late <=> n \in spent
  BY <1>3 DEF Arrived, B
<1>5. q \in RequestType
  BY <1>1, <1>3 DEF Arrived, B, RequestType
<1>6. Nobody \notin spent
  BY AccountsAssumption DEF IInv, TypeOK
<1>7. Fits(q) /\ Remembers(q)
  BY <1>1, <1>4 DEF Fits, Remembers, Settled, Ops
<1>8. q.pc # "insertKey" /\ (q.late => q.pc = "getState") /\ q.valid = FALSE
  BY <1>4, <1>6
<1> QED  BY <1>3, <1>5, <1>7, <1>8, ArrivePreserves

LEMMA NewRequestPreserves ==
  ASSUME IInv, NEW r \in Requests, NewRequest(r)
  PROVE  IInv'
<1>1. ASSUME NEW a \in Addresses, RequestKey(r, a)
      PROVE  IInv'
  BY <1>1, ArrivedSound DEF RequestKey, Ops, Steps
<1>2. ASSUME NEW p \in People, NEW a \in Addresses, Register(r, p, a) \/ Login(r, p, a)
      PROVE  IInv'
  BY <1>2, ArrivedSound DEF Register, Login, Ops, Steps
<1>3. ASSUME NEW p \in People, NEW a \in Addresses, NEW n \in Nonces, OAuthCallback(r, p, a, n)
      PROVE  IInv'
  BY <1>3, ArrivedSound DEF OAuthCallback, Ops, Steps
<1>4. ASSUME NEW k \in Keys, Logout(r, k) \/ DeleteAccount(r, k)
      PROVE  IInv'
  BY <1>4, ArrivedSound DEF Logout, DeleteAccount, Ops, Steps
<1> QED  BY <1>1, <1>2, <1>3, <1>4 DEF NewRequest

LEMMA OAuthStartPreserves ==
  ASSUME IInv, NEW pr \in Providers, NEW n \in Nonces, OAuthStart(pr, n)
  PROVE  IInv'
<1>1. /\ n \notin drawn /\ drawn' = drawn \cup {n}
      /\ oauthStates' = oauthStates \cup {[nonce |-> n, provider |-> pr]}
      /\ UNCHANGED <<users, apiKeys, spent, req>>
  BY DEF OAuthStart
<1>2. TypeOK' /\ OneAccountEach' /\ SpentStateRefused' /\ Cleared'
  BY <1>1 DEF IInv, TypeOK, OneAccountEach, AccountOf, SpentStateRefused, Cleared
<1>3. RequestsSound'
  BY <1>1 DEF IInv, RequestsSound, Fits, Remembers
<1>4. DrawnCovers'
  BY <1>1 DEF IInv, DrawnCovers
<1> QED  BY <1>2, <1>3, <1>4 DEF IInv

LEMMA TimePreserves ==
  ASSUME IInv, Time
  PROVE  IInv'
<1>1. /\ apiKeys' \subseteq apiKeys /\ oauthStates' \subseteq oauthStates
      /\ UNCHANGED <<users, drawn, spent, req>>
  BY DEF Time, KeyExpires, StateExpires
<1>2. /\ req' \in [Requests -> RequestType]
      /\ RequestsSound' /\ SpentStateRefused' /\ Cleared'
  BY <1>1 DEF IInv, TypeOK, RequestsSound, Fits, Remembers, SpentStateRefused, Cleared
<1> QED  BY <1>1, <1>2, FewerStored DEF IInv

LEMMA HandlerPreserves ==
  ASSUME IInv, NEW r \in Requests, Handler(r)
  PROVE  IInv'
<1>1. CASE FindKey(r) \/ RevokeAll(r) \/ DeleteKey(r) \/ Lookup(r)
  BY <1>1, FindKeyPreserves, RevokeAllPreserves, DeleteKeyPreserves, LookupPreserves
<1>2. CASE FindUser(r) \/ DeleteUser(r) \/ GetState(r) \/ DelState(r) \/ Fails(r)
  BY <1>2, FindUserPreserves, DeleteUserPreserves, GetStatePreserves, DelStatePreserves,
     FailsPreserves
<1>3. CASE \E k \in Keys : InsertKey(r, k)
  BY <1>3, InsertKeyPreserves
<1>4. CASE \E u \in Uids : InsertUser(r, u)
  BY <1>4, InsertUserPreserves
<1> QED  BY <1>1, <1>2, <1>3, <1>4 DEF Handler

-----------------------------------------------------------------------------
(* The invariant: every command of every handler, whatever the commands of  *)
(* the others before it, leaves the requests, the drawn tokens, the accounts*)
(* and the spent states in order.                                           *)
THEOREM AccountsInvariant == Spec => []IInv
<1>1. Init => IInv
  BY InitEstablishes
<1>2. IInv /\ [Next]_vars => IInv'
  <2> SUFFICES ASSUME IInv, [Next]_vars PROVE IInv'
    OBVIOUS
  <2>1. CASE Next
    BY <2>1, NewRequestPreserves, HandlerPreserves, OAuthStartPreserves, TimePreserves DEF Next
  <2>2. CASE UNCHANGED vars
    BY <2>2 DEF vars, IInv, TypeOK, RequestsSound, Fits, Remembers, DrawnCovers,
       OneAccountEach, AccountOf, SpentStateRefused, Cleared
  <2> QED  BY <2>1, <2>2
<1> QED  BY <1>1, <1>2, PTL DEF Spec

(* Every document, state and request keeps its shape: no handler stores a   *)
(* key without an address or goes on for a user that was never drawn.       *)
THEOREM AccountsTypeCorrect == Spec => []TypeOK
<1>1. IInv => TypeOK
  BY DEF IInv
<1> QED  BY <1>1, AccountsInvariant, PTL

(* A person has one account, whichever registrations and first logins       *)
(* overlap: the unique index of db/mongo.js, not the look before the insert.*)
THEOREM OneAccountAlways == Spec => []OneAccountEach
<1>1. IInv => OneAccountEach
  BY DEF IInv
<1> QED  BY <1>1, AccountsInvariant, PTL

(* A callback that arrives with a used state is refused by consumeOAuthState,*)
(* because GET and DEL leave no spent state in Redis.                       *)
THEOREM SpentStateAlwaysRefused == Spec => []SpentStateRefused
<1>1. IInv => SpentStateRefused
  BY DEF IInv
<1> QED  BY <1>1, AccountsInvariant, PTL

-----------------------------------------------------------------------------
(* What one step does to the requests and the keys.  Five commands start or *)
(* end a session or grant something; all the others are quiet.              *)
Quiet ==
  /\ apiKeys' = apiKeys \/ (apiKeys' \subseteq apiKeys /\ req' = req)
  /\ \A s \in Requests : req'[s] = req[s] \/ req'[s].pc \notin {"insertKey", "granted"}

Moves(r) == \A s \in Requests \ {r} : req'[s] = req[s]

LEMMA AnswerMoves ==
  ASSUME IInv, NEW r \in Requests, NEW how \in Settled, Answer(r, how)
  PROVE  Moves(r) /\ req'[r].pc = how
<1> DEFINE q == [Blank EXCEPT !.pc = how]
<1>1. q.pc = how
  BY DEF Blank
<1>2. req' = [req EXCEPT ![r] = q]
  BY DEF Answer
<1> HIDE DEF q
<1> QED  BY <1>1, <1>2 DEF IInv, TypeOK, Moves

LEMMA GotoMoves ==
  ASSUME IInv, NEW r \in Requests, NEW step, Goto(r, step)
  PROVE  /\ Moves(r) /\ req'[r].pc = step
         /\ req'[r].uid = req[r].uid /\ req'[r].at = req[r].at /\ req'[r].op = req[r].op
BY DEF IInv, TypeOK, RequestType, Goto, Moves

LEMMA ArrivalIsQuiet ==
  ASSUME IInv, NEW r \in Requests, NewRequest(r)
  PROVE  Quiet
<1>1. ASSUME NEW op, NEW step, NEW w, NEW a, NEW k, NEW n,
             step \notin {"insertKey", "granted"}, Arrive(r, Arrived(op, step, w, a, k, n))
      PROVE  Quiet
  <2>1. PICK q : q = Arrived(op, step, w, a, k, n)
    OBVIOUS
  <2>2. q.pc = step
    BY <2>1 DEF Arrived
  <2> QED  BY <1>1, <2>1, <2>2 DEF IInv, TypeOK, Arrive, Stored, Quiet
<1>2. ASSUME NEW a \in Addresses, RequestKey(r, a)
      PROVE  Quiet
  BY <1>1, <1>2 DEF RequestKey
<1>3. ASSUME NEW p \in People, NEW a \in Addresses, Register(r, p, a) \/ Login(r, p, a)
      PROVE  Quiet
  BY <1>1, <1>3 DEF Register, Login
<1>4. ASSUME NEW p \in People, NEW a \in Addresses, NEW n \in Nonces, OAuthCallback(r, p, a, n)
      PROVE  Quiet
  BY <1>1, <1>4 DEF OAuthCallback
<1>5. ASSUME NEW k \in Keys, Logout(r, k) \/ DeleteAccount(r, k)
      PROVE  Quiet
  BY <1>1, <1>5 DEF Logout, DeleteAccount
<1> QED  BY <1>2, <1>3, <1>4, <1>5 DEF NewRequest

LEMMA HandlerIsQuiet ==
  ASSUME IInv, NEW r \in Requests,
         Lookup(r) \/ FindUser(r) \/ DeleteUser(r) \/ GetState(r) \/ DelState(r) \/ Fails(r)
  PROVE  Quiet
<1>1. UNCHANGED apiKeys
  BY DEF Lookup, FindUser, DeleteUser, GetState, DelState, Fails, Stored
<1>2. ASSUME NEW step, step \notin {"insertKey", "granted"}, Goto(r, step)
      PROVE  Quiet
  BY <1>1, <1>2, GotoMoves DEF Moves, Quiet
<1>3. ASSUME Answer(r, "refused")
      PROVE  Quiet
  BY <1>1, <1>3, AnswerMoves DEF Moves, Quiet, Settled
<1>4. CASE Lookup(r)
  <2>1. ASSUME NEW d \in apiKeys, req' = [req EXCEPT ![r].pc = "deleteUser", ![r].uid = d.user]
        PROVE  Quiet
    BY <1>1, <2>1 DEF IInv, TypeOK, RequestType, Quiet
  <2> QED  BY <1>4, <1>3, <2>1 DEF Lookup
<1>5. CASE FindUser(r)
  <2>1. ASSUME NEW d \in users, Identified(r, d, "revokeAll")
        PROVE  Quiet
    BY <1>1, <2>1 DEF Identified, IInv, TypeOK, RequestType, Quiet
  <2>2. CASE Goto(r, "insertUser")
    BY <1>2, <2>2
  <2> QED  BY <1>5, <1>3, <2>1, <2>2 DEF FindUser, LoginFinds, RegisterFinds, OAuthFinds, AccountOf
<1>6. CASE DeleteUser(r) \/ DelState(r) \/ Fails(r)
  <2>1. CASE Goto(r, "revokeAll") \/ Goto(r, "findUser")
    BY <1>2, <2>1
  <2> QED  BY <1>6, <1>3, <2>1 DEF DeleteUser, DelState, Fails
<1>7. CASE GetState(r)
  BY <1>1, <1>7 DEF GetState, IInv, TypeOK, RequestType, Quiet
<1> QED  BY <1>4, <1>5, <1>6, <1>7

LEMMA LoudSteps ==
  ASSUME IInv, [Next]_vars
  PROVE  \/ Quiet
         \/ \E r \in Requests :
              \/ FindKey(r) \/ RevokeAll(r) \/ DeleteKey(r)
              \/ \E k \in Keys : InsertKey(r, k)
              \/ \E u \in Uids : InsertUser(r, u)
<1>1. CASE UNCHANGED vars
  BY <1>1 DEF vars, Quiet
<1>2. CASE \E pr \in Providers, n \in Nonces : OAuthStart(pr, n)
  BY <1>2 DEF OAuthStart, Quiet
<1>3. CASE Time
  BY <1>3 DEF Time, KeyExpires, StateExpires, Quiet
<1>4. ASSUME NEW r \in Requests, NewRequest(r) PROVE Quiet
  BY <1>4, ArrivalIsQuiet
<1>5. ASSUME NEW r \in Requests, Handler(r)
      PROVE  \/ Quiet \/ FindKey(r) \/ RevokeAll(r) \/ DeleteKey(r)
             \/ \E k \in Keys : InsertKey(r, k)
             \/ \E u \in Uids : InsertUser(r, u)
  BY <1>5, HandlerIsQuiet DEF Handler
<1> QED  BY <1>1, <1>2, <1>3, <1>4, <1>5 DEF Next

-----------------------------------------------------------------------------
(* The action property needs the invariant of the state it starts in.       *)
LEMMA OlderSessionsStep ==
  ASSUME IInv, [Next]_vars, NEW r \in Requests,
         req[r].op \in {"login", "oauth", "delete"}, req'[r].pc = "granted",
         NEW d \in apiKeys', d.user = req[r].uid
  PROVE  d.token \notin req[r].before
<1>1. req[r].op # "none" /\ req[r].pc # "granted" /\ req'[r] # req[r]
  BY DEF IInv, RequestsSound, Fits, Settled
<1>2. ASSUME NEW s \in Requests, Moves(s) PROVE s = r
  BY <1>1, <1>2 DEF Moves
<1>3. ~Quiet
  BY <1>1 DEF Quiet
<1>4. ASSUME NEW s \in Requests, FindKey(s) PROVE FALSE
  <2>1. req[s].op = "key"
    BY <1>4 DEF FindKey, IInv, RequestsSound, Fits
  <2>2. Moves(s)
    BY <1>4, GotoMoves, AnswerMoves DEF FindKey, Settled
  <2> QED  BY <1>2, <2>1, <2>2
<1>5. ASSUME NEW s \in Requests, RevokeAll(s) PROVE d.token \notin req[r].before
  <2>1. Moves(s)
    BY <1>5, GotoMoves, AnswerMoves DEF RevokeAll, AfterRevocation, Settled
  <2> QED  BY <1>2, <1>5, <2>1 DEF RevokeAll, KeysOf
<1>6. ASSUME NEW s \in Requests, DeleteKey(s) PROVE FALSE
  <2>1. req[s].op = "logout"
    BY <1>6 DEF DeleteKey, IInv, RequestsSound, Fits
  <2>2. Moves(s)
    BY <1>6, AnswerMoves DEF DeleteKey, Settled
  <2> QED  BY <1>2, <2>1, <2>2
<1>7. ASSUME NEW s \in Requests, NEW k \in Keys, InsertKey(s, k)
      PROVE  d.token \notin req[r].before
  <2>1. Moves(s)
    BY <1>7, AnswerMoves DEF InsertKey, Settled
  <2>2. s = r /\ req[r].pc = "insertKey" /\ k \notin drawn /\ req[r].before \subseteq drawn
    BY <1>2, <1>7, <2>1 DEF InsertKey, IInv, RequestsSound, Remembers
  <2>3. CASE d \in apiKeys
    BY <2>2, <2>3 DEF IInv, Cleared, RequestsSound, Fits
  <2>4. CASE d.token = k
    BY <2>2, <2>4
  <2> QED  BY <1>7, <2>3, <2>4 DEF InsertKey
<1>8. ASSUME NEW s \in Requests, NEW u \in Uids, InsertUser(s, u) PROVE FALSE
  <2>1. Moves(s) /\ req'[s].pc # "granted"
    <3>1. CASE Answer(s, "refused")
      BY <3>1, AnswerMoves DEF Settled
    <3>2. CASE NewUser(s, u)
      BY <3>2 DEF NewUser, Moves, IInv, TypeOK, RequestType
    <3> QED  BY <1>8, <3>1, <3>2 DEF InsertUser
  <2> QED  BY <1>2, <2>1
<1> QED  BY <1>3, <1>4, <1>5, <1>6, <1>7, <1>8, LoudSteps

(* A login or deletion that is answered has ended every session of the user *)
(* that was alive when it arrived, whatever overlapped with it: the property*)
(* server.js relies on when it revokes before it inserts.                   *)
THEOREM OlderSessionsAlwaysEnd == Spec => OlderSessionsEnd
<1>1. IInv /\ [Next]_vars =>
        [\A r \in Requests :
           req[r].op \in {"login", "oauth", "delete"} /\ req'[r].pc = "granted" =>
             \A d \in apiKeys' : d.user = req[r].uid => d.token \notin req[r].before]_vars
  BY OlderSessionsStep
<1> QED  BY <1>1, AccountsInvariant, PTL DEF Spec, OlderSessionsEnd

LEMMA EndedStep ==
  ASSUME IInv, [Next]_vars, NEW d \in apiKeys \ apiKeys', req' # req
  PROVE  \E r \in Requests :
           /\ req'[r] # req[r]
           /\ \/ req[r].op = "logout" /\ req[r].token = d.token
              \/ req[r].op \in {"login", "oauth", "delete"} /\ d.user # Nobody
                 /\ req[r].uid = d.user
<1>1. ~Quiet
  BY DEF Quiet
<1>2. ASSUME NEW r \in Requests, RevokeAll(r)
      PROVE  /\ req'[r] # req[r] /\ req[r].op \in {"login", "oauth", "delete"}
             /\ d.user # Nobody /\ req[r].uid = d.user
  <2>1. /\ req[r].pc = "revokeAll" /\ req[r].uid \in Uids
        /\ req[r].op \in {"login", "oauth", "delete"} /\ req[r].uid = d.user
    BY <1>2 DEF RevokeAll, KeysOf, IInv, RequestsSound, Fits
  <2>2. req'[r].pc # "revokeAll"
    BY <1>2, GotoMoves, AnswerMoves DEF RevokeAll, AfterRevocation, Settled
  <2> QED  BY <2>1, <2>2, AccountsAssumption
<1>3. ASSUME NEW r \in Requests, DeleteKey(r)
      PROVE  req'[r] # req[r] /\ req[r].op = "logout" /\ req[r].token = d.token
  <2>1. req[r].pc = "deleteKey" /\ req[r].op = "logout" /\ req[r].token = d.token
    BY <1>3 DEF DeleteKey, IInv, RequestsSound, Fits
  <2>2. req'[r].pc = "granted"
    BY <1>3, AnswerMoves DEF DeleteKey, Settled
  <2> QED  BY <2>1, <2>2
<1>4. ASSUME NEW r \in Requests,
             FindKey(r) \/ (\E k \in Keys : InsertKey(r, k)) \/ (\E u \in Uids : InsertUser(r, u))
      PROVE  FALSE
  BY <1>4 DEF FindKey, InsertKey, InsertUser, Stored
<1> QED  BY <1>1, <1>2, <1>3, <1>4, LoudSteps

(* No request ends a stranger's key or an anonymous one.                    *)
THEOREM AlwaysEndedByRight == Spec => EndedByRight
<1>1. IInv /\ [Next]_vars =>
        [\A d \in apiKeys \ apiKeys' :
           \/ req' = req
           \/ \E r \in Requests :
                /\ req'[r] # req[r]
                /\ \/ req[r].op = "logout" /\ req[r].token = d.token
                   \/ req[r].op \in {"login", "oauth", "delete"} /\ d.user # Nobody
                      /\ req[r].uid = d.user]_vars
  BY EndedStep
<1> QED  BY <1>1, AccountsInvariant, PTL DEF Spec, EndedByRight

-----------------------------------------------------------------------------
(* Keys and the requests about to insert one: a bound on the two together   *)
(* survives a step that adds to neither, one that starts from no key at     *)
(* all, and one that turns a request into a key.                            *)
LEMMA StillBounded ==
  ASSUME NEW K, NEW I, NEW K2, NEW I2, IsFiniteSet(K), I \subseteq Requests, I2 \subseteq Requests,
         Cardinality(K) + Cardinality(I) <= Cardinality(Requests),
         \/ K2 \subseteq K /\ I2 \subseteq I
         \/ K2 = {}
         \/ \E d, r : r \in I /\ K2 \subseteq K \cup {d} /\ I2 \subseteq I \ {r}
  PROVE  Cardinality(K2) + Cardinality(I2) <= Cardinality(Requests)
<1>1. /\ IsFiniteSet(Requests) /\ IsFiniteSet(I) /\ IsFiniteSet(I2)
      /\ Cardinality(I2) <= Cardinality(Requests)
  BY AccountsAssumption, FS_Subset
<1>2. /\ Cardinality(K) \in Nat /\ Cardinality(I) \in Nat /\ Cardinality(I2) \in Nat
      /\ Cardinality(Requests) \in Nat
  BY <1>1, FS_CardinalityType
<1>3. CASE K2 \subseteq K /\ I2 \subseteq I
  <2>1. Cardinality(K2) <= Cardinality(K) /\ IsFiniteSet(K2)
    BY <1>3, FS_Subset
  <2>2. Cardinality(I2) <= Cardinality(I)
    BY <1>1, <1>3, FS_Subset
  <2>3. Cardinality(K2) \in Nat
    BY <2>1, FS_CardinalityType
  <2> QED  BY <1>2, <2>1, <2>2, <2>3
<1>4. CASE K2 = {}
  BY <1>1, <1>2, <1>4, FS_EmptySet
<1>5. ASSUME NEW d, NEW r, r \in I, K2 \subseteq K \cup {d}, I2 \subseteq I \ {r}
      PROVE  Cardinality(K2) + Cardinality(I2) <= Cardinality(Requests)
  <2>1. IsFiniteSet(K \cup {d}) /\ Cardinality(K \cup {d}) <= Cardinality(K) + 1
    <3>1. /\ IsFiniteSet(K \cup {d})
          /\ Cardinality(K \cup {d}) = IF d \in K THEN Cardinality(K) ELSE Cardinality(K) + 1
      BY FS_AddElement, Zenon
    <3> QED  BY <1>2, <3>1
  <2>2. IsFiniteSet(I \ {r}) /\ Cardinality(I \ {r}) = Cardinality(I) - 1
    BY <1>1, <1>5, FS_RemoveElement
  <2>3. IsFiniteSet(K2) /\ Cardinality(K2) <= Cardinality(K \cup {d})
    BY <1>5, <2>1, FS_Subset
  <2>4. Cardinality(I2) <= Cardinality(I \ {r})
    BY <1>5, <2>2, FS_Subset
  <2>5. Cardinality(K2) \in Nat /\ Cardinality(K \cup {d}) \in Nat
    BY <2>1, <2>3, FS_CardinalityType
  <2> QED  BY <1>2, <2>1, <2>2, <2>3, <2>4, <2>5
<1> QED  BY <1>3, <1>4, <1>5

FiniteKeys == IsFiniteSet(apiKeys)

LEMMA FinitelyManyKeys ==
  ASSUME IInv, FiniteKeys, [Next]_vars
  PROVE  FiniteKeys'
<1>1. ASSUME apiKeys' \subseteq apiKeys PROVE FiniteKeys'
  BY <1>1, FS_Subset DEF FiniteKeys
<1>2. CASE Quiet
  BY <1>1, <1>2 DEF Quiet
<1>3. ASSUME NEW r \in Requests,
             FindKey(r) \/ RevokeAll(r) \/ DeleteKey(r) \/ (\E u \in Uids : InsertUser(r, u))
      PROVE  FiniteKeys'
  <2>1. apiKeys' \subseteq apiKeys
    BY <1>3 DEF FindKey, RevokeAll, DeleteKey, InsertUser, Stored
  <2> QED  BY <1>1, <2>1
<1>4. ASSUME NEW r \in Requests, NEW k \in Keys, InsertKey(r, k) PROVE FiniteKeys'
  BY <1>4, FS_AddElement DEF InsertKey, FiniteKeys
<1> QED  BY <1>2, <1>3, <1>4, LoudSteps

(* The keys of a group (one user's, or one address's anonymous ones) and    *)
(* the requests about to add to it.                                         *)
BoundedStep(K, I, K2, I2) ==
  \/ K2 \subseteq K /\ I2 \subseteq I
  \/ K2 = {}
  \/ \E d, r : r \in I /\ K2 \subseteq K \cup {d} /\ I2 \subseteq I \ {r}

(* A user's keys: a request comes to insert one only after it has revoked   *)
(* them all, or when the user is new and has none.                          *)
LEMMA SessionsStep ==
  ASSUME IInv, [Next]_vars, NEW u \in Uids
  PROVE  BoundedStep(KeysOf(u), Issuing(u), KeysOf(u)', Issuing(u)')
<1>1. CASE Quiet
  BY <1>1 DEF Quiet, KeysOf, Issuing, BoundedStep
<1>2. ASSUME NEW r \in Requests, FindKey(r)
      PROVE  KeysOf(u)' \subseteq KeysOf(u) /\ Issuing(u)' \subseteq Issuing(u)
  <2>1. apiKeys' = apiKeys /\ req[r].uid # u
    BY <1>2, AccountsAssumption DEF FindKey, Stored, IInv, RequestsSound, Fits
  <2>2. Moves(r) /\ (req'[r].pc # "insertKey" \/ req'[r].uid # u)
    BY <1>2, <2>1, GotoMoves, AnswerMoves DEF FindKey, Settled
  <2> QED  BY <2>1, <2>2 DEF KeysOf, Issuing, Moves
<1>3. ASSUME NEW r \in Requests, RevokeAll(r)
      PROVE  BoundedStep(KeysOf(u), Issuing(u), KeysOf(u)', Issuing(u)')
  <2>1. CASE req[r].uid = u
    BY <1>3, <2>1 DEF RevokeAll, KeysOf, BoundedStep
  <2>2. CASE req[r].uid # u
    <3>1. Moves(r) /\ (req'[r].pc # "insertKey" \/ req'[r].uid # u)
      BY <1>3, <2>2, GotoMoves, AnswerMoves DEF RevokeAll, AfterRevocation, Settled
    <3> QED  BY <1>3, <3>1 DEF RevokeAll, KeysOf, Issuing, Moves, BoundedStep
  <2> QED  BY <2>1, <2>2
<1>4. ASSUME NEW r \in Requests, DeleteKey(r)
      PROVE  KeysOf(u)' \subseteq KeysOf(u) /\ Issuing(u)' \subseteq Issuing(u)
  <2>1. Moves(r) /\ req'[r].pc = "granted" /\ apiKeys' \subseteq apiKeys
    BY <1>4, AnswerMoves DEF DeleteKey, Settled
  <2> QED  BY <2>1 DEF KeysOf, Issuing, Moves
<1>5. ASSUME NEW r \in Requests, NEW k \in Keys, InsertKey(r, k)
      PROVE  BoundedStep(KeysOf(u), Issuing(u), KeysOf(u)', Issuing(u)')
  <2>1. Moves(r) /\ req'[r].pc \in {"granted", "refused"}
    BY <1>5, AnswerMoves DEF InsertKey, Settled
  <2>2. PICK d : d.user = req[r].uid /\ apiKeys' = apiKeys \cup {d}
    BY <1>5 DEF InsertKey
  <2>3. CASE req[r].uid = u
    <3>1. r \in Issuing(u)
      BY <1>5, <2>3 DEF InsertKey, Issuing
    <3>2. KeysOf(u)' \subseteq KeysOf(u) \cup {d} /\ Issuing(u)' \subseteq Issuing(u) \ {r}
      BY <2>1, <2>2 DEF KeysOf, Issuing, Moves
    <3> QED  BY <3>1, <3>2 DEF BoundedStep
  <2>4. CASE req[r].uid # u
    BY <2>1, <2>2, <2>4 DEF KeysOf, Issuing, Moves, BoundedStep
  <2> QED  BY <2>3, <2>4
<1>6. ASSUME NEW r \in Requests, NEW v \in Uids, InsertUser(r, v)
      PROVE  BoundedStep(KeysOf(u), Issuing(u), KeysOf(u)', Issuing(u)')
  <2>1. apiKeys' = apiKeys
    BY <1>6 DEF InsertUser
  <2>2. CASE Answer(r, "refused")
    BY <2>1, <2>2, AnswerMoves DEF KeysOf, Issuing, Moves, BoundedStep, Settled
  <2>3. CASE NewUser(r, v)
    <3>1. Moves(r) /\ req'[r].uid = v /\ v \notin drawn
      BY <2>3 DEF NewUser, Moves, IInv, TypeOK, RequestType
    <3>2. CASE u = v
      BY <2>1, <3>1, <3>2, AccountsAssumption DEF KeysOf, IInv, DrawnCovers, BoundedStep
    <3>3. CASE u # v
      BY <2>1, <3>1, <3>3 DEF KeysOf, Issuing, Moves, BoundedStep
    <3> QED  BY <3>2, <3>3
  <2> QED  BY <1>6, <2>2, <2>3 DEF InsertUser
<1> QED  BY <1>1, <1>2, <1>3, <1>4, <1>5, <1>6, LoudSteps DEF BoundedStep

(* An address's anonymous keys: a request comes to insert one only when     *)
(* FindKey saw none, and no revocation concerns them.                       *)
LEMMA FarmingStep ==
  ASSUME IInv, [Next]_vars, NEW a \in Addresses
  PROVE  BoundedStep(AnonymousAt(a), IssuingAt(a), AnonymousAt(a)', IssuingAt(a)')
<1>1. CASE Quiet
  BY <1>1 DEF Quiet, AnonymousAt, IssuingAt, BoundedStep
<1>2. ASSUME NEW r \in Requests, FindKey(r)
      PROVE  BoundedStep(AnonymousAt(a), IssuingAt(a), AnonymousAt(a)', IssuingAt(a)')
  <2>1. apiKeys' = apiKeys
    BY <1>2 DEF FindKey, Stored
  <2>2. CASE req[r].at = a /\ Goto(r, "insertKey")
    <3>1. AnonymousAt(a) = {}
      BY <1>2, <2>2, AnswerMoves, GotoMoves DEF FindKey, Settled
    <3> QED  BY <2>1, <3>1 DEF AnonymousAt, BoundedStep
  <2>3. CASE req[r].at # a /\ Goto(r, "insertKey")
    <3>1. Moves(r) /\ req'[r].at # a
      BY <2>3, GotoMoves
    <3> QED  BY <2>1, <3>1 DEF AnonymousAt, IssuingAt, Moves, BoundedStep
  <2>4. CASE Answer(r, "refused")
    <3>1. Moves(r) /\ req'[r].pc = "refused"
      BY <2>4, AnswerMoves DEF Settled
    <3> QED  BY <2>1, <3>1 DEF AnonymousAt, IssuingAt, Moves, BoundedStep
  <2> QED  BY <1>2, <2>2, <2>3, <2>4 DEF FindKey
<1>3. ASSUME NEW r \in Requests, RevokeAll(r)
      PROVE  AnonymousAt(a)' \subseteq AnonymousAt(a) /\ IssuingAt(a)' \subseteq IssuingAt(a)
  <2>1. req[r].uid # Nobody /\ apiKeys' \subseteq apiKeys
    BY <1>3, AccountsAssumption DEF RevokeAll, IInv, RequestsSound, Fits
  <2>2. Moves(r) /\ (req'[r].pc # "insertKey" \/ req'[r].uid # Nobody)
    BY <1>3, <2>1, GotoMoves, AnswerMoves DEF RevokeAll, AfterRevocation, Settled
  <2> QED  BY <2>1, <2>2 DEF AnonymousAt, IssuingAt, Moves
<1>4. ASSUME NEW r \in Requests, DeleteKey(r)
      PROVE  AnonymousAt(a)' \subseteq AnonymousAt(a) /\ IssuingAt(a)' \subseteq IssuingAt(a)
  <2>1. Moves(r) /\ req'[r].pc = "granted" /\ apiKeys' \subseteq apiKeys
    BY <1>4, AnswerMoves DEF DeleteKey, Settled
  <2> QED  BY <2>1 DEF AnonymousAt, IssuingAt, Moves
<1>5. ASSUME NEW r \in Requests, NEW k \in Keys, InsertKey(r, k)
      PROVE  BoundedStep(AnonymousAt(a), IssuingAt(a), AnonymousAt(a)', IssuingAt(a)')
  <2>1. Moves(r) /\ req'[r].pc \in {"granted", "refused"}
    BY <1>5, AnswerMoves DEF InsertKey, Settled
  <2>2. PICK d : d.user = req[r].uid /\ d.ip = req[r].at /\ apiKeys' = apiKeys \cup {d}
    BY <1>5 DEF InsertKey
  <2>3. CASE req[r].uid = Nobody /\ req[r].at = a
    <3>1. r \in IssuingAt(a)
      BY <1>5, <2>3 DEF InsertKey, IssuingAt
    <3>2. /\ AnonymousAt(a)' \subseteq AnonymousAt(a) \cup {d}
          /\ IssuingAt(a)' \subseteq IssuingAt(a) \ {r}
      BY <2>1, <2>2 DEF AnonymousAt, IssuingAt, Moves
    <3> QED  BY <3>1, <3>2 DEF BoundedStep
  <2>4. CASE ~(req[r].uid = Nobody /\ req[r].at = a)
    BY <2>1, <2>2, <2>4 DEF AnonymousAt, IssuingAt, Moves, BoundedStep
  <2> QED  BY <2>3, <2>4
<1>6. ASSUME NEW r \in Requests, NEW v \in Uids, InsertUser(r, v)
      PROVE  AnonymousAt(a)' \subseteq AnonymousAt(a) /\ IssuingAt(a)' \subseteq IssuingAt(a)
  <2>1. apiKeys' = apiKeys
    BY <1>6 DEF InsertUser
  <2>2. CASE Answer(r, "refused")
    BY <2>1, <2>2, AnswerMoves DEF AnonymousAt, IssuingAt, Moves, Settled
  <2>3. CASE NewUser(r, v)
    <3>1. Moves(r) /\ req'[r].uid = v /\ v # Nobody
      BY <2>3, AccountsAssumption DEF NewUser, Moves, IInv, TypeOK, RequestType
    <3> QED  BY <2>1, <3>1 DEF AnonymousAt, IssuingAt, Moves
  <2> QED  BY <1>6, <2>2, <2>3 DEF InsertUser
<1> QED  BY <1>1, <1>2, <1>3, <1>4, <1>5, <1>6, LoudSteps DEF BoundedStep

BoundInv == FiniteKeys /\ SessionBound /\ FarmingBound

LEMMA BoundsStart == Init => BoundInv
<1>1. ASSUME NEW I \in SUBSET Requests PROVE Cardinality({}) + Cardinality(I) <= Cardinality(Requests)
  <2>1. /\ Cardinality(I) <= Cardinality(Requests) /\ IsFiniteSet(I) /\ IsFiniteSet(Requests)
    BY AccountsAssumption, FS_Subset
  <2>2. Cardinality(I) \in Nat /\ Cardinality(Requests) \in Nat
    BY <2>1, FS_CardinalityType
  <2> QED  BY <2>1, <2>2, FS_EmptySet
<1>2. ASSUME Init PROVE FiniteKeys
  BY <1>2, FS_EmptySet DEF Init, FiniteKeys
<1>3. ASSUME Init, NEW u \in Uids
      PROVE  Cardinality(KeysOf(u)) + Cardinality(Issuing(u)) <= Cardinality(Requests)
  <2>1. KeysOf(u) = {} /\ Issuing(u) \in SUBSET Requests
    BY <1>3 DEF Init, KeysOf, Issuing
  <2> QED  BY <1>1, <2>1
<1>4. ASSUME Init, NEW a \in Addresses
      PROVE  Cardinality(AnonymousAt(a)) + Cardinality(IssuingAt(a)) <= Cardinality(Requests)
  <2>1. AnonymousAt(a) = {} /\ IssuingAt(a) \in SUBSET Requests
    BY <1>4 DEF Init, AnonymousAt, IssuingAt
  <2> QED  BY <1>1, <2>1
<1> QED  BY <1>2, <1>3, <1>4 DEF BoundInv, SessionBound, FarmingBound

LEMMA BoundsKept ==
  ASSUME IInv, BoundInv, [Next]_vars
  PROVE  BoundInv'
<1>1. FiniteKeys'
  BY FinitelyManyKeys DEF BoundInv
<1>2. ASSUME NEW u \in Uids
      PROVE  Cardinality(KeysOf(u)') + Cardinality(Issuing(u)') <= Cardinality(Requests)
  <2>1. IsFiniteSet(KeysOf(u))
    BY FS_Subset DEF BoundInv, FiniteKeys, KeysOf
  <2>2. Issuing(u) \subseteq Requests /\ Issuing(u)' \subseteq Requests
    BY DEF Issuing
  <2>3. Cardinality(KeysOf(u)) + Cardinality(Issuing(u)) <= Cardinality(Requests)
    BY DEF BoundInv, SessionBound
  <2>4. BoundedStep(KeysOf(u), Issuing(u), KeysOf(u)', Issuing(u)')
    BY SessionsStep
  <2> QED  BY <2>1, <2>2, <2>3, <2>4, StillBounded DEF BoundedStep
<1>3. ASSUME NEW a \in Addresses
      PROVE  Cardinality(AnonymousAt(a)') + Cardinality(IssuingAt(a)') <= Cardinality(Requests)
  <2>1. IsFiniteSet(AnonymousAt(a))
    BY FS_Subset DEF BoundInv, FiniteKeys, AnonymousAt
  <2>2. IssuingAt(a) \subseteq Requests /\ IssuingAt(a)' \subseteq Requests
    BY DEF IssuingAt
  <2>3. Cardinality(AnonymousAt(a)) + Cardinality(IssuingAt(a)) <= Cardinality(Requests)
    BY DEF BoundInv, FarmingBound
  <2>4. BoundedStep(AnonymousAt(a), IssuingAt(a), AnonymousAt(a)', IssuingAt(a)')
    BY FarmingStep
  <2> QED  BY <2>1, <2>2, <2>3, <2>4, StillBounded DEF BoundedStep
<1> QED  BY <1>1, <1>2, <1>3 DEF BoundInv, SessionBound, FarmingBound

LEMMA BoundsInvariant == Spec => []BoundInv
<1>1. IInv /\ BoundInv /\ [Next]_vars => BoundInv'
  BY BoundsKept
<1> QED  BY <1>1, BoundsStart, AccountsInvariant, PTL DEF Spec

(* However many logins follow each other and whichever of them fail, a user *)
(* never has more live keys than requests can be in flight: every one of    *)
(* them revokes all the user's keys before it comes to insert its own.      *)
THEOREM SessionsBounded == Spec => []SessionBound
<1>1. BoundInv => SessionBound
  BY DEF BoundInv
<1> QED  BY <1>1, BoundsInvariant, PTL

(* The same of the anonymous keys of one address: a request comes to insert *)
(* one only when it has seen none.                                          *)
THEOREM FarmingBounded == Spec => []FarmingBound
<1>1. BoundInv => FarmingBound
  BY DEF BoundInv
<1> QED  BY <1>1, BoundsInvariant, PTL
=============================================================================
