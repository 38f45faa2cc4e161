------------------------- MODULE PlatformAuthProofs -------------------------
(***************************************************************************)
(* Whoever was told that a registration succeeded can log in, no two       *)
(* accounts share an address, no answer goes without its audit_logs row,   *)
(* and nothing is lost in silence, for any number of requests, clients,    *)
(* spellings, failing writes, crashes and restarts.                        *)
(***************************************************************************)
EXTENDS PlatformAuth, TLAPS

\* The state that AccountsInv is about.
accounts == <<users, pc, rq, found, resp, known>>

\* An arriving request that is answered at once, with a status that isn't 201
\* and, if it is a login, isn't a wrong 401, keeps the invariant.
LEMMA AnsweredAtOnce ==
    ASSUME AccountsInv, NEW r \in Requests, NEW q \in Request, NEW status \in Int,
           Arrive(r, q), Answer(r, status), status # 201,
           q.op = "login" /\ status = 401 => WithEmail(q.email) = {},
           q.op = "login" => q \in Credentials,
           UNCHANGED <<users, found>>
    PROVE  AccountsInv'
<1>1. RequestShape'
  BY DEF AccountsInv, RequestShape, Arrive, Answer
<1>2. OneAccountPerEmail'
  BY DEF AccountsInv, OneAccountPerEmail
<1>3. resp[r] = 0 /\ known[r] = {}
  BY DEF AccountsInv, AtAnswer, Arrive
<1>4. ASSUME NEW s \in Requests, s # r
      PROVE  /\ pc'[s] = pc[s] /\ rq'[s] = rq[s] /\ found'[s] = found[s]
             /\ resp'[s] = resp[s] /\ known'[s] = known[s]
  BY <1>4 DEF AccountsInv, RequestShape, Arrive, Answer
<1>5. /\ pc'[r] = "done" /\ rq'[r] = q /\ resp'[r] = status
      /\ known'[r] = {s \in Requests : resp[s] = 201}
  BY DEF AccountsInv, RequestShape, Arrive, Answer
<1>6. ASSUME NEW s \in Requests
      PROVE  (AtRegister(s) /\ AtLogin(s) /\ AtAudit(s))'
  BY <1>4, <1>5 DEF AccountsInv, AtRegister, AtLogin, AtAudit, NewUser
<1>7. ASSUME NEW s \in Requests
      PROVE  AtAnswer(s)'
  <2>1. CASE s = r
    BY <2>1, <1>3, <1>4, <1>5 DEF AtAnswer
  <2>2. CASE s # r
    <3>1. \A t \in known[s] : t # r /\ t \in Requests /\ resp'[t] = 201
      BY <2>2, <1>3, <1>4 DEF AccountsInv, AtAnswer, RequestShape
    <3>2. QED
      BY <2>2, <3>1, <1>4 DEF AccountsInv, AtAnswer, NewUser
  <2>3. QED BY <2>1, <2>2
<1>8. LoginKnowsAccounts'
  <2>1. SUFFICES ASSUME NEW s \in Requests, NEW t \in Requests, t \in known'[s],
                        rq'[s].op = "login",
                        Normalized[rq'[s].email] = Normalized[rq'[t].email],
                        rq'[s].password = rq'[t].password
                 PROVE  resp'[s] # 401
    BY DEF LoginKnowsAccounts
  <2>2. t # r
    BY <2>1, <1>3, <1>4, <1>5 DEF AccountsInv, AtAnswer
  <2>3. CASE s = r
    <3>1. NewUser(t) \in users /\ NewUser(t).email = Normalized[rq[t].email]
      BY <2>1, <2>3, <1>5 DEF AccountsInv, AtAnswer, NewUser
    <3>2. Normalized[q.email] = Normalized[rq[t].email]
      BY <2>1, <2>2, <2>3, <1>4, <1>5
    <3>3. WithEmail(q.email) # {}
      BY <3>1, <3>2 DEF WithEmail
    <3>4. QED BY <2>1, <2>3, <3>3, <1>5
  <2>4. CASE s # r
    BY <2>1, <2>2, <2>4, <1>4 DEF AccountsInv, LoginKnowsAccounts
  <2>5. QED BY <2>3, <2>4
<1>9. QED
  BY <1>1, <1>2, <1>6, <1>7, <1>8 DEF AccountsInv

\* A request that arrives and is handled further, at l, keeps the invariant.
LEMMA ArrivesAt ==
    ASSUME AccountsInv, NEW r \in Requests, NEW q \in Request,
           NEW l \in {"hash", "compare", "audit"}, NEW f \in [Requests -> User \cup {None}],
           Arrive(r, q), pc' = [pc EXCEPT ![r] = l], UNCHANGED <<users, resp>>,
           found' = f, \A s \in Requests \ {r} : f[s] = found[s],
           l = "hash" => q \in Credentials /\ q.op = "register",
           l = "compare" => /\ q \in Credentials /\ q.op = "login"
                            /\ f[r] \in users /\ f[r].email = Normalized[q.email],
           l = "audit" => q.op = "logout"
    PROVE  AccountsInv'
<1>1. RequestShape'
  BY DEF AccountsInv, RequestShape, Arrive
<1>2. OneAccountPerEmail'
  BY DEF AccountsInv, OneAccountPerEmail
<1>3. resp[r] = 0 /\ known[r] = {}
  BY DEF AccountsInv, AtAnswer, Arrive
<1>4. ASSUME NEW s \in Requests, s # r
      PROVE  /\ pc'[s] = pc[s] /\ rq'[s] = rq[s] /\ found'[s] = found[s]
             /\ known'[s] = known[s]
  BY <1>4 DEF AccountsInv, RequestShape, Arrive
<1>5. /\ pc'[r] = l /\ rq'[r] = q /\ known'[r] = {s \in Requests : resp[s] = 201}
  BY DEF AccountsInv, RequestShape, Arrive
<1>6. ASSUME NEW s \in Requests
      PROVE  (AtRegister(s) /\ AtLogin(s) /\ AtAudit(s))'
  BY <1>4, <1>5 DEF AccountsInv, AtRegister, AtLogin, AtAudit, NewUser
<1>7. ASSUME NEW s \in Requests
      PROVE  AtAnswer(s)'
  BY <1>3, <1>4, <1>5 DEF AccountsInv, AtAnswer, NewUser
<1>8. LoginKnowsAccounts'
  <2>1. SUFFICES ASSUME NEW s \in Requests, NEW t \in Requests, t \in known'[s],
                        rq'[s].op = "login",
                        Normalized[rq'[s].email] = Normalized[rq'[t].email],
                        rq'[s].password = rq'[t].password
                 PROVE  resp'[s] # 401
    BY DEF LoginKnowsAccounts
  <2>2. CASE s = r
    BY <2>2, <1>3
  <2>3. CASE s # r
    <3>1. t # r
      BY <2>1, <2>3, <1>3, <1>4 DEF AccountsInv, AtAnswer
    <3>2. QED
      BY <2>1, <2>3, <3>1, <1>4 DEF AccountsInv, LoginKnowsAccounts
  <2>4. QED BY <2>2, <2>3
<1>9. QED
  BY <1>1, <1>2, <1>6, <1>7, <1>8 DEF AccountsInv

\* A request that is further along in its handler keeps the invariant.
LEMMA GoesOnAt ==
    ASSUME AccountsInv, NEW r \in Requests, NEW l \in {"audit", "respond"},
           pc[r] \in {"hash", "compare", "audit"},
           pc' = [pc EXCEPT ![r] = l], UNCHANGED <<rq, found, resp, known>>,
           \/ UNCHANGED users /\ pc[r] # "hash"
           \/ users' = users \cup {NewUser(r)} /\ pc[r] = "hash" /\ ~EmailTaken(r),
           Normalized \in [RawEmails -> Emails]
    PROVE  AccountsInv'
<1>1. NewUser(r) \in User \/ pc[r] # "hash"
  BY DEF AccountsInv, AtRegister, NewUser, User, Credentials
<1>2. RequestShape'
  BY <1>1 DEF AccountsInv, RequestShape
<1>3. OneAccountPerEmail'
  BY DEF AccountsInv, OneAccountPerEmail, EmailTaken, NewUser
<1>4. users \subseteq users'
  OBVIOUS
<1>5. /\ pc'[r] = l
      /\ \A s \in Requests : s # r => pc'[s] = pc[s]
  BY DEF AccountsInv, RequestShape
<1>6. ASSUME NEW s \in Requests
      PROVE  (AtRegister(s) /\ AtLogin(s) /\ AtAudit(s) /\ AtAnswer(s))'
  <2>1. /\ AtRegister(s) /\ AtLogin(s) /\ AtAudit(s) /\ AtAnswer(s)
        /\ NewUser(s)' = NewUser(s)
    BY DEF AccountsInv, NewUser
  <2>2. CASE s # r
    BY <2>1, <2>2, <1>4, <1>5 DEF AtRegister, AtLogin, AtAudit, AtAnswer
  <2>3. CASE s = r
    BY <2>1, <2>3, <1>4, <1>5 DEF AtRegister, AtLogin, AtAudit, AtAnswer
  <2>4. QED BY <2>2, <2>3
<1>7. LoginKnowsAccounts'
  BY DEF AccountsInv, LoginKnowsAccounts
<1>8. QED
  BY <1>2, <1>3, <1>6, <1>7 DEF AccountsInv

\* A request that is answered at the end of its handler keeps the invariant.
LEMMA AnsweredAtEnd ==
    ASSUME AccountsInv, NEW r \in Requests, NEW status \in Int,
           pc[r] \in {"hash", "audit", "respond"}, Answer(r, status),
           UNCHANGED <<users, rq, found, known>>,
           status = 201 => pc[r] = "respond" /\ rq[r].op = "register",
           status = 401 => pc[r] = "respond"
                           /\ (rq[r].op = "login" => found[r].password # rq[r].password)
    PROVE  AccountsInv'
<1>1. RequestShape'
  BY DEF AccountsInv, RequestShape, Answer
<1>2. OneAccountPerEmail'
  BY DEF AccountsInv, OneAccountPerEmail
<1>3. /\ pc'[r] = "done" /\ resp'[r] = status /\ resp[r] = 0
      /\ \A s \in Requests : s # r => pc'[s] = pc[s] /\ resp'[s] = resp[s]
  BY DEF AccountsInv, RequestShape, Answer, AtAnswer
<1>4. ASSUME NEW s \in Requests
      PROVE  (AtRegister(s) /\ AtLogin(s) /\ AtAudit(s) /\ AtAnswer(s))'
  <2>1. /\ AtRegister(s) /\ AtLogin(s) /\ AtAudit(s) /\ AtAnswer(s)
        /\ NewUser(s)' = NewUser(s)
        /\ \A t \in known[s] : t \in Requests /\ t # r
    BY <1>3 DEF AccountsInv, NewUser, AtAnswer, RequestShape
  <2>2. CASE s # r
    BY <2>1, <2>2, <1>3 DEF AtRegister, AtLogin, AtAudit, AtAnswer
  <2>3. CASE s = r
    BY <2>1, <2>3, <1>3 DEF AtRegister, AtLogin, AtAudit, AtAnswer
  <2>4. QED BY <2>2, <2>3
<1>5. LoginKnowsAccounts'
  <2>1. SUFFICES ASSUME NEW s \in Requests, NEW t \in Requests, t \in known[s],
                        rq[s].op = "login",
                        Normalized[rq[s].email] = Normalized[rq[t].email],
                        rq[s].password = rq[t].password
                 PROVE  resp'[s] # 401
    BY DEF LoginKnowsAccounts
  <2>2. CASE s # r
    BY <2>1, <2>2, <1>3 DEF AccountsInv, LoginKnowsAccounts
  <2>3. CASE s = r /\ status # 401
    BY <2>3, <1>3
  <2>4. CASE s = r /\ status = 401
    <3>1. found[r] \in users /\ found[r].email = Normalized[rq[r].email]
      BY <2>1, <2>4 DEF AccountsInv, AtLogin
    <3>2. /\ NewUser(t) \in users /\ NewUser(t).email = Normalized[rq[t].email]
          /\ NewUser(t).password = rq[t].password
      BY <2>1, ZenonT(40) DEF AccountsInv, AtAnswer, NewUser
    <3>3. found[r] = NewUser(t)
      BY <2>1, <2>4, <3>1, <3>2 DEF AccountsInv, OneAccountPerEmail
    <3>4. QED BY <2>1, <2>4, <3>2, <3>3
  <2>5. QED BY <2>2, <2>3, <2>4
<1>6. QED
  BY <1>1, <1>2, <1>4, <1>5 DEF AccountsInv

\* A crash or a restart keeps the invariant: requests in flight get no answer.
LEMMA RestartKeeps == ASSUME AccountsInv, Restarted PROVE AccountsInv'
<1>1. \A s \in Requests : pc'[s] = IF pc[s] = "new" THEN "new" ELSE "done"
  BY DEF Restarted
<1>2. RequestShape' /\ OneAccountPerEmail' /\ LoginKnowsAccounts'
  BY DEF AccountsInv, RequestShape, OneAccountPerEmail, LoginKnowsAccounts, Restarted, db
<1>3. ASSUME NEW s \in Requests
      PROVE  (AtRegister(s) /\ AtLogin(s) /\ AtAudit(s) /\ AtAnswer(s))'
  BY <1>1 DEF AccountsInv, Restarted, db, AtRegister, AtLogin, AtAudit, AtAnswer, NewUser
<1>4. QED
  BY <1>2, <1>3 DEF AccountsInv

LEMMA AccountsUnchanged == ASSUME AccountsInv, UNCHANGED accounts PROVE AccountsInv'
<1>1. RequestShape' /\ OneAccountPerEmail' /\ LoginKnowsAccounts'
  BY DEF AccountsInv, RequestShape, OneAccountPerEmail, LoginKnowsAccounts, accounts
<1>2. ASSUME NEW s \in Requests
      PROVE  (AtRegister(s) /\ AtLogin(s) /\ AtAudit(s) /\ AtAnswer(s))'
  BY DEF AccountsInv, accounts, AtRegister, AtLogin, AtAudit, AtAnswer, NewUser
<1>3. QED
  BY <1>1, <1>2 DEF AccountsInv

\* Every step of an arriving request keeps the invariant.
LEMMA ArrivesKeeps ==
    ASSUME AccountsInv, NEW r \in Requests, NEW q \in Request, Arrives(r, q)
    PROVE  AccountsInv'
<1> USE DEF db, process
<1>0. q.op \in {"register", "login"} => q \in Credentials
  BY DEF Request, Credentials
<1>1. CASE Refuse(r, q)
  BY <1>0, <1>1, AnsweredAtOnce DEF Refuse
<1>2. CASE Invalid(r, q)
  BY <1>0, <1>2, AnsweredAtOnce DEF Invalid
<1>3. CASE Register(r, q)
  <2>1. CASE WithEmail(q.email) = {}
    <3>1. /\ pc' = [pc EXCEPT ![r] = "hash"] /\ Arrive(r, q) /\ q.op = "register"
          /\ UNCHANGED <<users, resp, found>>
      BY <1>3, <2>1 DEF Register, Await
    <3>2. found \in [Requests -> User \cup {None}]
      BY DEF AccountsInv, RequestShape
    <3>3. QED BY <1>0, <3>1, <3>2, ArrivesAt
  <2>2. CASE WithEmail(q.email) # {}
    BY <1>3, <2>2, AnsweredAtOnce DEF Register
  <2>3. QED BY <2>1, <2>2
<1>4. CASE Login(r, q)
  <2>1. CASE WithEmail(q.email) = {} /\ Answer(r, 401) /\ UNCHANGED <<loop, found>>
    BY <1>0, <1>4, <2>1, AnsweredAtOnce DEF Login
  <2>2. ASSUME NEW u \in WithEmail(q.email), found' = [found EXCEPT ![r] = u],
               Await(r, "compare")
        PROVE  AccountsInv'
    <3>1. /\ pc' = [pc EXCEPT ![r] = "compare"] /\ Arrive(r, q) /\ q.op = "login"
          /\ UNCHANGED <<users, resp>>
      BY <1>4, <2>2 DEF Login, Await
    <3>2. u \in users /\ u.email = Normalized[q.email] /\ u \in User
      BY DEF WithEmail, AccountsInv, RequestShape
    <3>3. /\ found' \in [Requests -> User \cup {None}] /\ found'[r] = u
          /\ \A s \in Requests \ {r} : found'[s] = found[s]
      BY <2>2, <3>2 DEF AccountsInv, RequestShape
    <3>4. QED BY <1>0, <3>1, <3>2, <3>3, ArrivesAt
  <2>3. QED BY <1>4, <2>1, <2>2 DEF Login
<1>5. CASE Logout(r, q)
  <2>1. CASE Answer(r, 401) /\ UNCHANGED <<loop, found>>
    BY <1>5, <2>1, AnsweredAtOnce DEF Logout
  <2>2. ASSUME NEW u \in Authenticated(q.client), found' = [found EXCEPT ![r] = u],
               Continue(r, "audit")
        PROVE  AccountsInv'
    <3>1. /\ pc' = [pc EXCEPT ![r] = "audit"] /\ Arrive(r, q) /\ q.op = "logout"
          /\ UNCHANGED <<users, resp>>
      BY <1>5, <2>2 DEF Logout, Continue
    <3>2. u \in User
      BY DEF Authenticated, AccountsInv, RequestShape
    <3>3. /\ found' \in [Requests -> User \cup {None}]
          /\ \A s \in Requests \ {r} : found'[s] = found[s]
      BY <2>2, <3>2 DEF AccountsInv, RequestShape
    <3>4. QED BY <3>1, <3>3, ArrivesAt
  <2>3. QED BY <1>5, <2>1, <2>2 DEF Logout
<1>6. CASE Me(r, q)
  <2> DEFINE status == IF Authenticated(q.client) = {} THEN 401 ELSE 200
  <2>1. status \in Int /\ status # 201 /\ q.op # "login"
    BY <1>6 DEF Me
  <2>2. Arrive(r, q) /\ Answer(r, status) /\ UNCHANGED <<users, found>>
    BY <1>6 DEF Me
  <2>3. HIDE DEF status
  <2>4. QED BY <2>1, <2>2, AnsweredAtOnce
<1>7. QED
  BY <1>1, <1>2, <1>3, <1>4, <1>5, <1>6 DEF Arrives

\* Every step of a request in its handler keeps the invariant.
LEMMA HandleKeeps ==
    ASSUME AccountsInv, NEW r \in Requests, Handle(r)
    PROVE  AccountsInv'
<1> USE DEF db, process
<1>1. CASE Hashed(r)
  BY <1>1, GoesOnAt, AuthAssumption DEF Hashed, Continue
<1>2. CASE InsertFails(r)
  BY <1>2, AnsweredAtEnd DEF InsertFails
<1>3. CASE Compared(r)
  BY <1>3, GoesOnAt, AuthAssumption DEF Compared, Continue
<1>4. CASE WriteAudit(r)
  BY <1>4, GoesOnAt, AuthAssumption DEF WriteAudit, Continue
<1>5. CASE Respond(r)
  <2>1. pc[r] = "respond" /\ Answer(r, Status(r)) /\ UNCHANGED <<users, rq, found, known>>
    BY <1>5 DEF Respond
  <2>2. rq[r].op \in {"register", "login", "logout"}
    BY <2>1 DEF AccountsInv, AtAudit
  <2>3. /\ Status(r) \in Int
        /\ Status(r) = 201 => rq[r].op = "register"
        /\ Status(r) = 401 => (rq[r].op = "login" => found[r].password # rq[r].password)
    BY <2>2 DEF Status, Action
  <2>4. QED BY <2>1, <2>3, AnsweredAtEnd
<1>6. CASE AuditFails(r)
  BY <1>6, AnsweredAtEnd DEF AuditFails
<1>7. QED
  BY <1>1, <1>2, <1>3, <1>4, <1>5, <1>6 DEF Handle

\* The accounts invariant holds: registrations that were answered have their
\* rows, logins compare with rows of their address, addresses are unique.
THEOREM AccountsInvariance == Spec => []AccountsInv
<1>1. Init => AccountsInv
  BY DEF Init, AccountsInv, RequestShape, OneAccountPerEmail, LoginKnowsAccounts,
         AtRegister, AtLogin, AtAudit, AtAnswer
<1>2. AccountsInv /\ [Next]_vars => AccountsInv'
  <2> SUFFICES ASSUME AccountsInv, [Next]_vars PROVE AccountsInv'
    OBVIOUS
  <2>1. CASE UNCHANGED vars
    BY <2>1, AccountsUnchanged DEF vars, accounts
  <2>2. ASSUME NEW r \in Requests, NEW q \in Request, Arrives(r, q) PROVE AccountsInv'
    BY <2>2, ArrivesKeeps
  <2>3. ASSUME NEW r \in Requests, Handle(r) PROVE AccountsInv'
    BY <2>3, HandleKeeps
  <2>4. ASSUME NEW l \in Limiters, NEW c \in Clients, WindowEnds(l, c) PROVE AccountsInv'
    BY <2>4, AccountsUnchanged DEF WindowEnds, accounts, db
  <2>5. ASSUME NEW c \in Clients, CookieExpires(c) PROVE AccountsInv'
    BY <2>5, AccountsUnchanged DEF CookieExpires, accounts, db
  <2>6. CASE Shutdown
    BY <2>6, AccountsUnchanged DEF Shutdown, accounts, db
  <2>7. CASE Exit \/ Crash
    BY <2>7, RestartKeeps DEF Exit, Crash
  <2>8. ASSUME NEW r \in Requests, HangUp(r) PROVE AccountsInv'
    BY <2>8, AccountsUnchanged DEF HangUp, accounts, db
  <2>9. QED
    BY <2>1, <2>2, <2>3, <2>4, <2>5, <2>6, <2>7, <2>8 DEF Next
<1>3. QED
  BY <1>1, <1>2, PTL DEF Spec

\* No interleaving of registrations, crashes and restarts makes two accounts of
\* one address.
THEOREM OneAccountPerEmailAlways == Spec => []OneAccountPerEmail
<1>1. AccountsInv => OneAccountPerEmail
  BY DEF AccountsInv
<1>2. QED
  BY <1>1, AccountsInvariance, PTL

\* Whoever was told that the registration succeeded is never refused at login
\* with the same address and password.
THEOREM LoginKnowsAccountsAlways == Spec => []LoginKnowsAccounts
<1>1. AccountsInv => LoginKnowsAccounts
  BY DEF AccountsInv
<1>2. QED
  BY <1>1, AccountsInvariance, PTL

-----------------------------------------------------------------------------
(* The audit log.                                                          *)

\* Whoever is logged in, out or refused is in the log by the time of the answer.
TraceOf(r) ==
    /\ IF pc[r] = "new" THEN found[r] = None ELSE rq[r] \in Request
    /\ pc[r] \in {"audit", "respond"} /\ rq[r].op = "logout" => found[r] \in User
    /\ \/ pc[r] = "respond"
       \/ resp[r] = 201
       \/ resp[r] \in {200, 401} /\ found[r] # None
       => Written(r) \subseteq audits
    /\ pc[r] = "done" => resp[r] # 0 \/ crashes > 0 \/ r \in gone

\* The row of u is followed by the log's, or the log's can't be written, or its
\* registration is lost by a crash. No client hangs up between the two.
Registered(u) ==
    /\ rq[u.id].op = "register"
    /\ pc[u.id] \in {"audit", "respond", "done"}
    /\ \/ [req |-> u.id, user |-> u.id, action |-> "AUTH_REGISTER"] \in audits
       \/ pc[u.id] = "audit"
       \/ pc[u.id] = "done" /\ resp[u.id] = 500
       \/ crashes > 0 /\ pc[u.id] = "done" /\ resp[u.id] = 0

LogInv ==
    /\ crashes \in Nat
    /\ \A r \in Requests : TraceOf(r)
    /\ \A u \in users : Registered(u)

\* What a step does not touch stays in the log.
Untouched(r) ==
    /\ pc'[r] = pc[r] /\ rq'[r] = rq[r] /\ found'[r] = found[r] /\ resp'[r] = resp[r]

LEMMA TraceKept ==
    ASSUME NEW r \in Requests, TraceOf(r), Untouched(r), audits \subseteq audits',
           crashes \in Nat, crashes' \in Nat, crashes <= crashes', gone \subseteq gone'
    PROVE  TraceOf(r)'
<1>1. Written(r)' = Written(r)
  BY DEF Untouched, Written, Subject, Action
<1>2. QED
  BY <1>1 DEF TraceOf, Untouched

LEMMA RegisteredKept ==
    ASSUME NEW u, Registered(u), Untouched(u.id), audits \subseteq audits',
           crashes \in Nat, crashes' \in Nat, crashes <= crashes'
    PROVE  Registered(u)'
  BY DEF Registered, Untouched

\* A step of request r alone, which no user of another request's depends on.
LEMMA LogStep ==
    ASSUME AccountsInv, LogInv, NEW r \in Requests,
           \A s \in Requests \ {r} : Untouched(s),
           audits \subseteq audits', UNCHANGED <<crashes, gone>>,
           TraceOf(r)', \A u \in users' : u \in users \/ u.id = r,
           \A u \in users' : u.id = r => Registered(u)'
    PROVE  LogInv'
<1>1. \A s \in Requests : TraceOf(s)'
  BY TraceKept DEF LogInv
<1>2. ASSUME NEW u \in users' PROVE Registered(u)'
  <2>1. CASE u.id = r
    BY <2>1
  <2>2. CASE u.id # r
    <3>1. u \in users /\ u.id \in Requests
      BY <2>2 DEF AccountsInv, RequestShape, User
    <3>2. Registered(u) /\ Untouched(u.id)
      BY <2>2, <3>1 DEF LogInv
    <3>3. QED BY <3>2, RegisteredKept DEF LogInv
  <2>3. QED BY <2>1, <2>2
<1>3. QED
  BY <1>1, <1>2 DEF LogInv

\* Requests that arrive and are answered at once.
LEMMA LogAnsweredAtOnce ==
    ASSUME AccountsInv, LogInv, NEW r \in Requests, NEW q \in Request, NEW status \in Int \ {0, 201},
           Arrive(r, q), Answer(r, status), UNCHANGED <<users, audits, found, crashes, gone>>
    PROVE  LogInv'
<1>1. \A s \in Requests \ {r} : Untouched(s)
  BY DEF AccountsInv, RequestShape, Arrive, Answer, Untouched
<1>2. TraceOf(r)'
  BY DEF AccountsInv, RequestShape, LogInv, Arrive, Answer, TraceOf
<1>3. \A u \in users : u.id # r
  BY DEF LogInv, Registered, Arrive
<1>4. QED
  BY <1>1, <1>2, <1>3, LogStep

\* Requests that arrive and are handled further.
LEMMA LogArrivesAt ==
    ASSUME AccountsInv, LogInv, NEW r \in Requests, NEW q \in Request, NEW l \in {"hash", "compare", "audit"},
           Arrive(r, q), pc' = [pc EXCEPT ![r] = l], UNCHANGED <<users, audits, resp, crashes, gone>>,
           \A s \in Requests \ {r} : found'[s] = found[s],
           l = "audit" => found'[r] \in User
    PROVE  LogInv'
<1>1. \A s \in Requests \ {r} : Untouched(s)
  BY DEF AccountsInv, RequestShape, Arrive, Untouched
<1>2. TraceOf(r)'
  BY DEF AccountsInv, RequestShape, AtAnswer, LogInv, Arrive, TraceOf
<1>3. \A u \in users : u.id # r
  BY DEF LogInv, Registered, Arrive
<1>4. QED
  BY <1>1, <1>2, <1>3, LogStep

LEMMA LogArrives ==
    ASSUME AccountsInv, LogInv, NEW r \in Requests, NEW q \in Request, Arrives(r, q)
    PROVE  LogInv'
<1> USE DEF db, process
<1>1. CASE Refuse(r, q)
  BY <1>1, LogAnsweredAtOnce DEF Refuse
<1>2. CASE Invalid(r, q)
  BY <1>2, LogAnsweredAtOnce DEF Invalid
<1>3. CASE Register(r, q)
  <2>1. CASE WithEmail(q.email) = {}
    BY <1>3, <2>1, LogArrivesAt DEF Register, Await
  <2>2. CASE WithEmail(q.email) # {}
    BY <1>3, <2>2, LogAnsweredAtOnce DEF Register
  <2>3. QED BY <2>1, <2>2
<1>4. CASE Login(r, q)
  <2>1. CASE WithEmail(q.email) = {} /\ Answer(r, 401) /\ UNCHANGED <<loop, found>>
    BY <1>4, <2>1, LogAnsweredAtOnce DEF Login
  <2>2. ASSUME NEW u \in WithEmail(q.email), found' = [found EXCEPT ![r] = u], Await(r, "compare")
        PROVE  LogInv'
    <3>1. \A s \in Requests \ {r} : found'[s] = found[s]
      BY <2>2 DEF AccountsInv, RequestShape
    <3>2. QED BY <1>4, <2>2, <3>1, LogArrivesAt DEF Login, Await
  <2>3. QED BY <1>4, <2>1, <2>2 DEF Login
<1>5. CASE Logout(r, q)
  <2>1. CASE Answer(r, 401) /\ UNCHANGED <<loop, found>>
    BY <1>5, <2>1, LogAnsweredAtOnce DEF Logout
  <2>2. ASSUME NEW u \in Authenticated(q.client), found' = [found EXCEPT ![r] = u], Continue(r, "audit")
        PROVE  LogInv'
    <3>1. /\ \A s \in Requests \ {r} : found'[s] = found[s]
          /\ found'[r] \in User
      BY <2>2 DEF AccountsInv, RequestShape, Authenticated
    <3>2. QED BY <1>5, <2>2, <3>1, LogArrivesAt DEF Logout, Continue
  <2>3. QED BY <1>5, <2>1, <2>2 DEF Logout
<1>6. CASE Me(r, q)
  BY <1>6, LogAnsweredAtOnce DEF Me
<1>7. QED
  BY <1>1, <1>2, <1>3, <1>4, <1>5, <1>6 DEF Arrives

\* What a request logs and answers.
LEMMA ActionFacts ==
    ASSUME NEW r \in Requests, rq[r].op \in {"register", "login", "logout"}
    PROVE  /\ Action(r) \in {"AUTH_REGISTER", "AUTH_LOGIN", "AUTH_LOGIN_FAILED", "AUTH_LOGOUT"}
           /\ Status(r) \in {200, 201, 401}
           /\ rq[r].op = "register" => Action(r) = "AUTH_REGISTER"
  BY DEF Action, Status

LEMMA LogHandle ==
    ASSUME AccountsInv, LogInv, NEW r \in Requests, Handle(r)
    PROVE  LogInv'
<1> USE DEF db, process
<1>0. /\ TraceOf(r) /\ AtRegister(r) /\ AtLogin(r) /\ AtAudit(r) /\ AtAnswer(r)
      /\ \A u \in users : u.id = r => Registered(u)
  BY DEF LogInv, AccountsInv
<1>1. \A s \in Requests \ {r} : Untouched(s)
  BY DEF AccountsInv, RequestShape, Handle, Hashed, InsertFails, Compared, WriteAudit, AuditFails,
         Respond, Answer, Continue, Untouched
<1>2. rq' = rq /\ found' = found /\ Written(r)' = Written(r) /\ UNCHANGED <<crashes, gone>> /\ rq[r] \in Request
  BY <1>0 DEF Handle, Hashed, InsertFails, Compared, WriteAudit, AuditFails, Respond,
                Written, Subject, Action, TraceOf
<1>3. CASE Hashed(r)
  <2>1. pc'[r] = "audit" /\ resp'[r] = 0 /\ UNCHANGED audits /\ rq[r].op = "register"
    BY <1>0, <1>3 DEF Hashed, Continue, AccountsInv, RequestShape, AtAnswer, AtRegister
  <2>2. TraceOf(r)'
    BY <1>2, <2>1 DEF TraceOf
  <2>3. \A u \in users' : u.id = r => Registered(u)'
    BY <1>2, <2>1 DEF Registered
  <2>4. \A u \in users' : u \in users \/ u.id = r
    BY <1>3 DEF Hashed, NewUser
  <2>5. QED BY <1>1, <1>2, <2>1, <2>2, <2>3, <2>4, LogStep
<1>4. CASE InsertFails(r)
  <2>1. pc'[r] = "done" /\ resp'[r] = 500 /\ UNCHANGED <<users, audits>>
    BY <1>4 DEF InsertFails, Answer, AccountsInv, RequestShape
  <2>2. TraceOf(r)'
    BY <1>2, <2>1 DEF TraceOf
  <2>3. \A u \in users : u.id # r
    BY <1>0, <1>4 DEF InsertFails, Registered
  <2>4. QED BY <1>1, <1>2, <2>1, <2>2, <2>3, LogStep
<1>5. CASE Compared(r)
  <2>1. pc'[r] = "audit" /\ resp'[r] = 0 /\ UNCHANGED <<users, audits>> /\ rq[r].op = "login"
    BY <1>0, <1>5 DEF Compared, Continue, AccountsInv, RequestShape, AtAnswer, AtLogin
  <2>2. TraceOf(r)'
    BY <1>2, <2>1 DEF TraceOf
  <2>3. \A u \in users : u.id # r
    BY <1>0, <1>5 DEF Compared, Registered
  <2>4. QED BY <1>1, <1>2, <2>1, <2>2, <2>3, LogStep
<1>6. CASE WriteAudit(r)
  <2>1. pc[r] = "audit" /\ pc'[r] = "respond" /\ resp' = resp /\ UNCHANGED users /\ audits' = audits \cup Written(r)
    BY <1>6 DEF WriteAudit, Continue, AccountsInv, RequestShape
  <2>2. TraceOf(r)'
    BY <1>0, <1>2, <2>1 DEF TraceOf
  <2>3. ASSUME NEW u \in users', u.id = r PROVE Registered(u)'
    <3>1. rq[r].op = "register"
      BY <1>0, <2>1, <2>3 DEF Registered
    <3>2. Written(r) = {[req |-> r, user |-> r, action |-> "AUTH_REGISTER"]}
      BY <3>1, ActionFacts DEF Written, Subject
    <3>3. QED BY <1>2, <2>1, <2>3, <3>1, <3>2 DEF Registered
  <2>4. QED BY <1>1, <1>2, <2>1, <2>2, <2>3, LogStep
<1>7. CASE Respond(r)
  <2>1. pc[r] = "respond" /\ pc'[r] = "done" /\ resp'[r] = Status(r) /\ UNCHANGED <<users, audits>>
    BY <1>7 DEF Respond, Answer, AccountsInv, RequestShape
  <2>2. Status(r) \in {200, 201, 401}
    BY <1>0, <2>1, ActionFacts DEF AtAudit
  <2>3. TraceOf(r)'
    BY <1>0, <1>2, <2>1, <2>2 DEF TraceOf
  <2>4. \A u \in users' : u.id = r => Registered(u)'
    BY <1>0, <1>2, <2>1 DEF Registered
  <2>5. QED BY <1>1, <1>2, <2>1, <2>3, <2>4, LogStep
<1>8. CASE AuditFails(r)
  <2>1. pc[r] = "audit" /\ pc'[r] = "done" /\ resp'[r] = 500 /\ UNCHANGED <<users, audits>>
    BY <1>8 DEF AuditFails, Answer, AccountsInv, RequestShape
  <2>2. TraceOf(r)'
    BY <1>2, <2>1 DEF TraceOf
  <2>3. \A u \in users' : u.id = r => Registered(u)'
    BY <1>0, <1>2, <2>1 DEF Registered
  <2>4. QED BY <1>1, <1>2, <2>1, <2>2, <2>3, LogStep
<1>9. QED
  BY <1>3, <1>4, <1>5, <1>6, <1>7, <1>8 DEF Handle

\* A handler keeps the event loop from the users row to the answer.
LoopInv == \A r \in Requests : pc[r] \in {"audit", "respond"} => loop = r

THEOREM LoopInvariance == Spec => []LoopInv
<1> USE AuthAssumption DEF db, process
<1>1. Init => LoopInv
  BY DEF Init, LoopInv
<1>2. AccountsInv /\ LoopInv /\ [Next]_vars => LoopInv'
  <2> SUFFICES ASSUME AccountsInv, LoopInv, [Next]_vars PROVE LoopInv'
    OBVIOUS
  <2>0. pc \in [Requests -> {"new", "hash", "compare", "audit", "respond", "done"}]
    BY DEF AccountsInv, RequestShape
  <2>1. CASE UNCHANGED <<pc, loop>>
    BY <2>1 DEF LoopInv
  <2>2. ASSUME NEW r \in Requests, NEW q \in Request, Arrives(r, q) PROVE LoopInv'
    <3>1. loop = None /\ \A s \in Requests : pc[s] \notin {"audit", "respond"}
      BY <2>2 DEF Arrives, Refuse, Invalid, Register, Login, Logout, Me, Arrive, LoopInv
    <3>2. \A s \in Requests : s # r => pc'[s] = pc[s]
      BY <2>0, <2>2 DEF Arrives, Refuse, Invalid, Register, Login, Logout, Me, Answer, Await, Continue
    <3>3. pc'[r] \in {"audit", "respond"} => loop' = r
      BY <2>0, <2>2 DEF Arrives, Refuse, Invalid, Register, Login, Logout, Me, Answer, Await, Continue
    <3>4. QED BY <3>1, <3>2, <3>3 DEF LoopInv
  <2>3. ASSUME NEW r \in Requests, Handle(r) PROVE LoopInv'
    <3>1. \A s \in Requests : s # r => pc'[s] = pc[s] /\ pc[s] \notin {"audit", "respond"}
      BY <2>0, <2>3 DEF Handle, Hashed, InsertFails, Compared, WriteAudit, AuditFails, Respond,
                        Answer, Continue, LoopInv
    <3>2. pc'[r] \in {"audit", "respond"} => loop' = r
      BY <2>0, <2>3 DEF Handle, Hashed, InsertFails, Compared, WriteAudit, AuditFails, Respond,
                        Answer, Continue
    <3>3. QED BY <3>1, <3>2 DEF LoopInv
  <2>4. CASE Exit \/ Crash
    BY <2>4 DEF Exit, Crash, Restarted, LoopInv
  <2>5. QED
    BY <2>1, <2>2, <2>3, <2>4 DEF vars, Next, WindowEnds, CookieExpires, Shutdown, HangUp
<1>3. QED
  BY <1>1, <1>2, AccountsInvariance, PTL DEF Spec

\* A crash loses what is in flight; an exit finds in flight only requests whose
\* clients have hung up, and none between its two INSERTs.
LEMMA LogRestart == ASSUME AccountsInv, LogInv, LoopInv, Exit \/ Crash PROVE LogInv'
<1> USE DEF db
<1>1. /\ crashes' \in Nat /\ crashes <= crashes'
      /\ \A r \in Requests : InFlight(r) => crashes' > 0 \/ r \in gone
      /\ \A r \in Requests : pc[r] \in {"audit", "respond"} => crashes' > 0
  BY AuthAssumption DEF LogInv, LoopInv, Exit, Crash, Drained
<1>2. UNCHANGED <<users, audits, rq, found, resp, gone>> /\ Restarted
  BY DEF Exit, Crash, Restarted
<1>3. ASSUME NEW r \in Requests PROVE TraceOf(r)'
  <2>1. TraceOf(r) /\ AtAnswer(r) /\ Written(r)' = Written(r)
    BY <1>2 DEF LogInv, AccountsInv, Written, Subject, Action
  <2>2. pc'[r] = IF pc[r] = "new" THEN "new" ELSE "done"
    BY <1>2 DEF Restarted
  <2>3. pc[r] \in {"new", "done"} \/ crashes' > 0 \/ r \in gone
    BY <1>1 DEF InFlight
  <2>4. QED BY <1>1, <1>2, <2>1, <2>2, <2>3 DEF TraceOf, LogInv
<1>4. ASSUME NEW u \in users' PROVE Registered(u)'
  <2>1. u \in users /\ u.id \in Requests
    BY <1>2 DEF AccountsInv, RequestShape, User
  <2>2. Registered(u) /\ AtAnswer(u.id)
    BY <2>1 DEF LogInv, AccountsInv
  <2>3. pc'[u.id] = "done"
    BY <1>2, <2>1, <2>2 DEF Restarted, Registered
  <2>4. pc[u.id] = "done" \/ crashes' > 0
    BY <1>1, <2>1, <2>2 DEF Registered
  <2>5. QED BY <1>1, <1>2, <2>2, <2>3, <2>4 DEF Registered, AtAnswer, LogInv
<1>5. QED
  BY <1>1, <1>3, <1>4 DEF LogInv

\* The log follows what the clients are told.
THEOREM LogInvariance == Spec => []LogInv
<1>1. Init => LogInv
  BY DEF Init, LogInv, TraceOf
<1>2. AccountsInv /\ LogInv /\ LoopInv /\ [Next]_vars => LogInv'
  <2> SUFFICES ASSUME AccountsInv, LogInv, LoopInv, [Next]_vars PROVE LogInv'
    OBVIOUS
  <2>1. CASE UNCHANGED <<users, audits, pc, rq, found, resp, crashes>> /\ gone \subseteq gone'
    <3>1. \A r \in Requests : Untouched(r)
      BY <2>1 DEF Untouched
    <3>2. \A u \in users : u.id \in Requests
      BY DEF AccountsInv, RequestShape, User
    <3>3. QED BY <2>1, <3>1, <3>2, TraceKept, RegisteredKept DEF LogInv
  <2>2. CASE \E r \in Requests, q \in Request : Arrives(r, q)
    BY <2>2, LogArrives
  <2>3. CASE \E r \in Requests : Handle(r)
    BY <2>3, LogHandle
  <2>4. CASE Exit \/ Crash
    BY <2>4, LogRestart
  <2>5. QED
    BY <2>1, <2>2, <2>3, <2>4 DEF vars, Next, WindowEnds, CookieExpires, Shutdown, HangUp, db, process
<1>3. QED
  BY <1>1, <1>2, AccountsInvariance, LoopInvariance, PTL DEF Spec

\* Whatever fails and crashes, a client is logged in, out or refused only after the
\* audit_logs row of it is written.
THEOREM AnsweredIsAuditedAlways == Spec => []AnsweredIsAudited
<1>1. LogInv => AnsweredIsAudited
  <2> SUFFICES ASSUME LogInv, NEW r \in Requests,
                      resp[r] = 201 \/ (resp[r] \in {200, 401} /\ found[r] # None)
               PROVE  \E a \in audits : a.req = r /\ a.action = Action(r) /\ a.user = Subject(r)
    BY DEF AnsweredIsAudited
  <2>1. [req |-> r, user |-> Subject(r), action |-> Action(r)] \in audits
    BY DEF LogInv, TraceOf, Written
  <2>2. QED BY <2>1
<1>2. QED
  BY <1>1, LogInvariance, PTL

\* A user whose registration is not in the log is one that is being registered, was
\* told 500, or was left without an answer by a crash; a shutdown loses nothing but
\* the answers of clients that hung up (server.js, shutdown).
THEOREM NothingLostInSilenceAlways == Spec => []NothingLostInSilence
<1>1. LogInv => NothingLostInSilence
  BY DEF LogInv, TraceOf, Registered, NothingLostInSilence
<1>2. QED
  BY <1>1, LogInvariance, PTL

-----------------------------------------------------------------------------
(* Types, and the limiters.                                                *)

\* What a limiter counts stays within its limit: it counts what it lets through.
HitsOK ==
    /\ hits \in [Limiters -> [Clients -> Nat]]
    /\ \A l \in Limiters, c \in Clients : hits[l][c] <= Limit[l]

LEMMA CountOK ==
    ASSUME HitsOK, NEW ls \in SUBSET Limiters, NEW c \in Clients, \A l \in ls : ~UsedUp(l, c),
           hits' = Count(ls, c)
    PROVE  HitsOK'
<1> USE AuthAssumption
<1>1. ASSUME NEW l \in Limiters
      PROVE  hits'[l] \in [Clients -> Nat] /\ \A d \in Clients : hits'[l][d] <= Limit[l]
  <2>0. hits[l] \in [Clients -> Nat] /\ Limit[l] \in Nat /\ \A d \in Clients : hits[l][d] <= Limit[l]
    BY DEF HitsOK
  <2>1. CASE l \in ls
    <3>1. hits'[l] = [hits[l] EXCEPT ![c] = hits[l][c] + 1]
      BY <2>1 DEF Count
    <3>2. hits[l][c] < Limit[l]
      BY <2>0, <2>1 DEF UsedUp
    <3>3. QED BY <2>0, <3>1, <3>2
  <2>2. CASE l \notin ls
    BY <2>0, <2>2 DEF Count
  <2>3. QED BY <2>1, <2>2
<1>2. QED
  BY <1>1 DEF HitsOK, Count

LEMMA HitsArrive ==
    ASSUME HitsOK, NEW r \in Requests, NEW q \in Request, Arrives(r, q)
    PROVE  HitsOK'
<1>0. q.client \in Clients /\ LimitersOf(q.op) \in SUBSET Limiters /\ "general" \in Limiters
  BY DEF Request, Credentials, LimitersOf, Limiters
<1>1. CASE Admitted(q)
  BY <1>0, <1>1, CountOK DEF Admitted
<1>2. CASE Refuse(r, q)
  <2>1. CASE UsedUp("general", q.client)
    BY <1>2, <2>1 DEF Refuse, HitsOK
  <2>2. CASE ~UsedUp("general", q.client)
    BY <1>0, <1>2, <2>2, CountOK DEF Refuse
  <2>3. QED BY <2>1, <2>2
<1>3. QED
  BY <1>1, <1>2 DEF Arrives, Invalid, Register, Login, Logout, Me

\* The rest of the types.
RestOK ==
    /\ audits \in SUBSET Audit
    /\ session \in [Clients -> Requests \cup {None}]
    /\ server \in {"open", "closing"}
    /\ loop \in Requests \cup {None}
    /\ resp \in [Requests -> {0, 200, 201, 400, 401, 409, 429, 500}]
    /\ crashes \in 0 .. MaxCrashes
    /\ gone \in SUBSET Requests

LEMMA RestArrive ==
    ASSUME AccountsInv, RestOK, NEW r \in Requests, NEW q \in Request, Arrives(r, q)
    PROVE  RestOK'
<1> USE DEF db, process, RestOK
<1>1. CASE Refuse(r, q) \/ Invalid(r, q) \/ Register(r, q)
  BY <1>1 DEF Refuse, Invalid, Register, Answer, Await
<1>2. CASE Login(r, q) \/ Logout(r, q)
  BY <1>2 DEF Login, Logout, Answer, Await, Continue
<1>3. CASE Me(r, q)
  BY <1>3 DEF Me, Answer
<1>4. QED
  BY <1>1, <1>2, <1>3 DEF Arrives

LEMMA RestHandle ==
    ASSUME AccountsInv, LogInv, RestOK, NEW r \in Requests, Handle(r)
    PROVE  RestOK'
<1> USE DEF db, process, RestOK
<1>1. CASE Hashed(r) \/ InsertFails(r) \/ Compared(r) \/ AuditFails(r)
  BY <1>1 DEF Hashed, InsertFails, Compared, AuditFails, Answer, Continue
<1>2. ASSUME pc[r] \in {"audit", "respond"} PROVE Subject(r) \in Requests /\ rq[r].op \in {"register", "login", "logout"}
  <2>1. rq[r].op \in {"register", "login", "logout"}
    BY <1>2 DEF AccountsInv, AtAudit
  <2>2. rq[r].op # "register" => found[r] \in User
    BY <1>2, <2>1 DEF AccountsInv, AtLogin, RequestShape, LogInv, TraceOf
  <2>3. QED BY <2>1, <2>2 DEF Subject, User
<1>3. CASE WriteAudit(r)
  <2>1. Written(r) \subseteq Audit
    BY <1>2, <1>3, ActionFacts DEF WriteAudit, Written, Audit
  <2>2. QED BY <1>3, <2>1 DEF WriteAudit, Continue
<1>4. CASE Respond(r)
  <2>1. Status(r) \in {200, 201, 401}
    BY <1>2, <1>4, ActionFacts DEF Respond
  <2>2. session' \in [Clients -> Requests \cup {None}]
    <3> DEFINE c == rq[r].client
    <3>1. session' = session \/ session' = [session EXCEPT ![c] = Cookie(r)]
      BY <1>4 DEF Respond
    <3>2. c \in Clients
      BY <1>4 DEF Respond, LogInv, TraceOf, Request, Credentials
    <3>3. Cookie(r) \in Requests \cup {None}
      BY <1>2, <1>4, <3>2 DEF Respond, Cookie
    <3> HIDE DEF c
    <3>4. QED BY <3>1, <3>2, <3>3
  <2>3. QED BY <1>4, <2>1, <2>2 DEF Respond, Answer
<1>5. QED
  BY <1>1, <1>3, <1>4 DEF Handle

\* The state stays well typed; in particular no limiter counts past its limit, also
\* where a request passes one limiter and is refused by the next.
THEOREM TypeCorrectness == Spec => []TypeOK
<1> USE AuthAssumption
<1>1. Init => HitsOK /\ RestOK
  BY DEF Init, HitsOK, RestOK, Limiters
<1>2. AccountsInv /\ LogInv /\ HitsOK /\ RestOK /\ [Next]_vars => (HitsOK /\ RestOK)'
  <2> SUFFICES ASSUME AccountsInv, LogInv, HitsOK, RestOK, [Next]_vars PROVE HitsOK' /\ RestOK'
    OBVIOUS
  <2> USE DEF db, process
  <2>1. CASE UNCHANGED vars
    BY <2>1 DEF vars, HitsOK, RestOK
  <2>2. CASE \E r \in Requests, q \in Request : Arrives(r, q)
    BY <2>2, HitsArrive, RestArrive
  <2>3. ASSUME NEW r \in Requests, Handle(r) PROVE HitsOK' /\ RestOK'
    <3>1. UNCHANGED hits
      BY <2>3 DEF Handle, Hashed, InsertFails, Compared, WriteAudit, AuditFails, Respond
    <3>2. QED BY <2>3, <3>1, RestHandle DEF HitsOK
  <2>4. ASSUME NEW l \in Limiters, NEW c \in Clients, WindowEnds(l, c) PROVE HitsOK' /\ RestOK'
    BY <2>4 DEF WindowEnds, HitsOK, RestOK
  <2>5. ASSUME NEW c \in Clients, CookieExpires(c) PROVE HitsOK' /\ RestOK'
    BY <2>5 DEF CookieExpires, HitsOK, RestOK
  <2>6. CASE Shutdown
    BY <2>6 DEF Shutdown, HitsOK, RestOK
  <2>7. CASE Exit \/ Crash
    BY <2>7 DEF Exit, Crash, Restarted, HitsOK, RestOK, Limiters
  <2>8. ASSUME NEW r \in Requests, HangUp(r) PROVE HitsOK' /\ RestOK'
    BY <2>8 DEF HangUp, HitsOK, RestOK
  <2>9. QED
    BY <2>1, <2>2, <2>3, <2>4, <2>5, <2>6, <2>7, <2>8 DEF Next
<1>3. AccountsInv /\ HitsOK /\ RestOK => TypeOK
  BY DEF AccountsInv, RequestShape, HitsOK, RestOK, TypeOK
<1>4. QED
  BY <1>1, <1>2, <1>3, AccountsInvariance, LogInvariance, PTL DEF Spec
=============================================================================
