---------------------------- MODULE PlatformAuth ----------------------------
(***************************************************************************)
(* Registration, login and logout of the platform backend (platform/       *)
(* backend/src: server.js, routes/auth.routes.js, services/auth.service.js,*)
(* middleware/auth.js, middleware/security.js, config/database.js).        *)
(*                                                                         *)
(* Node runs one handler at a time, from one await to the next. A handler  *)
(* awaits bcrypt after it has read the database and before it writes it:   *)
(* there other requests run. (The limiters and the validators await too,   *)
(* but no request depends on what runs there, so a request arrives in one  *)
(* step that ends at bcrypt.) Each SQLite statement is durable by itself,  *)
(* and the process may die between any two of them. The rate limiters live *)
(* in memory and start afresh with the process.                            *)
(***************************************************************************)
EXTENDS Integers, FiniteSets

CONSTANTS
    Requests,     \* HTTP requests, each made once; also the UUIDs they create
    Clients,      \* IP addresses, with a browser each
    RawEmails,    \* addresses as they are typed
    Emails,       \* addresses as they are stored
    Normalized,   \* what normalizeEmail, trim and toLowerCase make of an address
    Passwords,
    Limit,        \* of each limiter (general 300, auth 20 in the code)
    MaxCrashes,   \* bound on the number of times the process dies
    None

Limiters == {"general", "auth"}

ASSUME AuthAssumption ==
    /\ Normalized \in [RawEmails -> Emails]
    /\ Limit \in [Limiters -> Nat]
    /\ MaxCrashes \in Nat
    /\ None \notin Requests

VARIABLES
    users,     \* table users
    audits,    \* table audit_logs
    hits,      \* requests each limiter has counted in each client's window
    session,   \* the access_token cookie of each client: a user id
    server,    \* "open", or "closing" after SIGTERM or SIGINT
    loop,      \* the request whose handler is running, between two awaits
    pc,        \* where each request is
    rq,        \* the request itself
    found,     \* local record (login) or req.user (logout)
    resp,      \* the status answered, 0 for none yet
    crashes,   \* how often the process has died
    gone,      \* requests whose client hung up while they awaited bcrypt
    known      \* history: registrations answered before a request arrived

db == <<users, audits>>
process == <<server, crashes, gone>>
vars == <<users, audits, hits, session, server, loop, pc, rq, found, resp,
          crashes, gone, known>>

User == [id : Requests, email : Emails, password : Passwords]
Audit == [req : Requests, user : Requests,
          action : {"AUTH_REGISTER", "AUTH_LOGIN", "AUTH_LOGIN_FAILED", "AUTH_LOGOUT"}]
Credentials == [op : {"register", "login"}, client : Clients,
                email : RawEmails, password : Passwords]
Request == Credentials \cup [op : {"logout", "me"}, client : Clients]

TypeOK ==
    /\ users \in SUBSET User
    /\ audits \in SUBSET Audit
    /\ hits \in [Limiters -> [Clients -> Nat]]
    /\ \A l \in Limiters, c \in Clients : hits[l][c] <= Limit[l]
    /\ session \in [Clients -> Requests \cup {None}]
    /\ server \in {"open", "closing"}
    /\ loop \in Requests \cup {None}
    /\ pc \in [Requests -> {"new", "hash", "compare", "audit", "respond", "done"}]
    /\ rq \in [Requests -> Request \cup {None}]
    /\ found \in [Requests -> User \cup {None}]
    /\ resp \in [Requests -> {0, 200, 201, 400, 401, 409, 429, 500}]
    /\ crashes \in 0 .. MaxCrashes
    /\ gone \in SUBSET Requests
    /\ known \in [Requests -> SUBSET Requests]

Init ==
    /\ users = {}
    /\ audits = {}
    /\ hits = [l \in Limiters |-> [c \in Clients |-> 0]]
    /\ session = [c \in Clients |-> None]
    /\ server = "open"
    /\ loop = None
    /\ pc = [r \in Requests |-> "new"]
    /\ rq = [r \in Requests |-> None]
    /\ found = [r \in Requests |-> None]
    /\ resp = [r \in Requests |-> 0]
    /\ crashes = 0
    /\ gone = {}
    /\ known = [r \in Requests |-> {}]

-----------------------------------------------------------------------------
(* A request arrives.                                                      *)

\* The answer is sent; the handler is over.
Answer(r, status) ==
    /\ resp' = [resp EXCEPT ![r] = status]
    /\ pc' = [pc EXCEPT ![r] = "done"]

\* The handler goes on to l: it awaits bcrypt there, or keeps the event loop.
Await(r, l) == pc' = [pc EXCEPT ![r] = l] /\ UNCHANGED <<loop, resp>>
Continue(r, l) == pc' = [pc EXCEPT ![r] = l] /\ loop' = r /\ UNCHANGED resp

\* The request arrives as q, at a time when no handler runs.
Arrive(r, q) ==
    /\ server = "open"
    /\ loop = None
    /\ pc[r] = "new"
    /\ rq' = [rq EXCEPT ![r] = q]
    /\ known' = [known EXCEPT ![r] = {s \in Requests : resp[s] = 201}]

\* The limiters a request passes, and whether one of them is used up.
LimitersOf(op) == IF op \in {"register", "login"} THEN Limiters ELSE {"general"}
UsedUp_OffByOne(l, c) == hits[l][c] > Limit[l]   \* mutant of UsedUp
UsedUp(l, c) == hits[l][c] >= Limit[l]
Count(ls, c) ==
    [l \in Limiters |-> IF l \in ls THEN [hits[l] EXCEPT ![c] = @ + 1] ELSE hits[l]]

\* Every limiter lets the request through and counts it.
Admitted(q) ==
    /\ \A l \in LimitersOf(q.op) : ~UsedUp(l, q.client)
    /\ hits' = Count(LimitersOf(q.op), q.client)

\* Too many requests: the general limiter comes first, and authLimiter counts
\* only what passes it. (A counter at its limit stays there.)
Refuse(r, q) ==
    /\ Arrive(r, q)
    /\ \E l \in LimitersOf(q.op) : UsedUp(l, q.client)
    /\ hits' = IF UsedUp("general", q.client) THEN hits ELSE Count({"general"}, q.client)
    /\ Answer(r, 429)
    /\ UNCHANGED <<db, session, process, loop, found>>

\* The body doesn't pass validation.
Invalid(r, q) ==
    /\ q.op \in {"register", "login"}
    /\ Arrive(r, q)
    /\ Admitted(q)
    /\ Answer(r, 400)
    /\ UNCHANGED <<db, session, process, loop, found>>

\* Mutant of WithEmail: the address isn't normalized.
WithEmail_Raw(raw) == {u \in users : u.email = raw}

\* SELECT ... FROM users WHERE email = ?, after the address was normalized.
WithEmail(raw) == {u \in users : u.email = Normalized[raw]}

\* POST /register looks for the address, then hashes the password.
Register(r, q) ==
    /\ q.op = "register"
    /\ Arrive(r, q)
    /\ Admitted(q)
    /\ IF WithEmail(q.email) = {} THEN Await(r, "hash") ELSE Answer(r, 409) /\ UNCHANGED loop
    /\ UNCHANGED <<db, session, process, found>>

\* POST /login reads the user, then compares the password.
Login(r, q) ==
    /\ q.op = "login"
    /\ Arrive(r, q)
    /\ Admitted(q)
    /\ \/ /\ WithEmail(q.email) = {}
          /\ Answer(r, 401)
          /\ UNCHANGED <<loop, found>>
       \/ /\ \E u \in WithEmail(q.email) : found' = [found EXCEPT ![r] = u]
          /\ Await(r, "compare")
    /\ UNCHANGED <<db, session, process>>

\* requireAuth: the cookie names a user.
Authenticated(c) == {u \in users : u.id = session[c]}

\* POST /logout behind requireAuth.
Logout(r, q) ==
    /\ q.op = "logout"
    /\ Arrive(r, q)
    /\ Admitted(q)
    /\ \/ /\ Authenticated(q.client) = {}
          /\ Answer(r, 401)
          /\ UNCHANGED <<loop, found>>
       \/ /\ \E u \in Authenticated(q.client) : found' = [found EXCEPT ![r] = u]
          /\ Continue(r, "audit")
    /\ UNCHANGED <<db, session, process>>

\* GET /me behind requireAuth.
Me(r, q) ==
    /\ q.op = "me"
    /\ Arrive(r, q)
    /\ Admitted(q)
    /\ Answer(r, IF Authenticated(q.client) = {} THEN 401 ELSE 200)
    /\ UNCHANGED <<db, session, process, loop, found>>

-----------------------------------------------------------------------------
(* A handler goes on.                                                      *)

NewUser(r) == [id |-> r, email |-> Normalized[rq[r].email], password |-> rq[r].password]

\* Mutant of EmailTaken: the column isn't UNIQUE.
EmailTaken_Never(r) == FALSE

\* The column email is UNIQUE: whether the INSERT throws.
EmailTaken(r) == \E u \in users : u.email = Normalized[rq[r].email]

\* The password is hashed: INSERT INTO users.
Hashed(r) ==
    /\ loop = None
    /\ pc[r] = "hash"
    /\ ~EmailTaken(r)
    /\ users' = users \cup {NewUser(r)}
    /\ Continue(r, "audit")
    /\ UNCHANGED <<audits, hits, session, process, rq, found, known>>

\* The INSERT throws, because another registration of the address got there
\* first or because the database can't be written: the error handler answers 500.
InsertFails(r) ==
    /\ loop = None
    /\ pc[r] = "hash"
    /\ Answer(r, 500)
    /\ UNCHANGED <<db, hits, session, process, loop, rq, found, known>>

\* The password is compared.
Compared(r) ==
    /\ loop = None
    /\ pc[r] = "compare"
    /\ Continue(r, "audit")
    /\ UNCHANGED <<db, hits, session, process, rq, found, known>>

\* The user a request is about, the action it logs and the status it answers.
Subject(r) == IF rq[r].op = "register" THEN r ELSE found[r].id
Action(r) ==
    CASE rq[r].op = "register" -> "AUTH_REGISTER"
      [] rq[r].op = "logout"   -> "AUTH_LOGOUT"
      [] rq[r].op = "login" /\ found[r].password = rq[r].password -> "AUTH_LOGIN"
      [] rq[r].op = "login" /\ found[r].password # rq[r].password -> "AUTH_LOGIN_FAILED"
Status(r) ==
    CASE Action(r) = "AUTH_REGISTER"     -> 201
      [] Action(r) = "AUTH_LOGIN_FAILED" -> 401
      [] OTHER                           -> 200

\* Mutant of Written: the failed login isn't logged.
Written_NotFailed(r) ==
    {a \in {[req |-> r, user |-> Subject(r), action |-> Action(r)]} : Status(r) # 401}

\* The row that audit inserts.
Written(r) == {[req |-> r, user |-> Subject(r), action |-> Action(r)]}

\* The request is logged.
WriteAudit(r) ==
    /\ loop = r
    /\ pc[r] = "audit"
    /\ audits' = audits \cup Written(r)
    /\ Continue(r, "respond")
    /\ UNCHANGED <<users, hits, session, process, rq, found, known>>

\* The INSERT into audit_logs throws: the error handler answers 500. A user the
\* request has stored before stays.
AuditFails(r) ==
    /\ loop = r
    /\ pc[r] = "audit"
    /\ Answer(r, 500)
    /\ loop' = None
    /\ UNCHANGED <<db, hits, session, process, rq, found, known>>

\* setAuthCookie and clearCookie: what the answer makes of the client's cookie.
Cookie(r) ==
    CASE Action(r) \in {"AUTH_REGISTER", "AUTH_LOGIN"} -> Subject(r)
      [] Action(r) = "AUTH_LOGOUT"                     -> None
      [] OTHER                                         -> session[rq[r].client]

\* The request is answered. A client that hung up doesn't get the cookie.
Respond(r) ==
    /\ loop = r
    /\ pc[r] = "respond"
    /\ session' = IF r \in gone THEN session
                  ELSE [session EXCEPT ![rq[r].client] = Cookie(r)]
    /\ Answer(r, Status(r))
    /\ loop' = None
    /\ UNCHANGED <<db, hits, process, rq, found, known>>

-----------------------------------------------------------------------------
(* Time, signals and crashes.                                              *)

\* A limiter's window of a client is over.
WindowEnds(l, c) ==
    /\ hits[l][c] > 0
    /\ hits' = [hits EXCEPT ![l][c] = 0]
    /\ UNCHANGED <<db, session, process, loop, pc, rq, found, resp, known>>

\* Seven days are over: the cookie and the token in it expire.
CookieExpires(c) ==
    /\ session[c] # None
    /\ session' = [session EXCEPT ![c] = None]
    /\ UNCHANGED <<db, hits, process, loop, pc, rq, found, resp, known>>

\* SIGTERM or SIGINT: the server accepts no more connections.
Shutdown ==
    /\ server = "open"
    /\ loop = None
    /\ server' = "closing"
    /\ UNCHANGED <<db, hits, session, loop, pc, rq, found, resp, crashes, gone, known>>

\* A client hangs up while its request awaits bcrypt. The handler goes on.
HangUp(r) ==
    /\ loop = None
    /\ pc[r] \in {"hash", "compare"}
    /\ gone' = gone \cup {r}
    /\ UNCHANGED <<db, hits, session, server, loop, pc, rq, found, resp, crashes, known>>

InFlight(r) == pc[r] \notin {"new", "done"}

\* Mutant of Drained: the process exits without waiting for the server to close.
Drained_Ignored == loop = None

\* server.close calls back once every connection has ended: every request was
\* answered, or its client hung up. No handler is running then.
Drained == loop = None /\ \A r \in Requests : InFlight(r) => r \in gone

\* What is left of the process after it ends and is started again.
Restarted ==
    /\ server' = "open"
    /\ loop' = None
    /\ hits' = [l \in Limiters |-> [c \in Clients |-> 0]]
    /\ pc' = [r \in Requests |-> IF pc[r] = "new" THEN "new" ELSE "done"]
    /\ UNCHANGED <<db, session, rq, found, resp, gone, known>>

\* process.exit(0), and somebody starts the program again.
Exit ==
    /\ server = "closing"
    /\ Drained
    /\ Restarted
    /\ UNCHANGED crashes

\* The process dies while it works and is started again.
Crash ==
    /\ \E r \in Requests : InFlight(r)
    /\ crashes < MaxCrashes
    /\ crashes' = crashes + 1
    /\ Restarted

Arrives(r, q) ==
    \/ Refuse(r, q) \/ Invalid(r, q)
    \/ Register(r, q) \/ Login(r, q) \/ Logout(r, q) \/ Me(r, q)

Handle(r) ==
    \/ Hashed(r) \/ InsertFails(r) \/ Compared(r)
    \/ WriteAudit(r) \/ AuditFails(r) \/ Respond(r)

Next ==
    \/ \E r \in Requests, q \in Request : Arrives(r, q)
    \/ \E r \in Requests : Handle(r) \/ HangUp(r)
    \/ \E l \in Limiters, c \in Clients : WindowEnds(l, c)
    \/ \E c \in Clients : CookieExpires(c)
    \/ Shutdown
    \/ Exit
    \/ Crash

Spec == Init /\ [][Next]_vars

-----------------------------------------------------------------------------
(* Properties.                                                             *)

\* Two registrations of one address, however it is spelt, never both create an
\* account, although each looks for the address before it awaits bcrypt and
\* inserts after (auth.service.js, register).
OneAccountPerEmail == \A u, v \in users : u.email = v.email => u = v

\* Whoever was told that the registration succeeded can log in with that
\* password, under any spelling of the address, whatever crashes, restarts and
\* other registrations happened since: such a login is never answered 401.
LoginKnowsAccounts ==
    \A r, s \in Requests :
        (/\ s \in known[r]
         /\ rq[r].op = "login"
         /\ Normalized[rq[r].email] = Normalized[rq[s].email]
         /\ rq[r].password = rq[s].password) => resp[r] # 401

\* What LoginKnowsAccounts rests on. A registration that was answered 201, or
\* is about to be, has its row; a login compares with a row of its address that
\* is still there; who is known has been answered.
RequestShape ==
    /\ users \in SUBSET User
    /\ pc \in [Requests -> {"new", "hash", "compare", "audit", "respond", "done"}]
    /\ rq \in [Requests -> Request \cup {None}]
    /\ found \in [Requests -> User \cup {None}]
    /\ resp \in [Requests -> Int]
    /\ known \in [Requests -> SUBSET Requests]
AtRegister(r) == pc[r] = "hash" => rq[r] \in Credentials /\ rq[r].op = "register"
AtLogin(r) ==
    /\ pc[r] = "compare" => rq[r] \in Credentials /\ rq[r].op = "login"
    /\ pc[r] \in {"compare", "audit", "respond"} /\ rq[r].op = "login"
           => /\ found[r] \in users
              /\ found[r].email = Normalized[rq[r].email]
AtAudit(r) ==
    pc[r] \in {"audit", "respond"} =>
        /\ rq[r].op \in {"register", "login", "logout"}
        /\ rq[r].op = "register" => NewUser(r) \in users
AtAnswer(r) ==
    /\ pc[r] # "done" => resp[r] = 0
    /\ pc[r] = "new" => known[r] = {}
    /\ resp[r] = 201 => rq[r].op = "register" /\ NewUser(r) \in users
    /\ \A s \in known[r] : resp[s] = 201
AccountsInv ==
    /\ RequestShape
    /\ OneAccountPerEmail
    /\ \A r \in Requests : AtRegister(r) /\ AtLogin(r) /\ AtAudit(r) /\ AtAnswer(r)
    /\ LoginKnowsAccounts

\* A request that was about a known user is answered 200, 201 or 401 only after
\* its audit_logs row is written: no client is logged in, out or refused without
\* a trace. (A request whose audit row can't be written is answered 500.)
AnsweredIsAudited ==
    \A r \in Requests :
        resp[r] = 201 \/ (resp[r] \in {200, 401} /\ found[r] # None)
            => \E a \in audits : a.req = r /\ a.action = Action(r) /\ a.user = Subject(r)

\* Nothing is lost in silence. A user without an AUTH_REGISTER row is one whose
\* registration is still being handled, was answered 500 because the row could
\* not be written, or got no answer because the process died between its two
\* INSERTs; and a request is over without an answer only if the process died or
\* its client had hung up. A shutdown by signal lets the requests of the clients
\* that wait for bcrypt finish, and never falls between the two INSERTs
\* (server.js, shutdown).
NothingLostInSilence ==
    /\ \A u \in users :
          \/ [req |-> u.id, user |-> u.id, action |-> "AUTH_REGISTER"] \in audits
          \/ pc[u.id] = "audit"
          \/ pc[u.id] = "done" /\ resp[u.id] = 500
          \/ crashes > 0 /\ pc[u.id] = "done" /\ resp[u.id] = 0
    /\ \A r \in Requests : pc[r] = "done" => resp[r] # 0 \/ crashes > 0 \/ r \in gone
=============================================================================
