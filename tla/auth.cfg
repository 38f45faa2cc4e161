\* Three requests of one client, one crash: registrations of one address race
\* with each other, with logins and with a restart. The limits are reached.
SPECIFICATION Spec
CONSTANTS
    Requests = {r1, r2, r3}
    Clients = {c1}
    RawEmails <- MCRawEmails
    Emails <- MCEmails
    Normalized <- MCNormalized
    Passwords = {p1, p2}
    Limit <- MCLimit
    MaxCrashes = 1
    None = None
SYMMETRY Symmetric
INVARIANTS
    TypeOK
    OneAccountPerEmail
    LoginKnowsAccounts
    AnsweredIsAudited
    NothingLostInSilence
