--------------------------- MODULE AuthSessions ---------------------------
(***************************************************************************)
(* The one account of a deployment and its sessions.  A session is a token *)
(* that the backend signs and does not store: it is over when its version  *)
(* is not the account's, when it was issued before the second of the last  *)
(* change of the password, when it expires, or when the backend signs with *)
(* another secret.  A request reads the account, and decides and writes    *)
(* later from what it read; requests overlap as they like.                 *)
(***************************************************************************)
EXTENDS Naturals

CONSTANTS
    Req,           \* slots for requests in flight
    Name, Pw,      \* user names, passwords
    SetupToken,    \* whether DELTA_SETUP_TOKEN is set
    Expire,        \* seconds a token lives
    MaxClock, MaxArrivals, MaxRestarts,
    None

ASSUME ConstantsAssumption ==
    /\ SetupToken \in BOOLEAN /\ Expire \in Nat
    /\ MaxClock \in Nat /\ MaxArrivals \in Nat /\ MaxRestarts \in Nat
    /\ None \notin Req

VARIABLES
    users,      \* the committed users table
    lock,       \* the request that holds the advisory lock of registrations
    tokens,     \* every token that was ever answered
    secret,     \* jwt_secret
    clock,      \* seconds
    reqs, arrivals, restarts,
    loggedOut,  \* (history) tokens that existed when a logout committed
    raced,      \* (history) tokens issued while a password change was in flight
    crossed     \* (history) a write put an older value over a newer one

vars == <<users, lock, tokens, secret, clock, reqs, arrivals, restarts, loggedOut, raced, crossed>>

\* changed: the second of the last change of the password; 0: there was none.
User == [name : Name, pw : Pw, ver : Nat, changed : Nat]
\* pw (history): the password that was given for it.
Token == [name : Name, ver : Nat, iat : Nat, key : Nat, pw : Pw]
NoReq == [op |-> "none", user |-> None, tok |-> None, stale |-> FALSE]
\* user: the row as it was read and, once the handler has run, as it is to be
\* written; tok: the token to be answered; stale (history): the password of
\* the row has been changed since it was read.
Reqs == [op : {"none", "register", "insert", "login", "change", "write", "logout"},
         user : User \union {None}, tok : Token \union {None}, stale : BOOLEAN]

Init ==
    /\ users = {} /\ lock = None /\ tokens = {} /\ secret = 0 /\ clock = 1
    /\ reqs = [q \in Req |-> NoReq] /\ arrivals = 0 /\ restarts = 0
    /\ loggedOut = {} /\ raced = {} /\ crossed = {}

Arrive == arrivals < MaxArrivals /\ arrivals' = arrivals + 1
Move(q, r) == reqs' = [reqs EXCEPT ![q] = r]
Idle(q) == reqs[q].op = "none"
history == <<loggedOut, raced, crossed>>
time == <<secret, clock, restarts>>

\* create_access_token.
Issued(u) == [name |-> u.name, ver |-> u.ver, iat |-> clock, key |-> secret, pw |-> u.pw]

\* decode_access_token and get_current_user: t is good for the row u.
\* Variant: the time of the last change of the password is not looked at.
GoodUndated(t, u) ==
    /\ t.key = secret /\ clock < t.iat + Expire
    /\ t.name = u.name /\ t.ver = u.ver
Good(t, u) ==
    /\ t.key = secret /\ clock < t.iat + Expire
    /\ t.name = u.name
    /\ t.ver = u.ver
    /\ t.iat >= u.changed
Accepted(t) == \E u \in users : Good(t, u)

-----------------------------------------------------------------------------
\* register.  The lock makes one wait for the other's commit.
BeginRegister(q, n, p) ==
    /\ Idle(q) /\ Arrive
    /\ Move(q, [NoReq EXCEPT !.op = "register",
                             !.user = [name |-> n, pw |-> p, ver |-> 1, changed |-> 0]])
    /\ UNCHANGED <<users, lock, tokens, time, history>>

\* Variant: nothing is locked.
RegisterUnlocked(q) ==
    /\ reqs[q].op = "register" /\ users = {}
    /\ lock' = q
    /\ Move(q, [reqs[q] EXCEPT !.op = "insert", !.tok = Issued(reqs[q].user)])
    /\ UNCHANGED <<users, tokens, time, arrivals, history>>
Register(q) ==
    /\ reqs[q].op = "register" /\ lock = None /\ users = {}
    /\ lock' = q
    /\ Move(q, [reqs[q] EXCEPT !.op = "insert", !.tok = Issued(reqs[q].user)])
    /\ UNCHANGED <<users, tokens, time, arrivals, history>>

\* There is an account already, or the setup token is missing or wrong.
RegisterRefused(q) ==
    /\ reqs[q].op = "register" /\ lock = None /\ (users # {} \/ SetupToken)
    /\ Move(q, NoReq)
    /\ UNCHANGED <<users, lock, tokens, time, arrivals, history>>

\* The unique index refuses the same name.
CommitRegister(q) ==
    /\ reqs[q].op = "insert" /\ \A u \in users : u.name # reqs[q].user.name
    /\ users' = users \union {reqs[q].user} /\ tokens' = tokens \union {reqs[q].tok}
    /\ lock' = None
    /\ Move(q, NoReq)
    /\ UNCHANGED <<time, arrivals, history>>

-----------------------------------------------------------------------------
\* login: the row is read, and the password compared with it.
BeginLogin(q, u) ==
    /\ Idle(q) /\ u \in users /\ Arrive
    /\ Move(q, [NoReq EXCEPT !.op = "login", !.user = u])
    /\ UNCHANGED <<users, lock, tokens, time, history>>

Login(q) ==
    /\ reqs[q].op = "login"
    /\ tokens' = tokens \union {Issued(reqs[q].user)}
    /\ raced' = IF reqs[q].stale THEN raced \union {Issued(reqs[q].user)} ELSE raced
    /\ Move(q, NoReq)
    /\ UNCHANGED <<users, lock, time, arrivals, loggedOut, crossed>>

\* A request with a token: get_current_user lets it pass, with the row as it is.
BeginSession(q, op, t, u) ==
    /\ Idle(q) /\ t \in tokens /\ u \in users /\ Good(t, u) /\ Arrive
    /\ Move(q, [NoReq EXCEPT !.op = op, !.user = u])
    /\ UNCHANGED <<users, lock, tokens, time, history>>

\* change_password: the time is that of the handler, not of the commit.
Change(q, p) ==
    /\ reqs[q].op = "change"
    /\ Move(q, [reqs[q] EXCEPT !.op = "write", !.user.pw = p, !.user.changed = clock])
    /\ UNCHANGED <<users, lock, tokens, time, arrivals, history>>

\* The row as an UPDATE of the columns that were set leaves it.
Of(q) == {u \in users : u.name = reqs[q].user.name}
Replace(u, v) == users' = (users \ {u}) \union {v}

CommitChange(q) ==
    /\ reqs[q].op = "write"
    /\ \E u \in Of(q) :
         LET v == [u EXCEPT !.pw = reqs[q].user.pw, !.changed = reqs[q].user.changed] IN
         /\ Replace(u, v)
         /\ raced' = raced \union {t \in tokens : t.iat >= v.changed}
         /\ crossed' = IF v.changed < u.changed THEN crossed \union {"password"} ELSE crossed
    /\ reqs' = [p \in Req |-> IF p = q THEN NoReq
                              ELSE IF reqs[p].op = "login" THEN [reqs[p] EXCEPT !.stale = TRUE]
                              ELSE reqs[p]]
    /\ UNCHANGED <<lock, tokens, time, arrivals, loggedOut>>

\* logout: the version is one more than the one that was read.
\* Variant: the cookie is deleted, and nothing else.
LogoutKeeps(q) ==
    /\ reqs[q].op = "logout"
    /\ loggedOut' = loggedOut \union tokens
    /\ Move(q, NoReq)
    /\ UNCHANGED <<users, lock, tokens, time, arrivals, raced, crossed>>
CommitLogout(q) ==
    /\ reqs[q].op = "logout"
    /\ \E u \in Of(q) :
         /\ Replace(u, [u EXCEPT !.ver = reqs[q].user.ver + 1])
         /\ crossed' = IF reqs[q].user.ver # u.ver THEN crossed \union {"version"} ELSE crossed
    /\ loggedOut' = loggedOut \union tokens
    /\ Move(q, NoReq)
    /\ UNCHANGED <<lock, tokens, time, arrivals, raced>>

\* A request fails, and its transaction is rolled back.
Dies(q) ==
    /\ ~Idle(q)
    /\ lock' = IF lock = q THEN None ELSE lock
    /\ Move(q, NoReq)
    /\ UNCHANGED <<users, tokens, time, arrivals, history>>

-----------------------------------------------------------------------------
Tick == clock < MaxClock /\ clock' = clock + 1
        /\ UNCHANGED <<users, lock, tokens, secret, reqs, arrivals, restarts, history>>

\* The secret is the one in the volume, or a new one if there was none.
Restart(k) ==
    /\ restarts < MaxRestarts /\ restarts' = restarts + 1
    /\ k \in {secret, secret + 1} /\ secret' = k
    /\ reqs' = [q \in Req |-> NoReq] /\ lock' = None
    /\ UNCHANGED <<users, tokens, clock, arrivals, history>>

Next ==
    \/ \E q \in Req :
         \/ \E n \in Name, p \in Pw : BeginRegister(q, n, p)
         \/ Register(q) \/ RegisterRefused(q) \/ CommitRegister(q)
         \/ \E u \in users : BeginLogin(q, u)
         \/ Login(q)
         \/ \E op \in {"change", "logout"}, t \in tokens, u \in users : BeginSession(q, op, t, u)
         \/ \E p \in Pw : Change(q, p)
         \/ CommitChange(q) \/ CommitLogout(q) \/ Dies(q)
    \/ Tick
    \/ \E k \in {secret, secret + 1} : Restart(k)

Spec == Init /\ [][Next]_vars

-----------------------------------------------------------------------------
TypeOK ==
    /\ users \in SUBSET User /\ lock \in Req \union {None}
    /\ tokens \in SUBSET Token /\ secret \in Nat /\ clock \in Nat
    /\ reqs \in [Req -> Reqs] /\ arrivals \in 0..MaxArrivals /\ restarts \in 0..MaxRestarts
    /\ loggedOut \in SUBSET Token /\ raced \in SUBSET Token
    /\ crossed \in SUBSET {"password", "version"}

\* However many registrations race, one account comes of it: the second waits
\* for the first one's commit and then sees it.
OneAccount == \A u, v \in users : u = v

\* A token that existed when a logout committed is never accepted again,
\* whatever else was in flight, as long as no logout wrote a version that it
\* had computed from one another logout had moved on since.
LogoutIsFinal ==
    "version" \notin crossed => \A t \in loggedOut : ~Accepted(t)

\* Of the sessions that were opened with another password than today's, only
\* those are left that were opened while the change was in flight: in its
\* second or after it, before it was committed or from a row read before.
OldPasswordIsOut ==
    "password" \notin crossed =>
        \A t \in tokens, u \in users : Good(t, u) => t.pw = u.pw \/ t \in raced
=============================================================================
