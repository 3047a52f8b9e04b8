------------------------- MODULE SharedStateProofs -------------------------
(***************************************************************************)
(* Proofs about the four modules of SharedState, for any constants: an     *)
(* inductive invariant of each, and of their composition.                  *)
(*                                                                         *)
(* Sessions: Places says what a request holds, and who has the lock;       *)
(* Versions and Passwords what every token, and every request in flight,   *)
(* knows of the account.  Memory: what passages there are, what a          *)
(* preparation has reported and what it has not found.  Volume: what is    *)
(* listed has its code in place or still to come.  Evaluations: whose the  *)
(* user's switch is.                                                       *)
(***************************************************************************)
EXTENDS SharedState, FiniteSetTheorems, TLAPS

Sessions == {"login", "change", "write", "logout"}

\* What a request holds; the one that inserts has the lock, and nobody has
\* registered before it; without an account there is nothing else.
Places ==
    /\ \A q \in Req :
         /\ reqs[q].op # "none" => reqs[q].user \in User
         /\ reqs[q].op = "insert" =>
              /\ lock = q /\ users = {}
              /\ reqs[q].tok \in Token /\ reqs[q].tok.pw = reqs[q].user.pw
              /\ reqs[q].tok.ver = reqs[q].user.ver
    /\ users = {} => /\ tokens = {} /\ loggedOut = {}
                     /\ \A q \in Req : reqs[q].op \notin Sessions

\* Nobody knows a later version than the account's, and who was logged out an
\* earlier one.
Versions ==
    "version" \notin crossed => \A u \in users :
        /\ \A t \in tokens : t.ver <= u.ver
        /\ \A t \in loggedOut : t.ver < u.ver
        /\ \A q \in Req : reqs[q].op \in Sessions => reqs[q].user.ver <= u.ver

\* A token that is not older than the last change is of today's password, or
\* was issued during the change; so is the password a login compares.
Passwords ==
    "password" \notin crossed => \A u \in users :
        /\ \A t \in tokens : t.iat >= u.changed => t.pw = u.pw \/ t \in raced
        /\ \A q \in Req : reqs[q].op = "login" /\ ~reqs[q].stale => reqs[q].user.pw = u.pw

IInv == TypeOK /\ Places /\ OneAccount /\ Versions /\ Passwords

-----------------------------------------------------------------------------
\* What a step does to the slots of the requests.
LEMMA Moved ==
    ASSUME NEW q \in Req, NEW r \in Reqs, reqs \in [Req -> Reqs], Move(q, r)
    PROVE  /\ reqs' \in [Req -> Reqs] /\ reqs'[q] = r
           /\ \A p \in Req : p # q => reqs'[p] = reqs[p]
  BY DEF Move

\* A slot without a request.
LEMMA NoReqType == NoReq \in Reqs /\ NoReq.op = "none" /\ NoReq.stale = FALSE
  BY DEF NoReq, Reqs

\* A request that has just read a row, or made one.
Starting == {"register", "login", "change", "logout"}
Fresh(op, u) == [NoReq EXCEPT !.op = op, !.user = u]

\* A request that has just read a row, or made one, has it and its kind.
LEMMA Started ==
    ASSUME NEW op \in Starting, NEW u \in User
    PROVE  /\ Fresh(op, u) \in Reqs /\ Fresh(op, u).op = op
           /\ Fresh(op, u).user = u /\ Fresh(op, u).stale = FALSE
  BY DEF Starting, Fresh, NoReq, Reqs

\* A token is of the row it is issued for.
LEMMA IssuedType ==
    ASSUME NEW u \in User, clock \in Nat, secret \in Nat
    PROVE  /\ Issued(u) \in Token /\ Issued(u).ver = u.ver /\ Issued(u).pw = u.pw
           /\ Issued(u).iat = clock
  BY DEF Issued, User, Token

\* The account is one row.
LEMMA Alone ==
    ASSUME OneAccount, NEW u \in users, NEW v, Replace(u, v)
    PROVE  users = {u} /\ users' = {v}
  BY DEF OneAccount, Replace

\* A deployment starts without an account.
THEOREM InitInv == Init => IInv
<1> SUFFICES ASSUME Init PROVE IInv
  OBVIOUS
<1>1. TypeOK
  BY ConstantsAssumption, NoReqType DEF Init, TypeOK
<1>2. \A q \in Req : reqs[q].op = "none"
  BY NoReqType DEF Init
<1> QED
  BY <1>1, <1>2 DEF Init, IInv, Places, OneAccount, Versions, Passwords, Sessions

-----------------------------------------------------------------------------
\* One request moves, and the tables stay: what it holds afterwards decides.
LEMMA QuietMove ==
    ASSUME IInv, NEW q \in Req, NEW r \in Reqs, Move(q, r),
           UNCHANGED <<users, tokens, time, history>>,
           arrivals' \in 0..MaxArrivals, lock' \in Req \union {None},
           \A p \in Req : p # q /\ reqs[p].op = "insert" => lock' = p,
           r.op # "none" => r.user \in User,
           r.op = "insert" => /\ lock' = q /\ users = {}
                              /\ r.tok \in Token /\ r.tok.pw = r.user.pw /\ r.tok.ver = r.user.ver,
           r.op \in Sessions => users # {},
           \A u \in users : r.op \in Sessions /\ "version" \notin crossed => r.user.ver <= u.ver,
           \A u \in users : r.op = "login" /\ ~r.stale /\ "password" \notin crossed => r.user.pw = u.pw
    PROVE  IInv'
<1>1. /\ reqs' \in [Req -> Reqs] /\ reqs'[q] = r
      /\ \A p \in Req : p # q => reqs'[p] = reqs[p]
  BY Moved DEF IInv, TypeOK
<1>2. TypeOK'
  BY <1>1 DEF IInv, TypeOK, time, history
<1>3. Places'
  BY <1>1 DEF IInv, Places, time, history
<1>4. OneAccount'
  BY DEF IInv, OneAccount
<1>5. Versions'
  BY <1>1 DEF IInv, Versions, time, history
<1>6. Passwords'
  BY <1>1 DEF IInv, Passwords, time, history
<1> QED
  BY <1>2, <1>3, <1>4, <1>5, <1>6 DEF IInv

\* A request that is gone holds nothing.
LEMMA Ended ==
    ASSUME IInv, NEW q \in Req, Move(q, NoReq), UNCHANGED <<users, tokens, time, history>>,
           arrivals' = arrivals, lock' \in {lock, None}, lock = q \/ lock' = lock
    PROVE  IInv'
<1>1. lock' \in Req \union {None} /\ arrivals' \in 0..MaxArrivals
  BY DEF IInv, TypeOK
<1>2. \A p \in Req : p # q /\ reqs[p].op = "insert" => lock' = p
  BY DEF IInv, Places
<1> QED
  BY <1>1, <1>2, NoReqType, QuietMove DEF Sessions

\* A registration arrives, with the row it is going to make.
LEMMA BeginRegisterInv ==
    ASSUME IInv, NEW q \in Req, NEW n \in Name, NEW p \in Pw, BeginRegister(q, n, p)
    PROVE  IInv'
<1> DEFINE u == [name |-> n, pw |-> p, ver |-> 1, changed |-> 0]
           r == Fresh("register", u)
<1>1. u \in User
  BY DEF User
<1>2. r \in Reqs /\ r.op = "register" /\ r.user = u
  BY <1>1, Started DEF Starting
<1>3. arrivals' \in 0..MaxArrivals
  BY ConstantsAssumption DEF BeginRegister, Arrive, IInv, TypeOK
<1>4. Move(q, r) /\ UNCHANGED <<users, lock, tokens, time, history>>
  BY DEF BeginRegister, Fresh
<1>5. lock' \in Req \union {None} /\ \A s \in Req : s # q /\ reqs[s].op = "insert" => lock' = s
  BY <1>4 DEF IInv, TypeOK, Places
<1> HIDE DEF r, u
<1> QED
  BY <1>1, <1>2, <1>3, <1>4, <1>5, QuietMove DEF Sessions

\* The registration that gets the lock inserts into an empty table.
LEMMA RegisterInv ==
    ASSUME IInv, NEW q \in Req, Register(q)
    PROVE  IInv'
<1> DEFINE r == [reqs[q] EXCEPT !.op = "insert", !.tok = Issued(reqs[q].user)]
<1>1. reqs[q] \in Reqs /\ reqs[q].user \in User /\ clock \in Nat /\ secret \in Nat
  BY DEF Register, IInv, TypeOK, Places
<1>2. /\ Issued(reqs[q].user) \in Token /\ Issued(reqs[q].user).ver = reqs[q].user.ver
      /\ Issued(reqs[q].user).pw = reqs[q].user.pw
  BY <1>1, IssuedType
<1>3. r \in Reqs /\ r.op = "insert" /\ r.user = reqs[q].user /\ r.tok = Issued(reqs[q].user)
  BY <1>1, <1>2 DEF Reqs
<1>4. \A p \in Req : reqs[p].op # "insert"
  BY ConstantsAssumption DEF Register, IInv, Places
<1>5. /\ Move(q, r) /\ lock' = q /\ users = {} /\ arrivals' \in 0..MaxArrivals
      /\ UNCHANGED <<users, tokens, time, history>>
  BY DEF Register, IInv, TypeOK
<1> HIDE DEF r
<1> QED
  BY <1>1, <1>2, <1>3, <1>4, <1>5, QuietMove DEF Sessions

\* A login reads the account's row.
LEMMA BeginLoginInv ==
    ASSUME IInv, NEW q \in Req, NEW u \in users, BeginLogin(q, u)
    PROVE  IInv'
<1> DEFINE r == Fresh("login", u)
<1>1. u \in User /\ \A v \in users : v = u
  BY DEF IInv, TypeOK, OneAccount
<1>2. r \in Reqs /\ r.op = "login" /\ r.user = u
  BY <1>1, Started DEF Starting
<1>3. arrivals' \in 0..MaxArrivals
  BY ConstantsAssumption DEF BeginLogin, Arrive, IInv, TypeOK
<1>4. Move(q, r) /\ UNCHANGED <<users, lock, tokens, time, history>>
  BY DEF BeginLogin, Fresh
<1>5. lock' \in Req \union {None} /\ \A s \in Req : s # q /\ reqs[s].op = "insert" => lock' = s
  BY <1>4 DEF IInv, TypeOK, Places
<1>6. u.ver <= u.ver
  BY <1>1 DEF User
<1> HIDE DEF r
<1> QED
  BY <1>1, <1>2, <1>3, <1>4, <1>5, <1>6, QuietMove DEF Sessions

\* A request with a good token reads the account's row.
LEMMA BeginSessionInv ==
    ASSUME IInv, NEW q \in Req, NEW op \in {"change", "logout"}, NEW t \in tokens, NEW u \in users,
           BeginSession(q, op, t, u)
    PROVE  IInv'
<1> DEFINE r == Fresh(op, u)
<1>1. u \in User /\ \A v \in users : v = u
  BY DEF IInv, TypeOK, OneAccount
<1>2. r \in Reqs /\ r.op = op /\ r.user = u
  <2>1. op \in Starting
    BY DEF Starting
  <2> QED
    BY <1>1, <2>1, Started
<1>3. arrivals' \in 0..MaxArrivals
  BY ConstantsAssumption DEF BeginSession, Arrive, IInv, TypeOK
<1>4. Move(q, r) /\ UNCHANGED <<users, lock, tokens, time, history>>
  BY DEF BeginSession, Fresh
<1>5. lock' \in Req \union {None} /\ \A s \in Req : s # q /\ reqs[s].op = "insert" => lock' = s
  BY <1>4 DEF IInv, TypeOK, Places
<1>6. u.ver <= u.ver
  BY <1>1 DEF User
<1> HIDE DEF r
<1> QED
  BY <1>1, <1>2, <1>3, <1>4, <1>5, <1>6, QuietMove DEF Sessions

\* What change_password leaves in the request: the row it read, with another
\* password and time.
LEMMA Changed ==
    ASSUME NEW s \in Reqs, s.user \in User, NEW p \in Pw, NEW c \in Nat
    PROVE  LET r == [s EXCEPT !.op = "write", !.user.pw = p, !.user.changed = c] IN
           r \in Reqs /\ r.op = "write" /\ r.user \in User /\ r.user.ver = s.user.ver
<1> DEFINE v == [s.user EXCEPT !.pw = p, !.changed = c]
           w == [s EXCEPT !.op = "write", !.user = v]
<1>1. v \in User /\ v.ver = s.user.ver
  BY DEF User
<1>2. [s EXCEPT !.op = "write", !.user.pw = p, !.user.changed = c] = w
  BY DEF Reqs
<1> HIDE DEF v
<1>3. w \in Reqs /\ w.op = "write" /\ w.user = v
  BY <1>1, ZenonT(60) DEF Reqs
<1> HIDE DEF w
<1> QED
  BY <1>1, <1>2, <1>3

\* change_password prepares the row; nothing is written yet.
LEMMA ChangeInv ==
    ASSUME IInv, NEW q \in Req, NEW p \in Pw, Change(q, p)
    PROVE  IInv'
<1> DEFINE r == [reqs[q] EXCEPT !.op = "write", !.user.pw = p, !.user.changed = clock]
<1>1. reqs[q] \in Reqs /\ reqs[q].user \in User /\ clock \in Nat /\ reqs[q].op = "change"
  BY DEF Change, IInv, TypeOK, Places
<1>2. r \in Reqs /\ r.op = "write" /\ r.user \in User /\ r.user.ver = reqs[q].user.ver
  BY <1>1, Changed
<1>3. Move(q, r) /\ UNCHANGED <<users, lock, tokens, time, arrivals, history>>
  BY DEF Change
<1>4. /\ lock' \in Req \union {None} /\ arrivals' \in 0..MaxArrivals
      /\ \A s \in Req : s # q /\ reqs[s].op = "insert" => lock' = s
  BY <1>3 DEF IInv, TypeOK, Places
<1>5. /\ users # {}
      /\ \A u \in users : "version" \notin crossed => reqs[q].user.ver <= u.ver
  BY <1>1 DEF IInv, Places, Versions, Sessions
<1> HIDE DEF r
<1> QED
  BY <1>2, <1>3, <1>4, <1>5, QuietMove DEF Sessions

-----------------------------------------------------------------------------
\* The first account: nobody was registered, so nobody has a token or a session.
LEMMA CommitRegisterInv ==
    ASSUME IInv, NEW q \in Req, CommitRegister(q)
    PROVE  IInv'
<1> DEFINE u == reqs[q].user
<1>1. /\ u \in User /\ reqs[q].tok \in Token /\ reqs[q].tok.pw = u.pw /\ reqs[q].tok.ver = u.ver
      /\ users = {} /\ tokens = {} /\ loggedOut = {} /\ lock = q
      /\ \A p \in Req : reqs[p].op \notin Sessions
  BY DEF CommitRegister, IInv, Places
<1>2. \A p \in Req : p # q => reqs[p].op # "insert"
  BY <1>1 DEF IInv, Places
<1>3. /\ users' = {u} /\ tokens' = {reqs[q].tok} /\ lock' = None
      /\ UNCHANGED <<time, arrivals, history>>
  BY <1>1 DEF CommitRegister
<1>4. /\ reqs' \in [Req -> Reqs] /\ reqs'[q] = NoReq
      /\ \A p \in Req : p # q => reqs'[p] = reqs[p]
  BY Moved, NoReqType DEF CommitRegister, IInv, TypeOK
<1>5. \A p \in Req : reqs'[p].op \notin Sessions \union {"insert"}
  BY <1>1, <1>2, <1>4, NoReqType DEF Sessions
<1>6. TypeOK'
  BY <1>1, <1>3, <1>4 DEF IInv, TypeOK, time, history
<1>7. Places'
  <2>1. \A p \in Req : reqs'[p].op # "none" => reqs'[p].user \in User
    BY <1>4, NoReqType DEF IInv, Places
  <2> QED
    BY <1>3, <1>5, <2>1 DEF Places
<1>8. OneAccount'
  BY <1>3 DEF OneAccount
<1>9. Versions'
  <2>1. reqs[q].tok.ver <= u.ver
    BY <1>1 DEF User
  <2>2. loggedOut' = {}
    BY <1>1, <1>3 DEF history
  <2> QED
    BY <1>3, <1>5, <2>1, <2>2 DEF Versions
<1>10. Passwords'
  BY <1>1, <1>3, <1>5 DEF Passwords, Sessions
<1> QED
  BY <1>6, <1>7, <1>8, <1>9, <1>10 DEF IInv

\* The token is of the row the login read.
LEMMA LoginInv ==
    ASSUME IInv, NEW q \in Req, Login(q)
    PROVE  IInv'
<1> DEFINE tok == Issued(reqs[q].user)
<1>1. reqs[q].op = "login" /\ reqs[q].user \in User /\ users # {}
  BY DEF Login, IInv, Places, Sessions
<1>2. tok \in Token /\ tok.ver = reqs[q].user.ver /\ tok.pw = reqs[q].user.pw
  BY <1>1, IssuedType DEF IInv, TypeOK
<1>3. /\ tokens' = tokens \union {tok}
      /\ raced' = IF reqs[q].stale THEN raced \union {tok} ELSE raced
      /\ UNCHANGED <<users, lock, time, arrivals, loggedOut, crossed>>
  BY DEF Login
<1>4. /\ reqs' \in [Req -> Reqs] /\ reqs'[q] = NoReq
      /\ \A p \in Req : p # q => reqs'[p] = reqs[p]
  BY Moved, NoReqType DEF Login, IInv, TypeOK
<1> HIDE DEF tok
<1>5. TypeOK'
  <2>1. tokens' \in SUBSET Token /\ raced' \in SUBSET Token
    BY <1>2, <1>3 DEF IInv, TypeOK
  <2> QED
    BY <1>3, <1>4, <2>1 DEF IInv, TypeOK, time
<1>6. Places'
  BY <1>1, <1>3, <1>4, NoReqType DEF IInv, Places
<1>7. OneAccount'
  BY <1>3 DEF IInv, OneAccount
<1>8. Versions'
  <2> SUFFICES ASSUME "version" \notin crossed, NEW u \in users
               PROVE  /\ \A t \in tokens' : t.ver <= u.ver
                      /\ \A t \in loggedOut : t.ver < u.ver
                      /\ \A p \in Req : reqs'[p].op \in Sessions => reqs'[p].user.ver <= u.ver
    BY <1>3 DEF Versions
  <2>1. reqs[q].user.ver <= u.ver
    BY <1>1 DEF IInv, Versions, Sessions
  <2> QED
    BY <1>2, <1>3, <1>4, <2>1, NoReqType DEF IInv, Versions, Sessions
<1>9. Passwords'
  <2> SUFFICES ASSUME "password" \notin crossed, NEW u \in users
               PROVE  /\ \A t \in tokens' : t.iat >= u.changed => t.pw = u.pw \/ t \in raced'
                      /\ \A p \in Req : reqs'[p].op = "login" /\ ~reqs'[p].stale
                                            => reqs'[p].user.pw = u.pw
    BY <1>3 DEF Passwords
  <2>1. tok.pw = u.pw \/ tok \in raced'
    BY <1>1, <1>2, <1>3 DEF IInv, Passwords
  <2>2. \A t \in tokens : t.iat >= u.changed => t.pw = u.pw \/ t \in raced'
    BY <1>3 DEF IInv, Passwords
  <2>3. \A p \in Req : reqs'[p].op = "login" /\ ~reqs'[p].stale => reqs'[p].user.pw = u.pw
    BY <1>4, NoReqType DEF IInv, Passwords
  <2> QED
    BY <1>3, <2>1, <2>2, <2>3
<1> QED
  BY <1>5, <1>6, <1>7, <1>8, <1>9 DEF IInv

\* Every token that the new time lets pass counts as issued during the change,
\* and every login in flight has read the row before it.
LEMMA CommitChangeInv ==
    ASSUME IInv, NEW q \in Req, CommitChange(q)
    PROVE  IInv'
<1> DEFINE w == reqs[q].user
<1>1. PICK u \in Of(q) :
         LET v == [u EXCEPT !.pw = w.pw, !.changed = w.changed] IN
         /\ Replace(u, v)
         /\ raced' = raced \union {t \in tokens : t.iat >= v.changed}
         /\ crossed' = IF v.changed < u.changed THEN crossed \union {"password"} ELSE crossed
  BY DEF CommitChange
<1> DEFINE v == [u EXCEPT !.pw = w.pw, !.changed = w.changed]
<1>2. u \in users /\ u \in User /\ w \in User
  BY <1>1 DEF Of, CommitChange, IInv, TypeOK, Places
<1>3. v \in User /\ v.ver = u.ver /\ v.pw = w.pw /\ v.changed = w.changed
  BY <1>2 DEF User
<1>4. /\ users = {u} /\ users' = {v}
      /\ raced' = raced \union {t \in tokens : t.iat >= v.changed}
      /\ crossed' \in {crossed, crossed \union {"password"}}
      /\ UNCHANGED <<lock, tokens, time, arrivals, loggedOut>>
  BY <1>1, <1>2, Alone DEF IInv, CommitChange
<1> HIDE DEF v, w
<1>5. \A p \in Req :
        /\ reqs'[p] \in Reqs
        /\ reqs'[p].op \in {reqs[p].op, "none"}
        /\ reqs'[p].op = "login" => reqs'[p].stale
        /\ reqs'[p].op # "none" => reqs'[p].user = reqs[p].user /\ reqs'[p].tok = reqs[p].tok
  <2> TAKE p \in Req
  <2>1. reqs[p] \in Reqs
    BY DEF IInv, TypeOK
  <2>2. CASE p = q
    BY <2>2, NoReqType DEF CommitChange
  <2>3. CASE p # q /\ reqs[p].op = "login"
    <3>1. reqs'[p] = [reqs[p] EXCEPT !.stale = TRUE]
      BY <2>3 DEF CommitChange
    <3>2. [reqs[p] EXCEPT !.stale = TRUE] \in Reqs
      BY <2>1, ZenonT(60) DEF Reqs
    <3> QED
      BY <2>1, <2>3, <3>1, <3>2 DEF Reqs
  <2>4. CASE p # q /\ reqs[p].op # "login"
    BY <2>1, <2>4 DEF CommitChange
  <2> QED
    BY <2>2, <2>3, <2>4
<1>6. TypeOK'
  <2>1. reqs' \in [Req -> Reqs]
    BY <1>5 DEF CommitChange
  <2>2. raced' \in SUBSET Token /\ crossed' \in SUBSET {"password", "version"}
    BY <1>4 DEF IInv, TypeOK
  <2>3. users' \in SUBSET User
    BY <1>3, <1>4
  <2> QED
    BY <1>4, <2>1, <2>2, <2>3 DEF IInv, TypeOK, time
<1>7. Places'
  <2>1. \A p \in Req : reqs'[p].op # "none" => reqs'[p].user \in User
    BY <1>5 DEF IInv, Places
  <2>2. \A p \in Req : reqs'[p].op # "insert"
    BY <1>4, <1>5 DEF IInv, Places
  <2> QED
    BY <1>4, <2>1, <2>2 DEF Places
<1>8. OneAccount'
  BY <1>4 DEF OneAccount
<1>9. Versions'
  <2> SUFFICES ASSUME "version" \notin crossed'
               PROVE  /\ \A t \in tokens : t.ver <= v.ver
                      /\ \A t \in loggedOut : t.ver < v.ver
                      /\ \A p \in Req : reqs'[p].op \in Sessions => reqs'[p].user.ver <= v.ver
    BY <1>4 DEF Versions
  <2>1. "version" \notin crossed
    BY <1>4
  <2>2. /\ \A t \in tokens : t.ver <= u.ver
        /\ \A t \in loggedOut : t.ver < u.ver
        /\ \A p \in Req : reqs[p].op \in Sessions => reqs[p].user.ver <= u.ver
    BY <1>2, <2>1 DEF IInv, Versions
  <2>3. \A p \in Req : reqs'[p].op \in Sessions => reqs'[p].user.ver <= u.ver
    BY <1>5, <2>2 DEF Sessions
  <2> QED
    BY <1>3, <2>2, <2>3
<1>10. Passwords'
  <2>1. \A t \in tokens : t.iat >= v.changed => t \in raced'
    BY <1>4
  <2>2. tokens' = tokens /\ \A x \in users' : x = v
    BY <1>4
  <2> QED
    BY <1>5, <2>1, <2>2 DEF Passwords
<1> QED
  BY <1>6, <1>7, <1>8, <1>9, <1>10 DEF IInv

\* Unless another logout came between, the new version is above every token's.
LEMMA CommitLogoutInv ==
    ASSUME IInv, NEW q \in Req, CommitLogout(q)
    PROVE  IInv'
<1> DEFINE w == reqs[q].user
<1>1. PICK u \in Of(q) :
         /\ Replace(u, [u EXCEPT !.ver = w.ver + 1])
         /\ crossed' = IF w.ver # u.ver THEN crossed \union {"version"} ELSE crossed
  BY DEF CommitLogout
<1> DEFINE v == [u EXCEPT !.ver = w.ver + 1]
<1>2. u \in users /\ u \in User /\ w \in User
  BY <1>1 DEF Of, CommitLogout, IInv, TypeOK, Places
<1>3. v \in User /\ v.ver = w.ver + 1 /\ v.pw = u.pw /\ v.changed = u.changed
  BY <1>2 DEF User
<1>4. /\ users = {u} /\ users' = {v}
      /\ crossed' = IF w.ver # u.ver THEN crossed \union {"version"} ELSE crossed
      /\ loggedOut' = loggedOut \union tokens
      /\ UNCHANGED <<lock, tokens, time, arrivals, raced>>
  BY <1>1, <1>2, Alone DEF IInv, CommitLogout
<1> HIDE DEF v, w
<1>5. /\ reqs' \in [Req -> Reqs] /\ reqs'[q] = NoReq
      /\ \A p \in Req : p # q => reqs'[p] = reqs[p]
  BY Moved, NoReqType DEF CommitLogout, IInv, TypeOK
<1>6. TypeOK'
  <2>1. loggedOut' \in SUBSET Token /\ crossed' \in SUBSET {"password", "version"}
    BY <1>4 DEF IInv, TypeOK
  <2>2. users' \in SUBSET User
    BY <1>3, <1>4
  <2> QED
    BY <1>4, <1>5, <2>1, <2>2 DEF IInv, TypeOK, time
<1>7. Places'
  BY <1>4, <1>5, NoReqType DEF IInv, Places
<1>8. OneAccount'
  BY <1>4 DEF OneAccount
<1>9. Versions'
  <2> SUFFICES ASSUME "version" \notin crossed'
               PROVE  /\ \A t \in tokens : t.ver <= v.ver
                      /\ \A t \in loggedOut' : t.ver < v.ver
                      /\ \A p \in Req : reqs'[p].op \in Sessions => reqs'[p].user.ver <= v.ver
    BY <1>4 DEF Versions
  <2>1. "version" \notin crossed /\ w.ver = u.ver /\ u.ver \in Nat
    BY <1>2, <1>4 DEF User
  <2>2. v.ver = u.ver + 1
    BY <1>3, <2>1
  <2>3. \A t \in tokens \union loggedOut : t.ver \in Nat
    BY DEF IInv, TypeOK, Token
  <2>4. \A t \in tokens : t.ver < v.ver
    BY <1>2, <2>1, <2>2, <2>3 DEF IInv, Versions
  <2>5. \A t \in loggedOut : t.ver < v.ver
    BY <1>2, <2>1, <2>2, <2>3 DEF IInv, Versions
  <2>6. \A p \in Req : reqs[p].op \in Sessions => reqs[p].user.ver <= u.ver /\ reqs[p].user.ver \in Nat
    BY <1>2, <2>1 DEF IInv, Versions, Places, User, Sessions
  <2>7. \A p \in Req : reqs'[p].op \in Sessions => reqs'[p].user.ver <= v.ver
    BY <1>5, <2>1, <2>2, <2>6, NoReqType DEF Sessions
  <2>8. \A t \in tokens : t.ver <= v.ver
    BY <2>1, <2>2, <2>3, <2>4
  <2>9. \A t \in loggedOut' : t.ver < v.ver
    BY <1>4, <2>4, <2>5
  <2> QED
    BY <2>7, <2>8, <2>9
<1>10. Passwords'
  BY <1>2, <1>3, <1>4, <1>5, NoReqType DEF IInv, Passwords
<1> QED
  BY <1>6, <1>7, <1>8, <1>9, <1>10 DEF IInv

\* Time alone changes nothing that IInv speaks of.
LEMMA TickInv ==
    ASSUME IInv, Tick
    PROVE  IInv'
<1>1. TypeOK'
  BY DEF Tick, IInv, TypeOK, history
<1>2. Places' /\ OneAccount' /\ Versions' /\ Passwords'
  BY DEF Tick, IInv, Places, OneAccount, Versions, Passwords, history
<1> QED
  BY <1>1, <1>2 DEF IInv

\* Nothing is in flight after a restart.
LEMMA RestartInv ==
    ASSUME IInv, NEW k, Restart(k)
    PROVE  IInv'
<1>1. /\ \A p \in Req : reqs'[p] = NoReq
      /\ reqs' \in [Req -> Reqs]
  BY NoReqType DEF Restart
<1>2. TypeOK'
  BY <1>1, ConstantsAssumption DEF Restart, IInv, TypeOK, history
<1>3. Places' /\ OneAccount'
  BY <1>1, NoReqType DEF Restart, IInv, Places, OneAccount, Sessions, history
<1>4. Versions' /\ Passwords'
  BY <1>1, NoReqType DEF Restart, IInv, Versions, Passwords, Sessions, history
<1> QED
  BY <1>2, <1>3, <1>4 DEF IInv

-----------------------------------------------------------------------------
\* Every step keeps IInv.
LEMMA StepInv == IInv /\ [Next]_vars => IInv'
<1> SUFFICES ASSUME IInv, [Next]_vars PROVE IInv'
  OBVIOUS
<1>1. ASSUME NEW q \in Req, RegisterRefused(q) \/ Dies(q) PROVE IInv'
  BY <1>1, Ended DEF RegisterRefused, Dies
<1>2. ASSUME NEW q \in Req, NEW n \in Name, NEW p \in Pw, BeginRegister(q, n, p) PROVE IInv'
  BY <1>2, BeginRegisterInv
<1>3. ASSUME NEW q \in Req, Register(q) \/ CommitRegister(q) PROVE IInv'
  BY <1>3, RegisterInv, CommitRegisterInv
<1>4. ASSUME NEW q \in Req, NEW u \in users, BeginLogin(q, u) PROVE IInv'
  BY <1>4, BeginLoginInv
<1>5. ASSUME NEW q \in Req, NEW op \in {"change", "logout"}, NEW t \in tokens, NEW u \in users,
             BeginSession(q, op, t, u)
      PROVE IInv'
  BY <1>5, BeginSessionInv
<1>6. ASSUME NEW q \in Req, NEW p \in Pw, Change(q, p) PROVE IInv'
  BY <1>6, ChangeInv
<1>7. ASSUME NEW q \in Req, Login(q) \/ CommitChange(q) \/ CommitLogout(q) PROVE IInv'
  BY <1>7, LoginInv, CommitChangeInv, CommitLogoutInv
<1>8. ASSUME NEW k \in {secret, secret + 1}, Restart(k) PROVE IInv'
  BY <1>8, RestartInv
<1>9. CASE UNCHANGED vars
  <2>1. TypeOK' /\ Places' /\ OneAccount'
    BY <1>9 DEF IInv, vars, TypeOK, Places, OneAccount
  <2>2. Versions' /\ Passwords'
    BY <1>9 DEF IInv, vars, Versions, Passwords
  <2> QED
    BY <2>1, <2>2 DEF IInv
<1> QED
  BY <1>1, <1>2, <1>3, <1>4, <1>5, <1>6, <1>7, <1>8, <1>9, TickInv DEF Next

\* The invariant holds of every behaviour.
THEOREM Invariance == Spec => []IInv
  BY InitInv, StepInv, PTL DEF Spec

\* Types, for any constants.
THEOREM TypeCorrect == Spec => []TypeOK
<1>1. IInv => TypeOK
  BY DEF IInv
<1> QED
  BY <1>1, Invariance, PTL

\* However many registrations race, the deployment has one account.
THEOREM OneAccountHolds == Spec => []OneAccount
<1>1. IInv => OneAccount
  BY DEF IInv
<1> QED
  BY <1>1, Invariance, PTL

\* A token that existed at a logout is never good again, if no two logouts
\* crossed: its version is below the account's.
THEOREM LogoutFinal == Spec => []LogoutIsFinal
<1>1. IInv => LogoutIsFinal
  <2> SUFFICES ASSUME IInv, "version" \notin crossed, NEW t \in loggedOut, NEW u \in users, Good(t, u)
               PROVE  FALSE
    BY DEF LogoutIsFinal, Accepted
  <2>1. t.ver < u.ver /\ u.ver \in Nat
    BY DEF IInv, Versions, TypeOK, User
  <2> QED
    BY <2>1 DEF Good
<1> QED
  BY <1>1, Invariance, PTL

\* A session opened with another password is refused, unless it was opened
\* while the password was being changed.
THEOREM OldPasswordOut == Spec => []OldPasswordIsOut
<1>1. IInv => OldPasswordIsOut
  BY DEF IInv, Passwords, OldPasswordIsOut, Good
<1> QED
  BY <1>1, Invariance, PTL
-----------------------------------------------------------------------------
\* The passages of a name have its text among them, or they are the files of a
\* skill whose text was not copied.
Copied(kind, name) == Memory!HasText(kind, name) \/ (kind = "skills" /\ name \in headless)

\* What a search for a skill or a lesson may find.
Found(kind, name) == Copied(kind, name) \/ Memory!Mistakable(kind, name)

\* A preparation, and what it holds at each of its calls.
Preparation ==
    [phase : {"idle", "next", "create", "files", "file"}, todo : SUBSET Memory!Item,
     item : Memory!Item \union {None}, parts : SUBSET Part, part : Part \union {None},
     reported : SUBSET (Memory!Kinds \X SkillName)]
Holding(w) ==
    /\ w \in Preparation
    /\ w.phase \in {"create", "files", "file"} => w.item \in Memory!Item
    /\ w.phase \in {"files", "file"} => w.item.kind = "skills"
    /\ w.phase = "file" => w.part \in Part

\* What it reports was copied, or can be mistaken for something that was.
Known(w) == \A r \in w.reported : Found(r[1], r[2])

\* It has found nothing of what it is about to copy.
Missing(w) ==
    /\ w.phase = "create" => ~Memory!Present(w.item.kind, w.item.name, None)
    /\ w.phase = "file" => ~Memory!Present("skills", w.item.name, w.part)

Once ==
    /\ \A m \in memory : m.copy = 1
    /\ \A q, r \in Prep : prep[q].phase # "idle" /\ prep[r].phase # "idle" => q = r
    /\ \A q \in Prep : Missing(prep[q])

MemoryInv ==
    /\ Memory!TypeOK /\ IsFiniteSet(memory)
    /\ \A m \in memory : Copied(m.kind, m.name)
    /\ \A q \in Prep : Holding(prep[q]) /\ Known(prep[q])
    /\ blind \/ overlap \/ Once

\* The instances count as the module FiniteSets does.
LEMMA SameCardinality ==
    \A S : Memory!Cardinality(S) = Cardinality(S) /\ Evals!Cardinality(S) = Cardinality(S)
  BY DEF Memory!Cardinality, Evals!Cardinality, Cardinality

LEMMA MemoryInit == Memory!Init => MemoryInv
<1> SUFFICES ASSUME Memory!Init PROVE MemoryInv
  OBVIOUS
<1>1. Memory!NoPrep \in Preparation /\ Memory!NoPrep.phase = "idle" /\ Memory!NoPrep.reported = {}
  BY DEF Memory!NoPrep, Preparation
<1>2. \A q \in Prep : prep[q] = Memory!NoPrep
  BY DEF Memory!Init
<1>3. Memory!TypeOK
  BY <1>1 DEF Memory!Init, Memory!TypeOK, Preparation, Memory!NoRequest
<1>4. \A q \in Prep : Holding(prep[q]) /\ Known(prep[q])
  BY <1>1, <1>2 DEF Holding, Known
<1>5. memory = {} /\ IsFiniteSet(memory)
  BY FS_EmptySet DEF Memory!Init
<1>6. blind = FALSE /\ overlap = FALSE /\ Once
  BY <1>1, <1>2, <1>5 DEF Memory!Init, Once, Missing
<1> QED
  BY <1>3, <1>4, <1>5, <1>6 DEF MemoryInv

\* A passage that Letta is asked to add.
NewPassage(kind, name, pth, text) ==
    [kind |-> kind, name |-> name, part |-> pth, text |-> text,
     copy |-> Cardinality(Memory!Copies(kind, name, pth)) + 1]

LEMMA NewPassageType ==
    ASSUME IsFiniteSet(memory), NEW kind \in Memory!Kinds, NEW name \in SkillName,
           NEW pth \in Part \union {None}, NEW text \in Text \union {None}
    PROVE  /\ NewPassage(kind, name, pth, text) \in Memory!Passage
           /\ NewPassage(kind, name, pth, text).kind = kind
           /\ NewPassage(kind, name, pth, text).name = name
           /\ NewPassage(kind, name, pth, text).part = pth
           /\ Memory!Copies(kind, name, pth) = {} => NewPassage(kind, name, pth, text).copy = 1
<1> DEFINE n == Cardinality(Memory!Copies(kind, name, pth)) + 1
<1>1. IsFiniteSet(Memory!Copies(kind, name, pth))
  BY FS_Subset DEF Memory!Copies
<1>2. n \in Nat
  BY <1>1, FS_CardinalityType
<1>3. Memory!Copies(kind, name, pth) = {} => n = 1
  BY FS_EmptySet
<1>4. NewPassage(kind, name, pth, text) =
        [kind |-> kind, name |-> name, part |-> pth, text |-> text, copy |-> n]
  BY DEF NewPassage
<1> HIDE DEF n
<1>5. [kind |-> kind, name |-> name, part |-> pth, text |-> text, copy |-> n] \in Memory!Passage
  BY <1>2, ZenonT(60) DEF Memory!Passage
<1>6. NewPassage(kind, name, pth, text) \in Memory!Passage
  BY <1>4, <1>5
<1>7. /\ NewPassage(kind, name, pth, text).kind = kind /\ NewPassage(kind, name, pth, text).name = name
      /\ NewPassage(kind, name, pth, text).part = pth /\ NewPassage(kind, name, pth, text).copy = n
  BY <1>4
<1> QED
  BY <1>3, <1>6, <1>7

\* The agent remembers one passage more, or none.
Adds(kind, name, pth) ==
    /\ memory \subseteq memory' /\ memory' \subseteq Memory!Passage /\ IsFiniteSet(memory')
    /\ \A m \in memory' \ memory : m.kind = kind /\ m.name = name
    /\ pth = None => Memory!HasText(kind, name)'
    /\ Memory!Copies(kind, name, pth) = {} => \A m \in memory' \ memory : m.copy = 1

LEMMA Inserting ==
    ASSUME Memory!TypeOK, IsFiniteSet(memory), NEW kind \in Memory!Kinds, NEW name \in SkillName,
           NEW pth \in Part \union {None}, NEW text \in Text \union {None},
           memory' = Memory!Inserted(kind, name, pth, text)
    PROVE  Adds(kind, name, pth)
<1> DEFINE m == NewPassage(kind, name, pth, text)
<1>1. /\ m \in Memory!Passage /\ m.kind = kind /\ m.name = name /\ m.part = pth
      /\ Memory!Copies(kind, name, pth) = {} => m.copy = 1
  BY NewPassageType
<1>2. memory' = memory \union {m}
  BY SameCardinality DEF Memory!Inserted, NewPassage
<1> HIDE DEF m
<1>3. memory' \subseteq Memory!Passage
  BY <1>1, <1>2 DEF Memory!TypeOK
<1>4. IsFiniteSet(memory')
  BY <1>2, FS_AddElement
<1>5. pth = None => Memory!HasText(kind, name)'
  BY <1>1, <1>2 DEF Memory!HasText, Memory!Copies
<1> QED
  BY <1>1, <1>2, <1>3, <1>4, <1>5 DEF Adds

\* What was copied stays copied.
LEMMA CopiedStays ==
    ASSUME memory \subseteq memory', headless \subseteq headless', NEW kind, NEW name, Copied(kind, name)
    PROVE  Copied(kind, name)'
  BY DEF Copied, Memory!HasText, Memory!Copies

LEMMA FoundStays ==
    ASSUME memory \subseteq memory', headless \subseteq headless', NEW kind, NEW name, Found(kind, name)
    PROVE  Found(kind, name)'
  BY CopiedStays DEF Found, Memory!Mistakable

\* A search finds a passage of that name, or one of another that has the tags.
LEMMA PresentIsFound ==
    ASSUME MemoryInv, NEW kind \in Memory!Kinds, NEW name, Memory!Present(kind, name, None)
    PROVE  Found(kind, name)
<1>1. PICK m \in memory : Memory!Tags(kind, name, None) \subseteq Memory!Tags(m.kind, m.name, m.part)
  BY DEF Memory!Present
<1>2. m.kind \in Memory!Kinds /\ Copied(m.kind, m.name)
  BY DEF MemoryInv, Memory!TypeOK, Memory!Passage
<1>3. kind \in {m.kind, m.name, "files", m.part} /\ name \in {m.kind, m.name, "files", m.part}
  BY <1>1 DEF Memory!Tags
<1>4. CASE name \in Memory!Kinds \union {"files"} \/ name = m.part
  BY <1>4 DEF Found, Memory!Mistakable
<1>5. CASE name = m.name /\ name \notin Memory!Kinds
  BY <1>2, <1>3, <1>5 DEF Found, Memory!Mistakable, Memory!Kinds
<1> QED
  BY <1>2, <1>3, <1>4, <1>5

\* One preparation moves on, whatever it adds to the memory.
LEMMA PrepStep ==
    ASSUME MemoryInv, NEW q \in Prep, NEW w, Memory!Move(q, w), UNCHANGED <<skills, tools, gh>>,
           Holding(w), Known(w)',
           memory \subseteq memory', memory' \subseteq Memory!Passage, IsFiniteSet(memory'),
           headless \subseteq headless', headless' \subseteq SkillName,
           \A m \in memory' \ memory : Copied(m.kind, m.name)',
           blind' \in BOOLEAN, overlap' \in BOOLEAN, blind => blind', overlap => overlap',
           ~blind' /\ ~overlap' =>
               /\ \A m \in memory' \ memory : m.copy = 1
               /\ Missing(w)'
               /\ \A r \in Prep : r # q => prep[r].phase = "idle"
    PROVE  MemoryInv'
<1>1. prep \in [Prep -> Preparation]
  BY DEF MemoryInv, Memory!TypeOK, Preparation
<1>2. prep'[q] = w /\ \A r \in Prep : r # q => prep'[r] = prep[r]
  BY <1>1 DEF Memory!Move
<1>3. prep' \in [Prep -> Preparation]
  BY <1>1 DEF Memory!Move, Holding
<1>4. Memory!TypeOK'
  BY <1>3 DEF MemoryInv, Memory!TypeOK, Preparation
<1>5. \A m \in memory' : Copied(m.kind, m.name)'
  BY CopiedStays DEF MemoryInv
<1>6. ASSUME NEW r \in Prep PROVE Holding(prep[r])' /\ Known(prep[r])'
  <2>1. CASE r = q
    BY <1>2, <2>1 DEF Holding, Known
  <2>2. CASE r # q
    <3>1. Holding(prep[r]) /\ Known(prep[r]) /\ prep'[r] = prep[r]
      BY <1>2, <2>2 DEF MemoryInv
    <3> QED
      BY <3>1, FoundStays DEF Holding, Known
  <2> QED
    BY <2>1, <2>2
<1>7. ASSUME ~blind', ~overlap' PROVE Once'
  <2>1. \A m \in memory' : m.copy = 1
    BY <1>7 DEF MemoryInv, Once
  <2>2. \A r \in Prep : prep'[r].phase # "idle" => r = q
    BY <1>2, <1>7
  <2>3. \A r \in Prep : r # q => Missing(prep[r])'
    BY <1>2, <1>7 DEF Missing
  <2>4. Missing(prep[q])'
    BY <1>2, <1>7 DEF Missing
  <2> QED
    BY <2>1, <2>2, <2>3, <2>4 DEF Once
<1> QED
  BY <1>4, <1>5, <1>6, <1>7 DEF MemoryInv

\* The same for a step that adds nothing.
LEMMA QuietPrep ==
    ASSUME MemoryInv, NEW q \in Prep, NEW w, Memory!Move(q, w),
           UNCHANGED <<skills, tools, gh, memory, headless>>,
           Holding(w), Known(w), blind' \in BOOLEAN, overlap' \in BOOLEAN,
           blind => blind', overlap => overlap',
           ~blind' /\ ~overlap' =>
               Missing(w) /\ \A r \in Prep : r # q => prep[r].phase = "idle"
    PROVE  MemoryInv'
<1>1. Known(w)'
  BY FoundStays DEF Known
<1>2. Missing(w) => Missing(w)'
  BY DEF Missing, Memory!Present
<1>3. memory' \subseteq Memory!Passage /\ IsFiniteSet(memory') /\ headless' \subseteq SkillName
  BY DEF MemoryInv, Memory!TypeOK
<1> QED
  BY <1>1, <1>2, <1>3, PrepStep

LEMMA Ours ==
    ASSUME MemoryInv, NEW q \in Prep
    PROVE  /\ prep[q] \in Preparation /\ Holding(prep[q]) /\ Known(prep[q])
           /\ blind \in BOOLEAN /\ overlap \in BOOLEAN
           /\ skills \in [Skill -> Memory!Row \union {None}] /\ headless \subseteq SkillName
           /\ memory \subseteq Memory!Passage /\ IsFiniteSet(memory)
  BY DEF MemoryInv, Holding, Memory!TypeOK

LEMMA OnlyOne ==
    ASSUME MemoryInv, NEW q \in Prep, prep[q].phase # "idle", ~blind, ~overlap
    PROVE  /\ \A r \in Prep : r # q => prep[r].phase = "idle"
           /\ Missing(prep[q])
  BY DEF MemoryInv, Once

\* The fields of a preparation that goes on.
LEMMA GoesOn ==
    ASSUME NEW w \in Preparation
    PROVE  /\ \A ph \in {"next", "files"}, td \in SUBSET Memory!Item : [w EXCEPT !.phase = ph, !.todo = td] \in Preparation
           /\ \A td \in SUBSET Memory!Item, rp \in SUBSET (Memory!Kinds \X SkillName) : [w EXCEPT !.todo = td, !.reported = rp] \in Preparation
           /\ \A td \in SUBSET Memory!Item, it \in Memory!Item : [w EXCEPT !.todo = td, !.item = it, !.phase = "create"] \in Preparation
           /\ \A ph \in {"next", "files"}, ps \in SUBSET Part, rp \in SUBSET (Memory!Kinds \X SkillName) : [w EXCEPT !.phase = ph, !.parts = ps, !.reported = rp] \in Preparation
           /\ \A ph \in {"next", "files"}, ps \in SUBSET Part : [w EXCEPT !.phase = ph, !.parts = ps] \in Preparation
           /\ \A ps \in SUBSET Part : [w EXCEPT !.parts = ps] \in Preparation
           /\ \A ps \in SUBSET Part, pt \in Part : [w EXCEPT !.parts = ps, !.part = pt, !.phase = "file"] \in Preparation
           /\ [w EXCEPT !.phase = "files", !.part = None] \in Preparation
           /\ [w EXCEPT !.phase = "next"] \in Preparation
<1>1. \A ph \in {"next", "files"}, td \in SUBSET Memory!Item : [w EXCEPT !.phase = ph, !.todo = td] \in Preparation
  BY ZenonT(60) DEF Preparation
<1>2. \A td \in SUBSET Memory!Item, rp \in SUBSET (Memory!Kinds \X SkillName) : [w EXCEPT !.todo = td, !.reported = rp] \in Preparation
  BY ZenonT(60) DEF Preparation
<1>3. \A td \in SUBSET Memory!Item, it \in Memory!Item : [w EXCEPT !.todo = td, !.item = it, !.phase = "create"] \in Preparation
  BY ZenonT(60) DEF Preparation
<1>4. \A ph \in {"next", "files"}, ps \in SUBSET Part, rp \in SUBSET (Memory!Kinds \X SkillName) : [w EXCEPT !.phase = ph, !.parts = ps, !.reported = rp] \in Preparation
  BY ZenonT(60) DEF Preparation
<1>5. \A ph \in {"next", "files"}, ps \in SUBSET Part : [w EXCEPT !.phase = ph, !.parts = ps] \in Preparation
  BY ZenonT(60) DEF Preparation
<1>6. \A ps \in SUBSET Part : [w EXCEPT !.parts = ps] \in Preparation
  BY ZenonT(60) DEF Preparation
<1>7. \A ps \in SUBSET Part, pt \in Part : [w EXCEPT !.parts = ps, !.part = pt, !.phase = "file"] \in Preparation
  BY ZenonT(60) DEF Preparation
<1>8. [w EXCEPT !.phase = "files", !.part = None] \in Preparation
  BY ZenonT(60) DEF Preparation
<1>9. [w EXCEPT !.phase = "next"] \in Preparation
  BY ZenonT(60) DEF Preparation
<1> QED
  BY <1>1, <1>2, <1>3, <1>4, <1>5, <1>6, <1>7, <1>8, <1>9

LEMMA ItemsType ==
    ASSUME MemoryInv, NEW ss \in SUBSET Memory!Rows, NEW ls \in SUBSET Lesson
    PROVE  Memory!Items(ss, ls) \subseteq Memory!Item
<1>1. ASSUME NEW s \in ss
      PROVE  [kind |-> "skills", name |-> skills[s].name, id |-> s, text |-> skills[s].text] \in Memory!Item
  <2>1. s \in Skill /\ skills[s] \in Memory!Row
    BY <1>1 DEF MemoryInv, Memory!TypeOK, Memory!Rows
  <2>2. skills[s].name \in SkillName /\ skills[s].text \in Text
    BY <2>1 DEF Memory!Row
  <2> QED
    BY <2>1, <2>2 DEF Memory!Item, Memory!Kinds
<1>2. ASSUME NEW l \in ls
      PROVE  [kind |-> "lessons", name |-> l.name, id |-> None, text |-> l.text] \in Memory!Item
  <2>1. l.name \in SkillName /\ l.text \in Text
    BY <1>2, MemoryAssumption
  <2> QED
    BY <2>1 DEF Memory!Item, Memory!Kinds
<1> QED
  BY <1>1, <1>2 DEF Memory!Items

LEMMA BeginsPrep ==
    ASSUME MemoryInv, NEW q \in Prep, NEW ss \in SUBSET Skill, NEW ls \in SUBSET Lesson,
           Memory!BeginPrep(q, ss, ls)
    PROVE  MemoryInv'
<1> DEFINE w == [Memory!NoPrep EXCEPT !.phase = "next", !.todo = Memory!Items(ss, ls)]
<1>1. Memory!Items(ss, ls) \subseteq Memory!Item
  BY ItemsType DEF Memory!BeginPrep
<1>2. Memory!NoPrep \in Preparation /\ Memory!NoPrep.reported = {}
  BY DEF Memory!NoPrep, Preparation
<1>3. w \in Preparation /\ w.phase = "next" /\ w.reported = {}
  <2>1. w \in Preparation
    BY <1>1, <1>2, GoesOn
  <2> QED
    BY <1>2, <2>1 DEF Preparation
<1>4. Memory!Move(q, w) /\ UNCHANGED <<skills, tools, gh, memory, headless, blind>>
  BY DEF Memory!BeginPrep, Memory!rows
<1>5. overlap' = (overlap \/ \E p \in Prep : prep[p].phase # "idle")
  BY DEF Memory!BeginPrep, Memory!At
<1> HIDE DEF w
<1>6. Holding(w) /\ Known(w) /\ Missing(w)
  BY <1>3 DEF Holding, Known, Missing
<1>7. overlap' \in BOOLEAN /\ (overlap => overlap')
  BY <1>5
<1>8. ~overlap' => \A r \in Prep : r # q => prep[r].phase = "idle"
  BY <1>5
<1>9. blind' \in BOOLEAN /\ (blind => blind')
  BY <1>4, Ours
<1> QED
  BY <1>4, <1>6, <1>7, <1>8, <1>9, QuietPrep

LEMMA SearchKeeps ==
    ASSUME MemoryInv, NEW q \in Prep, Memory!Search(q)
    PROVE  MemoryInv'
<1>1. PICK i \in Memory!Candidates(q) :
        IF Memory!Present(i.kind, i.name, None)
          THEN Memory!Move(q, [prep[q] EXCEPT !.todo = @ \ {i}, !.reported = @ \union {<<i.kind, i.name>>}])
          ELSE Memory!Move(q, [prep[q] EXCEPT !.todo = @ \ {i}, !.item = i, !.phase = "create"])
  BY DEF Memory!Search
<1>2. /\ prep[q] \in Preparation /\ prep[q].phase = "next" /\ Known(prep[q])
      /\ UNCHANGED <<skills, tools, gh, memory, headless, blind, overlap>>
      /\ blind' \in BOOLEAN /\ overlap' \in BOOLEAN
  BY Ours DEF Memory!Search, Memory!At, Memory!rows, Memory!history
<1>3. i \in prep[q].todo /\ prep[q].todo \subseteq Memory!Item
  BY <1>2 DEF Memory!Candidates, Memory!SkillsLeft, Preparation
<1>4. i \in Memory!Item /\ <<i.kind, i.name>> \in Memory!Kinds \X SkillName
  BY <1>3 DEF Memory!Item
<1>5. ~blind' /\ ~overlap' => \A r \in Prep : r # q => prep[r].phase = "idle"
  BY <1>2, OnlyOne
<1>6. CASE Memory!Present(i.kind, i.name, None)
  <2> DEFINE w == [prep[q] EXCEPT !.todo = prep[q].todo \ {i}, !.reported = prep[q].reported \union {<<i.kind, i.name>>}]
  <2>1. Memory!Move(q, w)
    BY <1>1, <1>6
  <2>2. prep[q].reported \union {<<i.kind, i.name>>} \in SUBSET (Memory!Kinds \X SkillName)
    BY <1>2, <1>4 DEF Preparation
  <2>3. w \in Preparation
    BY <1>2, <1>3, <2>2, GoesOn DEF Memory!Kinds
  <2>4. w.phase = "next" /\ w.reported = prep[q].reported \union {<<i.kind, i.name>>}
    BY <1>2 DEF Preparation
  <2> HIDE DEF w
  <2>5. Holding(w) /\ Missing(w)
    BY <2>3, <2>4 DEF Holding, Missing
  <2>6. Found(i.kind, i.name)
    BY <1>4, <1>6, PresentIsFound
  <2>7. Known(w)
    BY <1>2, <2>4, <2>6 DEF Known
  <2> QED
    BY <1>2, <1>5, <2>1, <2>5, <2>7, QuietPrep
<1>7. CASE ~Memory!Present(i.kind, i.name, None)
  <2> DEFINE w == [prep[q] EXCEPT !.todo = prep[q].todo \ {i}, !.item = i, !.phase = "create"]
  <2>1. Memory!Move(q, w)
    BY <1>1, <1>7
  <2>2. w \in Preparation /\ w.phase = "create" /\ w.item = i /\ w.reported = prep[q].reported
    <3>1. w \in Preparation
      BY <1>2, <1>3, <1>4, GoesOn
    <3> QED
      BY <3>1, <1>2 DEF Preparation
  <2> HIDE DEF w
  <2>3. Holding(w) /\ Missing(w) /\ Known(w)
    BY <1>2, <1>4, <1>7, <2>2 DEF Holding, Missing, Known
  <2> QED
    BY <1>2, <1>5, <2>1, <2>3, QuietPrep
<1> QED
  BY <1>6, <1>7

LEMMA SearchFailsKeeps ==
    ASSUME MemoryInv, NEW q \in Prep, Memory!SearchFails(q)
    PROVE  MemoryInv'
<1>1. PICK i \in Memory!Candidates(q) :
        Memory!Move(q, [prep[q] EXCEPT !.todo = @ \ {i}, !.item = i, !.phase = "create"])
  BY DEF Memory!SearchFails
<1>2. /\ prep[q] \in Preparation /\ prep[q].phase = "next" /\ Known(prep[q])
      /\ UNCHANGED <<skills, tools, gh, memory, headless, overlap>>
      /\ blind' = TRUE /\ overlap' \in BOOLEAN
  BY Ours DEF Memory!SearchFails, Memory!At, Memory!rows
<1>3. i \in prep[q].todo /\ prep[q].todo \subseteq Memory!Item
  BY <1>2 DEF Memory!Candidates, Memory!SkillsLeft, Preparation
<1> DEFINE w == [prep[q] EXCEPT !.todo = prep[q].todo \ {i}, !.item = i, !.phase = "create"]
<1>4. Memory!Move(q, w)
  BY <1>1
<1>5. w \in Preparation
  BY <1>2, <1>3, GoesOn DEF Memory!Kinds
<1>6. w.phase = "create" /\ w.item = i /\ w.reported = prep[q].reported
  BY <1>2 DEF Preparation
<1> HIDE DEF w
<1>7. Holding(w) /\ Known(w)
  BY <1>2, <1>3, <1>5, <1>6 DEF Holding, Known
<1> QED
  BY <1>2, <1>4, <1>7, QuietPrep

\* What a preparation that copies is about to copy.
LEMMA AboutToCopy ==
    ASSUME MemoryInv, NEW q \in Prep, prep[q].phase \in {"create", "files", "file"}
    PROVE  /\ prep[q].item.kind \in Memory!Kinds /\ prep[q].item.name \in SkillName
           /\ prep[q].item.text \in Text
           /\ Memory!AfterText(q) \in {"next", "files"}
           /\ Memory!AfterText(q) = "files" => prep[q].item.kind = "skills"
           /\ Memory!FilesNow(q) \in SUBSET Part
           /\ Memory!Report(q) \in SUBSET (Memory!Kinds \X SkillName)
<1>1. prep[q] \in Preparation /\ prep[q].item \in Memory!Item
  BY Ours DEF Holding
<1>2. prep[q].item.kind \in Memory!Kinds /\ prep[q].item.name \in SkillName /\ prep[q].item.text \in Text
  BY <1>1 DEF Memory!Item
<1>3. Memory!FilesNow(q) \in SUBSET Part
  BY Ours DEF Memory!FilesNow, Memory!Rows, Memory!Row
<1>4. prep[q].reported \in SUBSET (Memory!Kinds \X SkillName)
  BY <1>1 DEF Preparation
<1>5. Memory!Report(q) \in SUBSET (Memory!Kinds \X SkillName)
  BY <1>2, <1>4 DEF Memory!Report
<1> QED
  BY <1>2, <1>3, <1>5 DEF Memory!AfterText

\* The text is inserted, and the files come next.
LEMMA TextInserted ==
    ASSUME MemoryInv, NEW q \in Prep, prep[q].phase = "create",
           NEW kind \in Memory!Kinds, NEW name \in SkillName, NEW text \in Text,
           kind = prep[q].item.kind, name = prep[q].item.name,
           memory' = Memory!Inserted(kind, name, None, text)
    PROVE  /\ memory \subseteq memory' /\ memory' \subseteq Memory!Passage /\ IsFiniteSet(memory')
           /\ Copied(kind, name)'
           /\ \A m \in memory' \ memory : Copied(m.kind, m.name)'
           /\ ~blind /\ ~overlap => \A m \in memory' \ memory : m.copy = 1
<1>0. PICK pth : pth = None
  OBVIOUS
<1>1. /\ Memory!TypeOK /\ IsFiniteSet(memory) /\ text \in Text \union {None} /\ pth \in Part \union {None}
      /\ memory' = Memory!Inserted(kind, name, pth, text)
  BY <1>0 DEF MemoryInv
<1>2. Adds(kind, name, pth)
  BY <1>1, Inserting
<1>3. ~blind /\ ~overlap => Memory!Copies(kind, name, pth) = {}
  BY <1>0, OnlyOne DEF Missing, Memory!Present, Memory!Tags, Memory!Copies
<1>4. Copied(kind, name)'
  BY <1>0, <1>2 DEF Copied, Adds
<1> QED
  BY <1>2, <1>3, <1>4 DEF Adds

LEMMA CreateKeeps ==
    ASSUME MemoryInv, NEW q \in Prep, Memory!Create(q)
    PROVE  MemoryInv'
<1>1. PICK kind, name, text, w :
        /\ kind = prep[q].item.kind /\ name = prep[q].item.name /\ text = prep[q].item.text
        /\ w = [prep[q] EXCEPT !.phase = Memory!AfterText(q), !.parts = Memory!FilesNow(q),
                               !.reported = Memory!Report(q)]
  OBVIOUS
<1>2. /\ prep[q].phase = "create" /\ memory' = Memory!Inserted(kind, name, None, text)
      /\ Memory!Move(q, w) /\ UNCHANGED <<skills, tools, gh, headless, blind, overlap>>
  BY <1>1 DEF Memory!Create, Memory!At, Memory!rows, Memory!history
<1>3. /\ prep[q] \in Preparation /\ Holding(prep[q]) /\ Known(prep[q])
      /\ blind' \in BOOLEAN /\ overlap' \in BOOLEAN /\ headless' \subseteq SkillName
  BY <1>2, Ours
<1>4. /\ kind \in Memory!Kinds /\ name \in SkillName /\ text \in Text
      /\ Memory!AfterText(q) \in {"next", "files"}
      /\ (Memory!AfterText(q) = "files" => kind = "skills")
      /\ Memory!FilesNow(q) \in SUBSET Part
      /\ Memory!Report(q) \in SUBSET (Memory!Kinds \X SkillName)
  BY <1>1, <1>2, AboutToCopy
<1>5. w \in Preparation
  BY <1>1, <1>3, <1>4, GoesOn
<1>6. w.phase = Memory!AfterText(q) /\ w.item = prep[q].item /\ w.reported = Memory!Report(q)
  BY <1>1, <1>3 DEF Preparation
<1>7. /\ memory \subseteq memory' /\ memory' \subseteq Memory!Passage /\ IsFiniteSet(memory')
      /\ Copied(kind, name)'
      /\ \A m \in memory' \ memory : Copied(m.kind, m.name)'
      /\ ~blind /\ ~overlap => \A m \in memory' \ memory : m.copy = 1
  BY <1>1, <1>2, <1>4, TextInserted
<1>8. Holding(w)
  BY <1>1, <1>2, <1>3, <1>4, <1>5, <1>6 DEF Holding
<1>9. Known(w)'
  <2>1. \A r \in prep[q].reported : Found(r[1], r[2])'
    BY <1>2, <1>3, <1>7, FoundStays DEF Known
  <2>2. w.reported = prep[q].reported \union {<<kind, name>>}
    BY <1>1, <1>6 DEF Memory!Report
  <2> QED
    BY <1>7, <2>1, <2>2 DEF Known, Found
<1>10. Missing(w)'
  BY <1>4, <1>6 DEF Missing
<1>11. ~blind' /\ ~overlap' => \A r \in Prep : r # q => prep[r].phase = "idle"
  BY <1>2, OnlyOne
<1> QED
  BY <1>2, <1>3, <1>7, <1>8, <1>9, <1>10, <1>11, PrepStep

LEMMA CreateFailsKeeps ==
    ASSUME MemoryInv, NEW q \in Prep, Memory!CreateFails(q)
    PROVE  MemoryInv'
<1>1. PICK kind, name, text, w :
        /\ kind = prep[q].item.kind /\ name = prep[q].item.name /\ text = prep[q].item.text
        /\ w = [prep[q] EXCEPT !.phase = Memory!AfterText(q), !.parts = Memory!FilesNow(q)]
  OBVIOUS
<1>2. /\ prep[q].phase = "create" /\ memory' \in {memory, Memory!Inserted(kind, name, None, text)}
      /\ Memory!Move(q, w) /\ UNCHANGED <<skills, tools, gh, headless, blind, overlap>>
  BY <1>1 DEF Memory!CreateFails, Memory!At, Memory!rows, Memory!history
<1>3. /\ prep[q] \in Preparation /\ Holding(prep[q]) /\ Known(prep[q])
      /\ blind' \in BOOLEAN /\ overlap' \in BOOLEAN /\ headless' \subseteq SkillName
  BY <1>2, Ours
<1>4. /\ kind \in Memory!Kinds /\ name \in SkillName /\ text \in Text
      /\ Memory!AfterText(q) \in {"next", "files"}
      /\ (Memory!AfterText(q) = "files" => kind = "skills")
      /\ Memory!FilesNow(q) \in SUBSET Part
  BY <1>1, <1>2, AboutToCopy
<1>5. w \in Preparation
  BY <1>1, <1>3, <1>4, GoesOn
<1>6. w.phase = Memory!AfterText(q) /\ w.item = prep[q].item /\ w.reported = prep[q].reported
  BY <1>1, <1>3 DEF Preparation
<1>7. Holding(w) /\ Known(w)
  BY <1>1, <1>2, <1>3, <1>4, <1>5, <1>6 DEF Holding, Known
<1>8. Missing(w) /\ Missing(w)'
  BY <1>4, <1>6 DEF Missing
<1>9. ~blind' /\ ~overlap' => \A r \in Prep : r # q => prep[r].phase = "idle"
  BY <1>2, OnlyOne
<1>10. CASE memory' = memory
  BY <1>2, <1>3, <1>7, <1>8, <1>9, <1>10, QuietPrep
<1>11. CASE memory' = Memory!Inserted(kind, name, None, text)
  <2>1. /\ memory \subseteq memory' /\ memory' \subseteq Memory!Passage /\ IsFiniteSet(memory')
        /\ \A m \in memory' \ memory : Copied(m.kind, m.name)'
        /\ ~blind /\ ~overlap => \A m \in memory' \ memory : m.copy = 1
    BY <1>1, <1>2, <1>4, <1>11, TextInserted
  <2>2. Known(w)'
    BY <1>2, <1>7, <2>1, FoundStays DEF Known
  <2> QED
    BY <1>2, <1>3, <1>7, <1>8, <1>9, <2>1, <2>2, PrepStep
<1> QED
  BY <1>2, <1>10, <1>11

LEMMA SearchFileKeeps ==
    ASSUME MemoryInv, NEW q \in Prep, Memory!SearchFile(q)
    PROVE  MemoryInv'
<1>1. PICK p \in prep[q].parts :
        IF Memory!Present("skills", prep[q].item.name, p)
          THEN Memory!Move(q, [prep[q] EXCEPT !.parts = @ \ {p}])
          ELSE Memory!Move(q, [prep[q] EXCEPT !.parts = @ \ {p}, !.part = p, !.phase = "file"])
  BY DEF Memory!SearchFile
<1>2. /\ prep[q] \in Preparation /\ prep[q].phase = "files" /\ Known(prep[q]) /\ Holding(prep[q])
      /\ UNCHANGED <<skills, tools, gh, memory, headless, blind, overlap>>
      /\ blind' \in BOOLEAN /\ overlap' \in BOOLEAN
  BY Ours DEF Memory!SearchFile, Memory!At, Memory!rows, Memory!history
<1>3. p \in Part /\ prep[q].parts \ {p} \in SUBSET Part
  BY <1>2 DEF Preparation
<1>4. ~blind' /\ ~overlap' => \A r \in Prep : r # q => prep[r].phase = "idle"
  BY <1>2, OnlyOne
<1>5. CASE Memory!Present("skills", prep[q].item.name, p)
  <2> DEFINE w == [prep[q] EXCEPT !.parts = prep[q].parts \ {p}]
  <2>1. Memory!Move(q, w)
    BY <1>1, <1>5
  <2>2. w \in Preparation
    BY <1>2, <1>3, GoesOn
  <2>3. w.phase = "files" /\ w.item = prep[q].item /\ w.reported = prep[q].reported
    BY <1>2 DEF Preparation
  <2> HIDE DEF w
  <2>4. Holding(w) /\ Missing(w) /\ Known(w)
    BY <1>2, <2>2, <2>3 DEF Holding, Missing, Known
  <2> QED
    BY <1>2, <1>4, <2>1, <2>4, QuietPrep
<1>6. CASE ~Memory!Present("skills", prep[q].item.name, p)
  <2> DEFINE w == [prep[q] EXCEPT !.parts = prep[q].parts \ {p}, !.part = p, !.phase = "file"]
  <2>1. Memory!Move(q, w)
    BY <1>1, <1>6
  <2>2. w \in Preparation
    BY <1>2, <1>3, GoesOn
  <2>3. w.phase = "file" /\ w.item = prep[q].item /\ w.reported = prep[q].reported /\ w.part = p
    BY <1>2 DEF Preparation
  <2> HIDE DEF w
  <2>4. Holding(w) /\ Missing(w) /\ Known(w)
    BY <1>2, <1>3, <1>6, <2>2, <2>3 DEF Holding, Missing, Known
  <2> QED
    BY <1>2, <1>4, <2>1, <2>4, QuietPrep
<1> QED
  BY <1>5, <1>6

LEMMA SearchFileFailsKeeps ==
    ASSUME MemoryInv, NEW q \in Prep, Memory!SearchFileFails(q)
    PROVE  MemoryInv'
<1>1. PICK p \in prep[q].parts :
        Memory!Move(q, [prep[q] EXCEPT !.parts = @ \ {p}, !.part = p, !.phase = "file"])
  BY DEF Memory!SearchFileFails
<1>2. /\ prep[q] \in Preparation /\ prep[q].phase = "files" /\ Known(prep[q]) /\ Holding(prep[q])
      /\ UNCHANGED <<skills, tools, gh, memory, headless, overlap>>
      /\ blind' = TRUE /\ overlap' \in BOOLEAN
  BY Ours DEF Memory!SearchFileFails, Memory!At, Memory!rows
<1>3. p \in Part /\ prep[q].parts \ {p} \in SUBSET Part
  BY <1>2 DEF Preparation
<1> DEFINE w == [prep[q] EXCEPT !.parts = prep[q].parts \ {p}, !.part = p, !.phase = "file"]
<1>4. Memory!Move(q, w)
  BY <1>1
<1>5. w \in Preparation
  BY <1>2, <1>3, GoesOn
<1>6. w.phase = "file" /\ w.item = prep[q].item /\ w.reported = prep[q].reported /\ w.part = p
  BY <1>2 DEF Preparation
<1> HIDE DEF w
<1>7. Holding(w) /\ Known(w)
  BY <1>2, <1>3, <1>5, <1>6 DEF Holding, Known
<1> QED
  BY <1>2, <1>4, <1>7, QuietPrep

LEMMA CopyFileKeeps ==
    ASSUME MemoryInv, NEW q \in Prep, Memory!CopyFile(q)
    PROVE  MemoryInv'
<1>0. PICK name, pth, w :
        /\ name = prep[q].item.name /\ pth = prep[q].part
        /\ w = [prep[q] EXCEPT !.phase = "files", !.part = None]
  OBVIOUS
<1>1. /\ prep[q].phase = "file"
      /\ memory' = memory \/ memory' = Memory!Inserted("skills", name, pth, None)
      /\ headless' = IF memory' # memory /\ ~Memory!HasText("skills", name)
                       THEN headless \union {name} ELSE headless
      /\ Memory!Move(q, w) /\ UNCHANGED <<skills, tools, gh, blind, overlap>>
  BY <1>0 DEF Memory!CopyFile, Memory!At, Memory!rows
<1>2. /\ prep[q] \in Preparation /\ Holding(prep[q]) /\ Known(prep[q])
      /\ blind' \in BOOLEAN /\ overlap' \in BOOLEAN /\ headless \subseteq SkillName
  BY <1>1, Ours
<1>3. name \in SkillName /\ prep[q].item.kind = "skills" /\ pth \in Part /\ pth # None
  BY <1>0, <1>1, <1>2, AboutToCopy, MemoryAssumption DEF Holding
<1>4. w \in Preparation
  BY <1>0, <1>2, GoesOn
<1>5. w.phase = "files" /\ w.item = prep[q].item /\ w.reported = prep[q].reported
  BY <1>0, <1>2 DEF Preparation
<1>6. Holding(w) /\ Known(w) /\ Missing(w) /\ Missing(w)'
  BY <1>0, <1>1, <1>2, <1>3, <1>4, <1>5 DEF Holding, Known, Missing
<1>7. ~blind' /\ ~overlap' => \A r \in Prep : r # q => prep[r].phase = "idle"
  BY <1>1, OnlyOne
<1>8. CASE memory' = memory
  <2>1. headless' = headless
    BY <1>1, <1>8
  <2> QED
    BY <1>1, <1>2, <1>6, <1>7, <1>8, <2>1, QuietPrep
<1>9. CASE memory' = Memory!Inserted("skills", name, pth, None) /\ memory' # memory
  <2>1. "skills" \in Memory!Kinds /\ pth \in Part \union {None} /\ None \in Text \union {None}
    BY <1>3 DEF Memory!Kinds
  <2>2. Memory!TypeOK /\ IsFiniteSet(memory)
    BY DEF MemoryInv
  <2>3. /\ memory \subseteq memory' /\ memory' \subseteq Memory!Passage /\ IsFiniteSet(memory')
        /\ \A m \in memory' \ memory : m.kind = "skills" /\ m.name = name
        /\ Memory!Copies("skills", name, pth) = {} => \A m \in memory' \ memory : m.copy = 1
    <3>1. Adds("skills", name, pth)
      BY <1>3, <1>9, <2>1, <2>2, Inserting
    <3> QED
      BY <3>1 DEF Adds
  <2>4. headless \subseteq headless' /\ headless' \subseteq SkillName
    BY <1>1, <1>2, <1>3
  <2>5. Known(w)'
    BY <1>6, <2>3, <2>4, FoundStays DEF Known
  <2>6. Copied("skills", name)'
    <3>1. CASE Memory!HasText("skills", name)
      BY <2>3, <2>4, <3>1, CopiedStays DEF Copied
    <3>2. CASE ~Memory!HasText("skills", name)
      BY <1>1, <1>9, <3>2 DEF Copied
    <3> QED
      BY <3>1, <3>2
  <2>7. \A m \in memory' \ memory : Copied(m.kind, m.name)'
    BY <2>3, <2>6
  <2>8. ~blind /\ ~overlap => Memory!Copies("skills", name, pth) = {}
    BY <1>0, <1>1, OnlyOne DEF Missing, Memory!Present, Memory!Tags, Memory!Copies
  <2> QED
    BY <1>1, <1>2, <1>6, <1>7, <2>3, <2>4, <2>5, <2>7, <2>8, PrepStep
<1> QED
  BY <1>1, <1>8, <1>9

LEMMA FilesDoneKeeps ==
    ASSUME MemoryInv, NEW q \in Prep, Memory!FilesDone(q)
    PROVE  MemoryInv'
<1> DEFINE w == [prep[q] EXCEPT !.phase = "next"]
<1>1. /\ prep[q].phase = "files" /\ Memory!Move(q, w)
      /\ UNCHANGED <<skills, tools, gh, memory, headless, blind, overlap>>
  BY DEF Memory!FilesDone, Memory!At, Memory!rows, Memory!history
<1>2. prep[q] \in Preparation /\ Known(prep[q]) /\ blind' \in BOOLEAN /\ overlap' \in BOOLEAN
  BY <1>1, Ours
<1>3. w \in Preparation
  BY <1>2, GoesOn
<1>4. w.phase = "next" /\ w.reported = prep[q].reported
  BY <1>2 DEF Preparation
<1> HIDE DEF w
<1>5. Holding(w) /\ Missing(w) /\ Known(w)
  BY <1>2, <1>3, <1>4 DEF Holding, Missing, Known
<1>6. ~blind' /\ ~overlap' => \A r \in Prep : r # q => prep[r].phase = "idle"
  BY <1>1, OnlyOne
<1> QED
  BY <1>1, <1>2, <1>5, <1>6, QuietPrep

LEMMA LeavingKeeps ==
    ASSUME MemoryInv, NEW q \in Prep, Memory!EndPrep(q) \/ Memory!Interrupted(q)
    PROVE  MemoryInv'
<1> DEFINE w == Memory!NoPrep
<1>1. /\ prep[q].phase # "idle" /\ Memory!Move(q, w)
      /\ UNCHANGED <<skills, tools, gh, memory, headless, blind, overlap>>
  BY DEF Memory!EndPrep, Memory!Interrupted, Memory!At, Memory!rows, Memory!history
<1>2. w \in Preparation /\ w.phase = "idle" /\ w.reported = {}
  BY DEF Memory!NoPrep, Preparation
<1> HIDE DEF w
<1>3. Holding(w) /\ Missing(w) /\ Known(w)
  BY <1>2 DEF Holding, Missing, Known
<1>4. ~blind' /\ ~overlap' => \A r \in Prep : r # q => prep[r].phase = "idle"
  BY <1>1, OnlyOne
<1>5. blind' \in BOOLEAN /\ overlap' \in BOOLEAN
  BY <1>1, Ours
<1> QED
  BY <1>1, <1>3, <1>4, <1>5, QuietPrep

\* The rows change, and what agents remember stays.
LEMMA EditKeeps ==
    ASSUME MemoryInv, UNCHANGED <<memory, prep, headless, blind, overlap>>,
           skills' \in [Skill -> Memory!Row \union {None}], tools' \subseteq Tool,
           gh' \in [skill : Skill, row : Memory!Row] \union {Memory!NoRequest}
    PROVE  MemoryInv'
<1>1. Memory!TypeOK'
  BY DEF MemoryInv, Memory!TypeOK
<1>2. ASSUME NEW kind, NEW name, Copied(kind, name) PROVE Copied(kind, name)'
  BY <1>2, CopiedStays
<1>3. \A m \in memory' : Copied(m.kind, m.name)'
  BY <1>2 DEF MemoryInv
<1>4. \A q \in Prep : Holding(prep[q])' /\ Known(prep[q])'
  BY FoundStays DEF MemoryInv, Known, Holding
<1>5. (blind \/ overlap \/ Once)'
  BY DEF MemoryInv, Once, Missing, Memory!Present
<1>6. IsFiniteSet(memory')
  BY DEF MemoryInv
<1> QED
  BY <1>1, <1>3, <1>4, <1>5, <1>6 DEF MemoryInv

LEMMA RowsType ==
    ASSUME MemoryInv
    PROVE  /\ skills \in [Skill -> Memory!Row \union {None}] /\ tools \subseteq Tool
           /\ gh \in [skill : Skill, row : Memory!Row] \union {Memory!NoRequest}
  BY DEF MemoryInv, Memory!TypeOK

LEMMA PersistKeeps ==
    ASSUME MemoryInv, NEW s \in Skill, NEW row \in Memory!Row, Memory!Persist(s, row)
    PROVE  MemoryInv'
<1>1. skills' = [skills EXCEPT ![s] = row] /\ UNCHANGED <<tools, gh, memory, prep, headless, blind, overlap>>
  BY DEF Memory!Persist, Memory!history
<1>2. skills' \in [Skill -> Memory!Row \union {None}]
  BY <1>1, RowsType
<1> QED
  BY <1>1, <1>2, RowsType, EditKeeps

LEMMA NewRow ==
    ASSUME NEW row \in Memory!Row, NEW n \in SkillName, NEW t \in Text, NEW ts \in SUBSET Tool
    PROVE  /\ [row EXCEPT !.name = n] \in Memory!Row
           /\ [row EXCEPT !.tools = ts] \in Memory!Row
           /\ [row EXCEPT !.name = n, !.text = t, !.tools = ts] \in Memory!Row
<1>1. [row EXCEPT !.name = n] \in Memory!Row
  BY ZenonT(60) DEF Memory!Row
<1>2. [row EXCEPT !.tools = ts] \in Memory!Row
  BY ZenonT(60) DEF Memory!Row
<1>3. [row EXCEPT !.name = n, !.text = t, !.tools = ts] \in Memory!Row
  BY ZenonT(60) DEF Memory!Row
<1> QED
  BY <1>1, <1>2, <1>3

LEMMA ImportKeeps ==
    ASSUME MemoryInv, NEW s \in Skill, NEW row \in Memory!Row, Memory!ImportSkill(s, row)
    PROVE  MemoryInv'
<1>1. PICK n \in SkillName : Memory!Persist(s, [row EXCEPT !.name = n])
  BY DEF Memory!ImportSkill
<1>2. [row EXCEPT !.name = n] \in Memory!Row
  BY ZenonT(60) DEF Memory!Row
<1> QED
  BY <1>1, <1>2, PersistKeeps

LEMMA UpdateSkillKeeps ==
    ASSUME MemoryInv, NEW s \in Skill, NEW n \in SkillName, NEW t \in Text, NEW ts \in SUBSET Tool,
           Memory!UpdateSkill(s, n, t, ts)
    PROVE  MemoryInv'
<1>1. /\ skills' = [skills EXCEPT ![s].name = n, ![s].text = t, ![s].tools = ts]
      /\ s \in Memory!Rows /\ UNCHANGED <<tools, gh, memory, prep, headless, blind, overlap>>
  BY DEF Memory!UpdateSkill, Memory!history
<1> DEFINE row == [skills[s] EXCEPT !.name = n, !.text = t, !.tools = ts]
<1>2. skills[s] \in Memory!Row
  BY <1>1, RowsType DEF Memory!Rows
<1>3. row \in Memory!Row
  BY <1>2, NewRow
<1>4. skills' = [skills EXCEPT ![s] = row]
  BY <1>1, RowsType
<1> HIDE DEF row
<1>5. skills' \in [Skill -> Memory!Row \union {None}]
  BY <1>3, <1>4, RowsType
<1> QED
  BY <1>1, <1>5, RowsType, EditKeeps

LEMMA DeletesKeep ==
    ASSUME MemoryInv,
           (\E s \in Skill : Memory!DeleteSkill(s)) \/ (\E t \in Tool : Memory!DeleteTool(t))
    PROVE  MemoryInv'
<1>1. ASSUME NEW s \in Skill, Memory!DeleteSkill(s) PROVE MemoryInv'
  <2>1. skills' = [skills EXCEPT ![s] = None] /\ UNCHANGED <<tools, gh, memory, prep, headless, blind, overlap>>
    BY <1>1 DEF Memory!DeleteSkill, Memory!history
  <2>2. skills' \in [Skill -> Memory!Row \union {None}]
    BY <2>1, RowsType
  <2> QED
    BY <2>1, <2>2, RowsType, EditKeeps
<1>2. ASSUME NEW t \in Tool, Memory!DeleteTool(t) PROVE MemoryInv'
  <2>1. /\ tools' = tools \ {t} /\ UNCHANGED <<gh, memory, prep, headless, blind, overlap>>
        /\ skills' = [s \in Skill |-> IF skills[s] = None THEN None
                                      ELSE [skills[s] EXCEPT !.tools = @ \ {t}]]
    BY <1>2 DEF Memory!DeleteTool, Memory!history
  <2>2. ASSUME NEW s \in Skill, skills[s] # None
        PROVE  [skills[s] EXCEPT !.tools = @ \ {t}] \in Memory!Row
    <3>1. skills[s] \in Memory!Row
      BY <2>2, RowsType
    <3>2. skills[s].tools \ {t} \in SUBSET Tool
      BY <3>1 DEF Memory!Row
    <3>3. [skills[s] EXCEPT !.tools = skills[s].tools \ {t}] \in Memory!Row
      BY <3>1, <3>2, ZenonT(60) DEF Memory!Row
    <3> QED
      BY <3>3
  <2>3. skills' \in [Skill -> Memory!Row \union {None}]
    BY <2>1, <2>2
  <2> QED
    BY <2>1, <2>3, RowsType, EditKeeps
<1> QED
  BY <1>1, <1>2

LEMMA GithubKeeps ==
    ASSUME MemoryInv,
           \/ \E s \in Skill, row \in Memory!Row : Memory!BeginGithub(s, row)
           \/ \E t \in Tool : Memory!LinkTool(t)
           \/ Memory!EndGithub
    PROVE  MemoryInv'
<1>1. ASSUME NEW s \in Skill, NEW row \in Memory!Row, Memory!BeginGithub(s, row) PROVE MemoryInv'
  <2>1. gh' = [skill |-> s, row |-> row] /\ UNCHANGED <<skills, tools, memory, prep, headless, blind, overlap>>
    BY <1>1 DEF Memory!BeginGithub, Memory!history
  <2>2. gh' \in [skill : Skill, row : Memory!Row] \union {Memory!NoRequest}
    BY <2>1
  <2> QED
    BY <2>1, <2>2, RowsType, EditKeeps
<1>2. ASSUME NEW t \in Tool, Memory!LinkTool(t) PROVE MemoryInv'
  <2>1. /\ gh # Memory!NoRequest /\ gh' = [gh EXCEPT !.row.tools = {t}]
        /\ UNCHANGED <<skills, tools, memory, prep, headless, blind, overlap>>
    BY <1>2 DEF Memory!LinkTool, Memory!history
  <2>2. gh \in [skill : Skill, row : Memory!Row]
    BY <2>1, RowsType
  <2> DEFINE row == [gh.row EXCEPT !.tools = {t}]
  <2>3. row \in Memory!Row
    BY <2>2, ZenonT(60) DEF Memory!Row
  <2>4. gh' = [gh EXCEPT !.row = row]
    BY <2>1, <2>2
  <2> HIDE DEF row
  <2>5. gh' \in [skill : Skill, row : Memory!Row]
    BY <2>2, <2>3, <2>4
  <2> QED
    BY <2>1, <2>5, RowsType, EditKeeps
<1>3. ASSUME Memory!EndGithub PROVE MemoryInv'
  <2>1. /\ gh # Memory!NoRequest /\ gh' = Memory!NoRequest
        /\ UNCHANGED <<memory, prep, headless, blind, overlap>>
        /\ \/ skills' = [skills EXCEPT ![gh.skill] = gh.row] /\ tools' = tools \union gh.row.tools
           \/ UNCHANGED <<skills, tools>>
    BY <1>3 DEF Memory!EndGithub, Memory!history
  <2>2. gh.skill \in Skill /\ gh.row \in Memory!Row
    BY <2>1, RowsType
  <2>3. gh.row.tools \subseteq Tool
    BY <2>2 DEF Memory!Row
  <2>4. skills' \in [Skill -> Memory!Row \union {None}] /\ tools' \subseteq Tool
    BY <2>1, <2>2, <2>3, RowsType
  <2> QED
    BY <2>1, <2>4, RowsType, EditKeeps
<1> QED
  BY <1>1, <1>2, <1>3

\* Every step of the preparations and of the edits keeps it.
LEMMA MemoryStep == MemoryInv /\ [Memory!Next]_memoryVars => MemoryInv'
<1> SUFFICES ASSUME MemoryInv, [Memory!Next]_memoryVars PROVE MemoryInv'
  OBVIOUS
<1>1. CASE UNCHANGED memoryVars
  BY <1>1, RowsType, EditKeeps DEF memoryVars
<1>2. CASE Memory!Next
  <2>1. ASSUME NEW s \in Skill, NEW row \in Memory!Row,
               Memory!CreateSkill(s, row) \/ Memory!UploadSkill(s, row)
        PROVE  MemoryInv'
    BY <2>1, PersistKeeps DEF Memory!CreateSkill, Memory!UploadSkill
  <2>2. ASSUME NEW q \in Prep,
               \/ \E ss \in SUBSET Skill, ls \in SUBSET Lesson : Memory!BeginPrep(q, ss, ls)
               \/ Memory!Search(q) \/ Memory!SearchFails(q) \/ Memory!Create(q) \/ Memory!CreateFails(q)
               \/ Memory!SearchFile(q) \/ Memory!SearchFileFails(q)
               \/ Memory!CopyFile(q) \/ Memory!FilesDone(q) \/ Memory!EndPrep(q) \/ Memory!Interrupted(q)
        PROVE  MemoryInv'
    BY <2>2, BeginsPrep, SearchKeeps, SearchFailsKeeps, CreateKeeps, CreateFailsKeeps, SearchFileKeeps,
       SearchFileFailsKeeps, CopyFileKeeps, FilesDoneKeeps, LeavingKeeps
  <2> QED
    BY <1>2, <2>1, <2>2, ImportKeeps, UpdateSkillKeeps, DeletesKeep, GithubKeeps DEF Memory!Next
<1> QED
  BY <1>1, <1>2

LEMMA MemoryKept == MemoryInv => ReportedIsThere /\ RememberedOnce
  BY DEF MemoryInv, Known, Found, Copied, Once, ReportedIsThere, RememberedOnce,
         Memory!ReportedIsThere, Memory!RememberedOnce
-----------------------------------------------------------------------------
\* What is moved in belongs to the package or to what it needs, and what is to
\* be listed has its code in place or still to come.
Coming(j) ==
    LET w == job[j] IN
    w # Volume!NoJob =>
        /\ w.pkg \in Pkg /\ w.ver \in Version /\ w.infos \subseteq Needs[w.pkg] \X {w.ver}
        /\ \A i \in w.infos : \A e \in Owns[i[1]] : code[e] # None \/ e \in w.entries
\* A listed package has its code, was left in part, is about to be taken off the
\* list, or has been put there ahead of its code by the job at work.
Ahead(i, e) ==
    \E j \in Job :
        /\ job[j] # Volume!NoJob /\ i \in Needs[job[j].pkg] \X {job[j].ver}
        /\ i \notin job[j].infos /\ e \in job[j].entries
Listed ==
    \A i \in info : \A e \in Volume!Own(i[1]) :
        code[e] # None \/ i[1] \in cut \/ i \in removal.infos \/ Ahead(i, e)
Removing ==
    removal # Volume!NoRemoval =>
        /\ removal.pkg \in Given
        /\ \A j \in Job : job[j] = Volume!NoJob
        /\ \A i \in info : i[1] = removal.pkg => i \in removal.infos
        /\ \A i \in removal.infos : i[1] = removal.pkg
        /\ \A e \in removal.entries : Stem[e] = removal.pkg
OneByOne ==
    /\ \A j, k \in Job : job[j] # Volume!NoJob /\ job[k] # Volume!NoJob => j = k
    /\ \A j \in Job : Coming(j)
    /\ Listed /\ Removing
VolumeInv == Volume!TypeOK /\ (mixed \/ OneByOne)

-----------------------------------------------------------------------------
\* A run of pip, and what is left of it as it moves things in.
Slot == [pkg : Pkg \union {None}, entries : SUBSET Entry, infos : SUBSET Volume!Infos,
         ver : Version \union {None}]
EntryTaken(w, e) == [w EXCEPT !.entries = @ \ {e}]
InfoTaken(w, i) == [w EXCEPT !.infos = @ \ {i}]

\* What is left of a run is a run of the same package.
LEMMA EntryTakenSlot ==
    ASSUME NEW w \in Slot, NEW e \in Entry
    PROVE  /\ EntryTaken(w, e) \in Slot
           /\ EntryTaken(w, e).pkg = w.pkg /\ EntryTaken(w, e).ver = w.ver
           /\ EntryTaken(w, e).entries = w.entries \ {e}
           /\ EntryTaken(w, e).infos = w.infos
  BY DEF Slot, EntryTaken

LEMMA InfoTakenSlot ==
    ASSUME NEW w \in Slot, NEW i \in Volume!Infos
    PROVE  /\ InfoTaken(w, i) \in Slot
           /\ InfoTaken(w, i).pkg = w.pkg /\ InfoTaken(w, i).ver = w.ver
           /\ InfoTaken(w, i).infos = w.infos \ {i}
           /\ InfoTaken(w, i).entries = w.entries
  BY DEF Slot, InfoTaken

\* One run changes, the others do not.
LEMMA SlotSet ==
    ASSUME job \in [Job -> Slot], NEW j \in Job, NEW w \in Slot, job' = [job EXCEPT ![j] = w]
    PROVE  /\ job' \in [Job -> Slot] /\ job'[j] = w
           /\ \A k \in Job : k # j => job'[k] = job[k]
  OBVIOUS

\* What pip is asked for.
Asked(p, v) == [pkg |-> p, entries |-> UNION {Owns[r] : r \in Needs[p]},
                infos |-> Needs[p] \X {v}, ver |-> v]

LEMMA AskedSlot ==
    ASSUME NEW p \in Pkg, NEW v \in Version
    PROVE  /\ Asked(p, v) \in Slot
           /\ \A i \in Needs[p] \X {v} : \A e \in Owns[i[1]] : e \in Asked(p, v).entries
<1>1. UNION {Owns[r] : r \in Needs[p]} \in SUBSET Entry /\ Needs[p] \X {v} \in SUBSET Volume!Infos
  BY VolumeAssumption DEF Volume!Infos
<1> QED
  BY <1>1 DEF Asked, Slot

LEMMA NoJobSlot == Volume!NoJob \in Slot
  BY DEF Volume!NoJob, Slot

\* The steps of pip, of the sidecar's clock and of an uninstall.
LEMMA VolumeSteps ==
    ASSUME Volume!TypeOK, Volume!Next
    PROVE  \/ \E j \in Job, p \in Pkg, v \in Version :
                Volume!Install(j, p, v) /\ job' = [job EXCEPT ![j] = Asked(p, v)]
           \/ \E j \in Job, e \in Entry :
                Volume!MoveEntry(j, e) /\ job' = [job EXCEPT ![j] = EntryTaken(job[j], e)]
           \/ \E j \in Job, i \in Volume!Infos :
                Volume!MoveInfo(j, i) /\ job' = [job EXCEPT ![j] = InfoTaken(job[j], i)]
           \/ \E j \in Job : Volume!Answer(j) \/ Volume!Refuse(j) \/ Volume!PipFails(j) \/ Volume!TimeOut(j)
           \/ \E n \in Given : Volume!BeginUninstall(n)
           \/ \E e \in Entry : Volume!RemoveEntry(e)
           \/ \E i \in Volume!Infos : Volume!RemoveInfo(i)
           \/ Volume!EndUninstall \/ Volume!RemovalFails \/ Volume!Restart
<1>1. \A j \in Job : job[j] \in Slot
  BY DEF Volume!TypeOK, Slot
<1>2. ASSUME NEW j \in Job, NEW e, Volume!MoveEntry(j, e)
      PROVE  job' = [job EXCEPT ![j] = EntryTaken(job[j], e)]
  <2>1. [job[j] EXCEPT !.entries = @ \ {e}] = EntryTaken(job[j], e)
    BY <1>1 DEF EntryTaken, InfoTaken
  <2> QED
    BY <1>2, <2>1 DEF Volume!MoveEntry
<1>3. ASSUME NEW j \in Job, NEW i, Volume!MoveInfo(j, i)
      PROVE  job' = [job EXCEPT ![j] = InfoTaken(job[j], i)]
  <2>1. [job[j] EXCEPT !.infos = @ \ {i}] = InfoTaken(job[j], i)
    BY <1>1 DEF EntryTaken, InfoTaken
  <2> QED
    BY <1>3, <2>1 DEF Volume!MoveInfo
<1>4. ASSUME NEW j \in Job, NEW p \in Pkg, NEW v \in Version, Volume!Install(j, p, v)
      PROVE  job' = [job EXCEPT ![j] = Asked(p, v)]
  BY <1>4 DEF Volume!Install, Asked
<1>5. \/ \E j \in Job, p \in Pkg, v \in Version : Volume!Install(j, p, v)
      \/ \E j \in Job, e \in Entry : Volume!MoveEntry(j, e)
      \/ \E j \in Job, i \in Volume!Infos : Volume!MoveInfo(j, i)
      \/ \E j \in Job : Volume!Answer(j) \/ Volume!Refuse(j) \/ Volume!PipFails(j) \/ Volume!TimeOut(j)
      \/ \E n \in Given : Volume!BeginUninstall(n)
      \/ \E e \in Entry : Volume!RemoveEntry(e)
      \/ \E i \in Volume!Infos : Volume!RemoveInfo(i)
      \/ Volume!EndUninstall \/ Volume!RemovalFails \/ Volume!Restart
  BY DEF Volume!Next
<1>6. CASE \E j \in Job, p \in Pkg, v \in Version : Volume!Install(j, p, v)
  BY <1>4, <1>6
<1>7. CASE \E j \in Job, e \in Entry : Volume!MoveEntry(j, e)
  BY <1>2, <1>7
<1>8. CASE \E j \in Job, i \in Volume!Infos : Volume!MoveInfo(j, i)
  BY <1>3, <1>8
<1> QED
  BY <1>5, <1>6, <1>7, <1>8

LEMMA VolumeTypes == Volume!TypeOK /\ [Volume!Next]_volumeVars => Volume!TypeOK'
<1> SUFFICES ASSUME Volume!TypeOK, [Volume!Next]_volumeVars PROVE Volume!TypeOK'
  OBVIOUS
<1>1. job \in [Job -> Slot]
  BY DEF Volume!TypeOK, Slot
<1>2. ASSUME job' \in [Job -> Slot], code' \in [Entry -> Version \union {None}],
             info' \subseteq Volume!Infos, mixed' \in BOOLEAN, cut' \subseteq Pkg,
             removal' \in [pkg : Given \union {None}, entries : SUBSET Entry, infos : SUBSET Volume!Infos]
      PROVE  Volume!TypeOK'
  BY <1>2 DEF Volume!TypeOK, Slot
<1>3. ASSUME NEW j \in Job, NEW p \in Pkg, NEW v \in Version,
             Volume!Install(j, p, v), job' = [job EXCEPT ![j] = Asked(p, v)]
      PROVE  Volume!TypeOK'
  <2>1. job' \in [Job -> Slot]
    BY <1>1, <1>3, AskedSlot, SlotSet
  <2>2. mixed' \in BOOLEAN
    BY <1>3 DEF Volume!Install, Volume!TypeOK
  <2> QED
    BY <1>2, <1>3, <2>1, <2>2 DEF Volume!Install, Volume!TypeOK
<1>4. ASSUME NEW j \in Job, NEW e \in Entry,
             Volume!MoveEntry(j, e), job' = [job EXCEPT ![j] = EntryTaken(job[j], e)]
      PROVE  Volume!TypeOK'
  <2>1. job' \in [Job -> Slot]
    BY <1>1, <1>4, EntryTakenSlot, InfoTakenSlot, SlotSet
  <2>2. job[j].ver \in Version \union {None}
    BY <1>1 DEF Slot
  <2>3. code' \in [Entry -> Version \union {None}]
    BY <1>4, <2>2 DEF Volume!MoveEntry, Volume!TypeOK
  <2> QED
    BY <1>2, <1>4, <2>1, <2>3 DEF Volume!MoveEntry, Volume!TypeOK
<1>5. ASSUME NEW j \in Job, NEW i \in Volume!Infos,
             Volume!MoveInfo(j, i), job' = [job EXCEPT ![j] = InfoTaken(job[j], i)]
      PROVE  Volume!TypeOK'
  <2>1. job' \in [Job -> Slot]
    BY <1>1, <1>5, EntryTakenSlot, InfoTakenSlot, SlotSet
  <2> QED
    BY <1>2, <1>5, <2>1 DEF Volume!MoveInfo, Volume!TypeOK
<1>6. ASSUME NEW j \in Job, Volume!Answer(j) \/ Volume!Refuse(j) \/ Volume!PipFails(j) \/ Volume!TimeOut(j)
      PROVE  Volume!TypeOK'
  <2>1. /\ job' = [job EXCEPT ![j] = Volume!NoJob] /\ UNCHANGED <<code, info, removal, mixed>>
        /\ cut' \in {cut, cut \union Volume!LeftByPip(j)}
    BY <1>6 DEF Volume!Answer, Volume!Refuse, Volume!PipFails, Volume!TimeOut
  <2>2. job' \in [Job -> Slot]
    BY <1>1, <2>1, NoJobSlot, SlotSet
  <2> QED
    BY <1>2, <2>1, <2>2 DEF Volume!TypeOK, Volume!LeftByPip
<1>7. ASSUME NEW p \in Given, Volume!BeginUninstall(p) PROVE Volume!TypeOK'
  <2>1. Volume!Named(p).entries \in SUBSET Entry /\ Volume!Named(p).infos \in SUBSET Volume!Infos
    BY DEF Volume!Named, Volume!TypeOK
  <2>2. mixed' \in BOOLEAN
    BY <1>7 DEF Volume!BeginUninstall, Volume!TypeOK
  <2> QED
    BY <1>1, <1>2, <1>7, <2>1, <2>2 DEF Volume!BeginUninstall, Volume!TypeOK
<1>8. ASSUME NEW e \in Entry, Volume!RemoveEntry(e) PROVE Volume!TypeOK'
  BY <1>1, <1>2, <1>8 DEF Volume!RemoveEntry, Volume!TypeOK
<1>9. ASSUME NEW i \in Volume!Infos, Volume!RemoveInfo(i) PROVE Volume!TypeOK'
  BY <1>1, <1>2, <1>9 DEF Volume!RemoveInfo, Volume!TypeOK
<1>10. Volume!NoRemoval \in [pkg : Given \union {None}, entries : SUBSET Entry, infos : SUBSET Volume!Infos]
  BY DEF Volume!NoRemoval
<1>11. ASSUME Volume!EndUninstall \/ Volume!RemovalFails \/ Volume!Restart PROVE Volume!TypeOK'
  <2>1. /\ removal' = Volume!NoRemoval /\ UNCHANGED <<code, info, mixed>>
        /\ job' \in {job, [j \in Job |-> Volume!NoJob]}
    BY <1>11 DEF Volume!EndUninstall, Volume!RemovalFails, Volume!Restart
  <2>2. cut' \subseteq Pkg
    BY <1>11 DEF Volume!EndUninstall, Volume!RemovalFails, Volume!Restart, Volume!LeftByPip,
       Volume!LeftByRemoval, Volume!TypeOK
  <2>3. job' \in [Job -> Slot]
    BY <1>1, <2>1, NoJobSlot
  <2> QED
    BY <1>2, <1>10, <2>1, <2>2, <2>3 DEF Volume!TypeOK
<1>12. CASE UNCHANGED volumeVars
  BY <1>12 DEF volumeVars, Volume!TypeOK
<1> QED
  BY <1>3, <1>4, <1>5, <1>6, <1>7, <1>8, <1>9, <1>11, <1>12, VolumeSteps

\* Only what is at work in the meantime is lost.
LEMMA VolumeInit == Volume!Init => VolumeInv
<1> SUFFICES ASSUME Volume!Init PROVE VolumeInv
  OBVIOUS
<1>1. Volume!TypeOK
  BY NoJobSlot DEF Volume!Init, Volume!TypeOK, Slot, Volume!NoRemoval
<1>2. OneByOne
  BY DEF Volume!Init, OneByOne, Coming, Listed, Removing
<1> QED
  BY <1>1, <1>2 DEF VolumeInv

\* A run that is at work has a package, and is the only one.
LEMMA BusySlot ==
    ASSUME NEW w \in Slot, w.pkg \in Pkg
    PROVE  w # Volume!NoJob
  BY VolumeAssumption DEF Volume!NoJob

\* Nothing is at work, and everything listed has its code.
LEMMA AtRest ==
    ASSUME Volume!TypeOK, OneByOne, removal = Volume!NoRemoval, \A j \in Job : job[j] = Volume!NoJob
    PROVE  \A i \in info : \A e \in Volume!Own(i[1]) : code[e] # None \/ i[1] \in cut
  BY DEF OneByOne, Listed, Ahead, Volume!NoRemoval

\* pip begins.
LEMMA InstallKeeps ==
    ASSUME Volume!TypeOK, OneByOne, NEW j \in Job, NEW p \in Pkg, NEW v \in Version,
           Volume!Install(j, p, v), job' = [job EXCEPT ![j] = Asked(p, v)], ~mixed'
    PROVE  OneByOne'
<1>1. \A k \in Job : job[k] = Volume!NoJob
  BY DEF Volume!Install, Volume!AtWork, Volume!Idle
<1>2. /\ job'[j] = Asked(p, v) /\ \A k \in Job : k # j => job'[k] = Volume!NoJob
      /\ removal' = Volume!NoRemoval /\ removal = Volume!NoRemoval /\ UNCHANGED <<info, code, cut>>
  BY <1>1, AskedSlot, SlotSet DEF Volume!Install, Volume!TypeOK, Slot
<1>3. \A k \in Job : Coming(k)'
  <2>1. Coming(j)'
    BY <1>2, AskedSlot DEF Coming, Asked
  <2> QED
    BY <1>2, <2>1 DEF Coming
<1>4. Listed' /\ Removing'
  BY <1>1, <1>2, AtRest DEF Listed, Removing
<1> QED
  BY <1>2, <1>3, <1>4 DEF OneByOne

\* Code comes in: nobody misses any.
LEMMA MoveEntryKeeps ==
    ASSUME Volume!TypeOK, OneByOne, NEW j \in Job, NEW e \in Entry,
           Volume!MoveEntry(j, e), job' = [job EXCEPT ![j] = EntryTaken(job[j], e)]
    PROVE  OneByOne'
<1>1. job \in [Job -> Slot]
  BY DEF Volume!TypeOK, Slot
<1>2. job[j] # Volume!NoJob /\ job[j].ver \in Version /\ job[j].pkg \in Pkg
  <2>1. job[j] # Volume!NoJob
    BY DEF Volume!MoveEntry, Volume!NoJob
  <2> QED
    BY <2>1 DEF OneByOne, Coming
<1>3. /\ job' \in [Job -> Slot]
      /\ job'[j].pkg = job[j].pkg /\ job'[j].ver = job[j].ver /\ job'[j].infos = job[j].infos
      /\ job'[j].entries = job[j].entries \ {e}
      /\ \A k \in Job : k # j => job'[k] = job[k]
  <2> DEFINE w == EntryTaken(job[j], e)
  <2>1. /\ w \in Slot /\ w.pkg = job[j].pkg /\ w.ver = job[j].ver
        /\ w.infos = job[j].infos /\ w.entries = job[j].entries \ {e}
    BY <1>1, EntryTakenSlot, InfoTakenSlot
  <2>2. job' = [job EXCEPT ![j] = w]
    OBVIOUS
  <2> HIDE DEF w
  <2> QED
    BY <1>1, <2>1, <2>2, SlotSet
<1>4. job'[j] # Volume!NoJob
  BY <1>2, <1>3, BusySlot
<1>5. info' = info /\ removal' = removal /\ cut' = cut
  BY DEF Volume!MoveEntry
<1>6. code'[e] # None /\ \A d \in Entry : code[d] # None => code'[d] # None
  BY <1>2, VolumeAssumption DEF Volume!MoveEntry, Volume!TypeOK
<1>7. \A k, l \in Job : job'[k] # Volume!NoJob /\ job'[l] # Volume!NoJob => k = l
  BY <1>2, <1>3 DEF OneByOne
<1>8. ASSUME NEW k \in Job PROVE Coming(k)'
  <2>1. CASE k = j
    <3>1. Coming(j) /\ job[j].infos \subseteq Volume!Infos
      BY <1>1 DEF OneByOne, Slot
    <3>2. \A i \in job[j].infos : \A d \in Owns[i[1]] : d \in Entry
      BY <3>1, VolumeAssumption DEF Volume!Infos
    <3>3. \A i \in job[j].infos : \A d \in Owns[i[1]] : code'[d] # None \/ d \in job'[j].entries
      BY <1>2, <1>3, <1>6, <3>1, <3>2 DEF Coming
    <3> QED
      BY <1>2, <1>3, <2>1, <3>1, <3>3 DEF Coming
  <2>2. CASE k # j
    BY <1>2, <1>3, <2>2 DEF OneByOne, Coming
  <2> QED
    BY <2>1, <2>2
<1>9. Listed'
  <2> SUFFICES ASSUME NEW i \in info, NEW d \in Volume!Own(i[1])
               PROVE  code'[d] # None \/ i[1] \in cut \/ i \in removal.infos \/ Ahead(i, d)'
    BY <1>5 DEF Listed
  <2>1. d \in Entry
    BY VolumeAssumption DEF Volume!TypeOK, Volume!Infos, Volume!Own
  <2>2. CASE Ahead(i, d) /\ d # e
    <3>1. i \in Needs[job[j].pkg] \X {job[j].ver} /\ i \notin job[j].infos /\ d \in job[j].entries
      BY <1>2, <2>2 DEF Ahead, OneByOne
    <3> QED
      BY <1>3, <1>4, <2>2, <3>1 DEF Ahead
  <2> QED
    BY <1>6, <2>1, <2>2 DEF OneByOne, Listed
<1>10. Removing'
  BY <1>2, <1>5 DEF OneByOne, Removing
<1> QED
  BY <1>7, <1>8, <1>9, <1>10 DEF OneByOne

\* What is listed now has its code, or its code is still to come.
LEMMA MoveInfoKeeps ==
    ASSUME Volume!TypeOK, OneByOne, NEW j \in Job, NEW i \in Volume!Infos,
           Volume!MoveInfo(j, i), job' = [job EXCEPT ![j] = InfoTaken(job[j], i)]
    PROVE  OneByOne'
<1>1. job \in [Job -> Slot]
  BY DEF Volume!TypeOK, Slot
<1>2. /\ job[j] # Volume!NoJob /\ job[j].pkg \in Pkg
      /\ i \in job[j].infos /\ i \in Needs[job[j].pkg] \X {job[j].ver}
  <2>1. job[j] # Volume!NoJob /\ i \in job[j].infos
    BY DEF Volume!MoveInfo, Volume!NoJob
  <2> QED
    BY <2>1 DEF OneByOne, Coming
<1>3. /\ job' \in [Job -> Slot]
      /\ job'[j].pkg = job[j].pkg /\ job'[j].ver = job[j].ver /\ job'[j].entries = job[j].entries
      /\ job'[j].infos = job[j].infos \ {i}
      /\ \A k \in Job : k # j => job'[k] = job[k]
  <2> DEFINE w == InfoTaken(job[j], i)
  <2>1. /\ w \in Slot /\ w.pkg = job[j].pkg /\ w.ver = job[j].ver
        /\ w.entries = job[j].entries /\ w.infos = job[j].infos \ {i}
    BY <1>1, EntryTakenSlot, InfoTakenSlot
  <2>2. job' = [job EXCEPT ![j] = w]
    OBVIOUS
  <2> HIDE DEF w
  <2> QED
    BY <1>1, <2>1, <2>2, SlotSet
<1>4. job'[j] # Volume!NoJob
  BY <1>2, <1>3, BusySlot
<1>5. info' = info \union {i} /\ removal' = removal /\ code' = code /\ cut' = cut
  BY DEF Volume!MoveInfo
<1>6. \A k, l \in Job : job'[k] # Volume!NoJob /\ job'[l] # Volume!NoJob => k = l
  BY <1>2, <1>3 DEF OneByOne
<1>7. ASSUME NEW k \in Job PROVE Coming(k)'
  <2>1. CASE k = j
    BY <1>2, <1>3, <1>5, <2>1 DEF OneByOne, Coming
  <2>2. CASE k # j
    BY <1>2, <1>3, <2>2 DEF OneByOne, Coming
  <2> QED
    BY <2>1, <2>2
<1>8. Listed'
  <2> SUFFICES ASSUME NEW h \in info \union {i}, NEW d \in Volume!Own(h[1])
               PROVE  code[d] # None \/ h[1] \in cut \/ h \in removal.infos \/ Ahead(h, d)'
    BY <1>5 DEF Listed
  <2>1. CASE h = i
    <3>1. code[d] # None \/ d \in job[j].entries
      BY <1>2, <2>1 DEF OneByOne, Coming, Volume!Own
    <3> QED
      BY <1>2, <1>3, <1>4, <2>1, <3>1 DEF Ahead
  <2>2. CASE h # i /\ Ahead(h, d)
    <3>1. h \in Needs[job[j].pkg] \X {job[j].ver} /\ h \notin job[j].infos /\ d \in job[j].entries
      BY <1>2, <2>2 DEF Ahead, OneByOne
    <3> QED
      BY <1>3, <1>4, <3>1 DEF Ahead
  <2> QED
    BY <2>1, <2>2 DEF OneByOne, Listed
<1>9. Removing'
  BY <1>2, <1>5 DEF OneByOne, Removing
<1> QED
  BY <1>6, <1>7, <1>8, <1>9 DEF OneByOne

\* pip has moved everything in, or nothing; or what it has not is left in part.
LEMMA AnswerKeeps ==
    ASSUME Volume!TypeOK, OneByOne, NEW j \in Job,
           Volume!Answer(j) \/ Volume!Refuse(j) \/ Volume!PipFails(j) \/ Volume!TimeOut(j)
    PROVE  OneByOne'
<1>1. /\ job[j] # Volume!NoJob /\ job' = [job EXCEPT ![j] = Volume!NoJob]
      /\ info' = info /\ removal' = removal /\ code' = code /\ cut \subseteq cut'
  BY DEF Volume!Answer, Volume!Refuse, Volume!PipFails, Volume!TimeOut, Volume!Idle
<1>2. \A k \in Job : job'[k] = Volume!NoJob
  BY <1>1, SlotSet, NoJobSlot DEF OneByOne, Volume!TypeOK, Slot
<1>3. ASSUME NEW i \in info, NEW e \in Volume!Own(i[1]), Ahead(i, e) PROVE i[1] \in cut'
  <2>1. /\ i \in Needs[job[j].pkg] \X {job[j].ver} /\ i \notin job[j].infos
        /\ e \in job[j].entries
    BY <1>1, <1>3 DEF OneByOne, Ahead
  <2>2. cut' = cut \union Volume!LeftByPip(j)
    BY <2>1 DEF Volume!Answer, Volume!Refuse, Volume!PipFails, Volume!TimeOut
  <2>3. i[1] \in Pkg /\ e \in Owns[i[1]]
    BY DEF Volume!TypeOK, Volume!Infos, Volume!Own
  <2> QED
    BY <2>1, <2>2, <2>3 DEF Volume!LeftByPip
<1>4. Listed'
  BY <1>1, <1>3 DEF OneByOne, Listed
<1>5. Removing'
  BY <1>1 DEF OneByOne, Removing
<1> QED
  BY <1>2, <1>4, <1>5 DEF OneByOne, Coming

\* An uninstall while pip is at rest.
LEMMA BeginUninstallKeeps ==
    ASSUME Volume!TypeOK, OneByOne, NEW p \in Given, Volume!BeginUninstall(p), ~mixed'
    PROVE  OneByOne'
<1>1. \A k \in Job : job[k] = Volume!NoJob
  BY DEF Volume!BeginUninstall, Volume!AtWork, Volume!Idle
<1>2. /\ removal = Volume!NoRemoval /\ UNCHANGED <<job, info, code, cut>>
      /\ removal'.pkg = p /\ removal'.entries = Volume!Named(p).entries
      /\ removal'.infos = Volume!Named(p).infos
  BY DEF Volume!BeginUninstall
<1>3. \A i \in info : \A e \in Volume!Own(i[1]) : code[e] # None \/ i[1] \in cut
  BY <1>1, <1>2, AtRest
<1>4. Listed'
  BY <1>2, <1>3 DEF Listed
<1>5. Removing'
  BY <1>1, <1>2 DEF Removing, Volume!Named
<1> QED
  BY <1>1, <1>2, <1>4, <1>5 DEF OneByOne, Coming

\* Only entries of the name that goes are taken out; a package of that name is
\* still to be taken off the list if it is on it.
LEMMA RemoveKeeps ==
    ASSUME Volume!TypeOK, OneByOne,
           \/ \E e \in Entry : Volume!RemoveEntry(e)
           \/ \E i \in Volume!Infos : Volume!RemoveInfo(i)
           \/ Volume!EndUninstall \/ Volume!RemovalFails
    PROVE  OneByOne'
<1>1. removal # Volume!NoRemoval
  BY DEF Volume!RemoveEntry, Volume!RemoveInfo, Volume!EndUninstall, Volume!RemovalFails,
         Volume!NoRemoval
<1>2. /\ removal.pkg \in Given /\ \A k \in Job : job[k] = Volume!NoJob
      /\ \A i \in info : i[1] = removal.pkg => i \in removal.infos
      /\ \A i \in removal.infos : i[1] = removal.pkg
      /\ \A e \in removal.entries : Stem[e] = removal.pkg
  BY <1>1 DEF OneByOne, Removing
<1>3. job' = job
  BY DEF Volume!RemoveEntry, Volume!RemoveInfo, Volume!EndUninstall, Volume!RemovalFails
<1>4. \A i \in info : \A e \in Volume!Own(i[1]) : code[e] # None \/ i[1] \in cut \/ i \in removal.infos
  BY <1>2 DEF OneByOne, Listed, Ahead
<1>5. ASSUME NEW e \in Entry, Volume!RemoveEntry(e) PROVE Listed' /\ Removing'
  <2>1. /\ code' = [code EXCEPT ![e] = None] /\ info' = info /\ cut' = cut /\ e \in removal.entries
        /\ removal'.infos = removal.infos /\ removal'.pkg = removal.pkg
        /\ removal'.entries = removal.entries \ {e}
    BY <1>5 DEF Volume!RemoveEntry, Volume!TypeOK
  <2>2. ASSUME NEW i \in info, NEW d \in Volume!Own(i[1]), d = e PROVE i \in removal.infos
    <3>1. Stem[e] = removal.pkg
      BY <1>2, <2>1
    <3>2. Stem[e] # None
      BY <1>2, <3>1, VolumeAssumption
    <3> QED
      BY <1>2, <2>2, <3>1, <3>2 DEF Volume!Own
  <2> QED
    BY <1>2, <1>3, <1>4, <2>1, <2>2 DEF Listed, Removing, Volume!TypeOK
<1>6. ASSUME NEW i \in Volume!Infos, Volume!RemoveInfo(i) PROVE Listed' /\ Removing'
  <2>1. /\ code' = code /\ info' = info \ {i} /\ cut' = cut
        /\ removal'.infos = removal.infos \ {i} /\ removal'.pkg = removal.pkg
        /\ removal'.entries = removal.entries
    BY <1>6 DEF Volume!RemoveInfo, Volume!TypeOK
  <2> QED
    BY <1>2, <1>3, <1>4, <2>1 DEF Listed, Removing
<1>7. ASSUME Volume!EndUninstall PROVE Listed' /\ Removing'
  <2>1. /\ removal.infos = {} /\ removal' = Volume!NoRemoval /\ info' = info /\ code' = code
        /\ \A p \in cut : p # removal.pkg => p \in cut'
    BY <1>7 DEF Volume!EndUninstall
  <2>2. \A i \in info : i[1] # removal.pkg
    BY <1>2, <2>1
  <2> QED
    BY <1>4, <2>1, <2>2 DEF Listed, Removing
<1>8. ASSUME Volume!RemovalFails PROVE Listed' /\ Removing'
  <2>1. /\ removal' = Volume!NoRemoval /\ info' = info /\ code' = code
        /\ cut' = cut \union Volume!LeftByRemoval
    BY <1>8 DEF Volume!RemovalFails
  <2>2. ASSUME NEW i \in info, i \in removal.infos PROVE i[1] \in cut'
    BY <1>2, <2>1, <2>2 DEF Volume!LeftByRemoval, Volume!TypeOK, Volume!Infos
  <2> QED
    BY <1>4, <2>1, <2>2 DEF Listed, Removing
<1> QED
  BY <1>2, <1>3, <1>5, <1>6, <1>7, <1>8 DEF OneByOne, Coming

\* What was at work when the container went is left in part.
LEMMA RestartKeeps ==
    ASSUME Volume!TypeOK, OneByOne, Volume!Restart
    PROVE  OneByOne'
<1>1. /\ job' = [j \in Job |-> Volume!NoJob] /\ removal' = Volume!NoRemoval
      /\ info' = info /\ code' = code
      /\ cut' = cut \union Volume!LeftByRemoval \union UNION {Volume!LeftByPip(j) : j \in Job}
  BY DEF Volume!Restart
<1>2. ASSUME NEW i \in info, NEW e \in Volume!Own(i[1]), i \in removal.infos \/ Ahead(i, e)
      PROVE  i[1] \in cut'
  <2>1. i[1] \in Pkg /\ e \in Owns[i[1]]
    BY DEF Volume!TypeOK, Volume!Infos, Volume!Own
  <2>2. CASE i \in removal.infos
    <3>1. i[1] = removal.pkg
      BY <2>2 DEF OneByOne, Removing, Volume!NoRemoval
    <3> QED
      BY <1>1, <2>1, <3>1 DEF Volume!LeftByRemoval
  <2>3. CASE Ahead(i, e)
    <3>1. PICK j \in Job : e \in job[j].entries
      BY <2>3 DEF Ahead
    <3>2. i[1] \in Volume!LeftByPip(j)
      BY <2>1, <3>1 DEF Volume!LeftByPip
    <3> QED
      BY <1>1, <3>2
  <2> QED
    BY <1>2, <2>2, <2>3
<1>3. Listed'
  BY <1>1, <1>2 DEF OneByOne, Listed
<1>4. Removing' /\ \A j \in Job : job'[j] = Volume!NoJob
  BY <1>1 DEF Removing
<1> QED
  BY <1>3, <1>4 DEF OneByOne, Coming

LEMMA VolumeStep == VolumeInv /\ [Volume!Next]_volumeVars => VolumeInv'
<1> SUFFICES ASSUME VolumeInv, [Volume!Next]_volumeVars PROVE VolumeInv'
  OBVIOUS
<1>1. Volume!TypeOK /\ Volume!TypeOK'
  BY VolumeTypes DEF VolumeInv
<1>2. SUFFICES ASSUME ~mixed' PROVE OneByOne'
  BY <1>1 DEF VolumeInv
<1>3. CASE UNCHANGED volumeVars
  <2>1. OneByOne
    BY <1>2, <1>3 DEF VolumeInv, volumeVars
  <2> QED
    BY <1>3, <2>1 DEF volumeVars, OneByOne, Coming, Listed, Ahead, Removing
<1>4. CASE Volume!Next
  <2>1. ~mixed
    BY <1>2, <1>4
    DEF Volume!Next, Volume!Install, Volume!MoveEntry, Volume!MoveInfo, Volume!Answer, Volume!Refuse,
        Volume!PipFails, Volume!TimeOut, Volume!BeginUninstall, Volume!RemoveEntry,
        Volume!RemoveInfo, Volume!EndUninstall, Volume!RemovalFails, Volume!Restart
  <2>2. OneByOne
    BY <2>1 DEF VolumeInv
  <2> QED
    BY <1>1, <1>2, <1>4, <2>2, VolumeSteps, InstallKeeps, MoveEntryKeeps,
       MoveInfoKeeps, AnswerKeeps, BeginUninstallKeeps, RemoveKeeps, RestartKeeps
<1> QED
  BY <1>3, <1>4
-----------------------------------------------------------------------------
\* The record of an evaluation on either side.
Phases == {"idle", "enable", "apply", "build", "turn", "agent"}
Switch == BOOLEAN \union {None}
Request == [scen : Scen \union {None}, def : Evals!Definition \union {None}, file : BOOLEAN]
Container == [phase : Phases, def : Evals!Definition \union {None}, turn : Nat, said : Evals!Said,
              own : Switch, saw : Switch]

\* What the backend has, and the evaluations it waits for.
Tables ==
    /\ scen \in [Scen -> Evals!Definition \union {None}] /\ agent \in BOOLEAN
    /\ runs \subseteq [scen : Scen, status : Evals!Status]
    /\ settings \in [enabled : BOOLEAN, tool : BOOLEAN] /\ stray \in Nat
    /\ req \in [Eval -> Request]
    /\ \A q \in Eval : req[q] # Evals!NoReq => req[q].scen \in Scen /\ req[q].def \in Evals!Definition

\* An evaluation of the container has its definition, and comes to the settings
\* only if there are some.  As long as it counts the switch as its own, the user's
\* is as it has set it, and so was what its chat has read.
Placed(j) ==
    /\ j \in Container
    /\ j.phase # "idle" => j.def \in Evals!Definition
    /\ j.phase = "apply" => j.def.set # None
Under(j, tool) ==
    /\ j.own # None => tool = j.own
    /\ j.phase = "agent" /\ j.own # None => j.saw = j.own
Containers ==
    /\ evalJob \in [Eval -> Container]
    /\ \A q \in Eval : Placed(evalJob[q]) /\ Under(evalJob[q], settings.tool)

EvalsInv == Tables /\ Containers

LEMMA EvalsKept == EvalsInv => Evals!TypeOK /\ UnderItsSettings
  BY DEF EvalsInv, Tables, Containers, Request, Container, Phases, Switch, Under, Evals!TypeOK,
         UnderItsSettings, Evals!UnderItsSettings

\* What a definition says.
LEMMA DefinitionFields ==
    \A d \in Evals!Definition : d.turns \in Nat /\ d.route \in BOOLEAN /\ d.set \in Switch
<1>1. \A d \in Defs : d.turns \in Nat /\ d.route \in BOOLEAN /\ d.set \in Switch
  BY EvalsAssumption DEF Switch
<1>2. ASSUME NEW d \in Defs
      PROVE  /\ Evals!FromFile(d).turns \in Nat /\ Evals!FromFile(d).route \in BOOLEAN
             /\ Evals!FromFile(d).set \in Switch
  <2>1. d \in [turns : Nat, route : BOOLEAN, set : BOOLEAN \union {None},
               check : {"none", "positive", "negative", "judge", "incomplete", "refused"}]
    BY EvalsAssumption
  <2> QED
    BY <2>1 DEF Evals!FromFile, Switch
<1> QED
  BY <1>1, <1>2 DEF Evals!Definition

LEMMA NewContainer ==
    Evals!NoJob \in Container /\ Placed(Evals!NoJob) /\ \A tool : Under(Evals!NoJob, tool)
<1>1. /\ Evals!NoJob.phase = "idle" /\ Evals!NoJob.own = None
      /\ Evals!NoJob \in Container
  BY DEF Evals!NoJob, Container, Phases, Switch, Evals!Said
<1> QED
  BY <1>1 DEF Placed, Under

LEMMA EvalsInit == Evals!Init => EvalsInv
<1> SUFFICES ASSUME Evals!Init PROVE EvalsInv
  OBVIOUS
<1>1. Evals!NoReq \in Request
  BY DEF Evals!NoReq, Request
<1>2. Tables
  BY <1>1 DEF Evals!Init, Tables, Evals!Definition
<1>3. evalJob = [q \in Eval |-> Evals!NoJob]
  BY DEF Evals!Init
<1>4. Containers
  BY <1>3, NewContainer DEF Containers
<1> QED
  BY <1>2, <1>4 DEF EvalsInv

\* An evaluation that goes on.
LEMMA EvalGoesOn ==
    ASSUME NEW j \in Container
    PROVE  /\ \A ph \in Phases : [j EXCEPT !.phase = ph] \in Container
           /\ \A n \in Nat, said \in Evals!Said :
                [j EXCEPT !.phase = "turn", !.turn = n, !.said = said, !.saw = None] \in Container
           /\ \A v \in Switch : [j EXCEPT !.phase = "agent", !.saw = v] \in Container
           /\ \A v \in Switch : [j EXCEPT !.phase = "build", !.own = v] \in Container
           /\ [j EXCEPT !.own = None] \in Container
           /\ \A d \in Evals!Definition, ph \in Phases : [j EXCEPT !.def = d, !.phase = ph] \in Container
<1>0. None \in Switch /\ "turn" \in Phases /\ "agent" \in Phases /\ "build" \in Phases
  BY DEF Switch, Phases
<1>1. \A ph \in Phases : [j EXCEPT !.phase = ph] \in Container
  BY ZenonT(60) DEF Container
<1>2. \A n \in Nat, said \in Evals!Said :
        [j EXCEPT !.phase = "turn", !.turn = n, !.said = said, !.saw = None] \in Container
  BY <1>0, ZenonT(60) DEF Container
<1>3. \A v \in Switch : [j EXCEPT !.phase = "agent", !.saw = v] \in Container
  BY <1>0, ZenonT(60) DEF Container
<1>4. \A v \in Switch : [j EXCEPT !.phase = "build", !.own = v] \in Container
  BY <1>0, ZenonT(60) DEF Container
<1>5. [j EXCEPT !.own = None] \in Container
  BY <1>0, ZenonT(60) DEF Container
<1>6. \A d \in Evals!Definition, ph \in Phases : [j EXCEPT !.def = d, !.phase = ph] \in Container
  BY ZenonT(60) DEF Container
<1> QED
  BY <1>1, <1>2, <1>3, <1>4, <1>5, <1>6

LEMMA EvalTypes ==
    ASSUME EvalsInv, NEW q \in Eval
    PROVE  /\ evalJob[q] \in Container /\ Placed(evalJob[q]) /\ Under(evalJob[q], settings.tool)
           /\ evalJob[q].turn \in Nat /\ settings.tool \in BOOLEAN /\ Tables /\ Containers
<1>1. evalJob[q] \in Container /\ Placed(evalJob[q]) /\ Under(evalJob[q], settings.tool) /\ Tables /\ Containers
  BY DEF EvalsInv, Containers
<1>2. evalJob[q].turn \in Nat
  BY <1>1 DEF Container
<1>3. settings.tool \in BOOLEAN
  BY <1>1 DEF Tables
<1> QED
  BY <1>1, <1>2, <1>3

\* One evaluation of the container moves on, and the switch stays.
LEMMA OneContainer ==
    ASSUME EvalsInv, NEW q \in Eval, NEW j, Evals!Step(q, j), Placed(j), Under(j, settings.tool),
           settings'.tool = settings.tool, Tables'
    PROVE  EvalsInv'
<1>1. evalJob \in [Eval -> Container] /\ j \in Container
  BY DEF EvalsInv, Containers, Placed
<1>2. evalJob'[q] = j /\ \A p \in Eval : p # q => evalJob'[p] = evalJob[p]
  BY <1>1 DEF Evals!Step
<1>3. evalJob' \in [Eval -> Container]
  BY <1>1 DEF Evals!Step
<1>4. \A p \in Eval : Placed(evalJob'[p]) /\ Under(evalJob'[p], settings.tool)
  BY <1>2 DEF EvalsInv, Containers
<1>5. Containers'
  BY <1>3, <1>4 DEF Containers, Placed, Under
<1> QED
  BY <1>5 DEF EvalsInv

\* The container's evaluations and the switch stay.
LEMMA OnlyTables ==
    ASSUME EvalsInv, UNCHANGED evalJob, settings'.tool = settings.tool, Tables'
    PROVE  EvalsInv'
  BY DEF EvalsInv, Containers, Placed, Under

LEMMA SameTables ==
    ASSUME EvalsInv, UNCHANGED <<scen, runs, agent, req>>,
           settings' \in [enabled : BOOLEAN, tool : BOOLEAN], stray' \in Nat
    PROVE  Tables'
  BY DEF EvalsInv, Tables

LEMMA Resting ==
    ASSUME EvalsInv, UNCHANGED <<scen, runs, agent, req, settings, stray>>
    PROVE  Tables' /\ settings'.tool = settings.tool
  BY DEF EvalsInv, Tables

\* The request ends with its run.
LEMMA Recorded ==
    ASSUME EvalsInv, NEW q \in Eval, Evals!Waiting(q), NEW status \in Evals!Status,
           Evals!Record(q, status), UNCHANGED <<settings, agent, stray>>
    PROVE  Tables'
<1>1. req[q] \in Request /\ req[q].scen \in Scen /\ req[q].def \in Evals!Definition /\ req \in [Eval -> Request]
  BY DEF EvalsInv, Tables, Evals!Waiting
<1>2. scen' \in [Scen -> Evals!Definition \union {None}]
  BY <1>1 DEF EvalsInv, Tables, Evals!Record
<1>3. runs' \subseteq [scen : Scen, status : Evals!Status]
  BY <1>1 DEF EvalsInv, Tables, Evals!Record
<1>4. Evals!NoReq \in Request
  BY DEF Evals!NoReq, Request
<1>5. /\ req' \in [Eval -> Request] /\ req'[q] = Evals!NoReq
      /\ \A p \in Eval : p # q => req'[p] = req[p]
  BY <1>1, <1>4 DEF Evals!Record
<1>6. \A p \in Eval : req'[p] # Evals!NoReq => req'[p].scen \in Scen /\ req'[p].def \in Evals!Definition
  BY <1>5 DEF EvalsInv, Tables
<1> QED
  BY <1>2, <1>3, <1>5, <1>6 DEF EvalsInv, Tables

LEMMA EndsKeep ==
    ASSUME EvalsInv, NEW q \in Eval, NEW status \in Evals!Status, Evals!Ends(q, status)
    PROVE  EvalsInv'
<1>1. Evals!Step(q, Evals!NoJob) /\ UNCHANGED <<settings, agent, stray>>
  BY DEF Evals!Ends
<1>2. Tables'
  <2>1. CASE Evals!Waiting(q)
    BY <1>1, <2>1, Recorded DEF Evals!Ends
  <2>2. CASE ~Evals!Waiting(q)
    BY <1>1, <2>2, Resting DEF Evals!Ends, Evals!table
  <2> QED
    BY <2>1, <2>2
<1> QED
  BY <1>1, <1>2, NewContainer, OneContainer

LEMMA CallKeeps ==
    ASSUME EvalsInv, NEW q \in Eval, NEW s \in Scen, NEW d \in Evals!Definition, NEW file \in BOOLEAN,
           Evals!Call(q, s, d, file)
    PROVE  EvalsInv'
<1>1. /\ req' = [req EXCEPT ![q] = [scen |-> s, def |-> d, file |-> file]]
      /\ UNCHANGED <<scen, runs, settings, agent, stray>>
  BY DEF Evals!Call, Evals!table
<1>2. PICK j \in Evals!Accepted(d) : Evals!Step(q, j)
  BY DEF Evals!Call
<1>3. [scen |-> s, def |-> d, file |-> file] \in Request
  BY DEF Request
<1>4. req \in [Eval -> Request]
  BY DEF EvalsInv, Tables
<1>5. /\ req' \in [Eval -> Request] /\ req'[q] = [scen |-> s, def |-> d, file |-> file]
      /\ \A p \in Eval : p # q => req'[p] = req[p]
  BY <1>1, <1>3, <1>4
<1>6. \A p \in Eval : req'[p] # Evals!NoReq => req'[p].scen \in Scen /\ req'[p].def \in Evals!Definition
  BY <1>5 DEF EvalsInv, Tables
<1>7. Tables'
  BY <1>1, <1>5, <1>6 DEF EvalsInv, Tables
<1>8. Placed(j) /\ Under(j, settings.tool)
  <2>1. CASE j = Evals!NoJob
    BY <2>1, NewContainer
  <2>2. CASE j # Evals!NoJob
    <3>1. PICK ph \in {"enable", "build"} : j = [Evals!NoJob EXCEPT !.def = d, !.phase = ph]
      BY <1>2, <2>2 DEF Evals!Accepted
    <3>2. j \in Container
      BY <3>1, NewContainer, EvalGoesOn DEF Phases
    <3>3. j.phase = ph /\ j.def = d /\ j.own = None
      BY <3>1 DEF Evals!NoJob
    <3> QED
      BY <3>1, <3>2, <3>3 DEF Placed, Under
  <2> QED
    BY <2>1, <2>2
<1> QED
  BY <1>1, <1>2, <1>7, <1>8, OneContainer

LEMMA CallsKeep ==
    ASSUME EvalsInv, NEW q \in Eval, NEW s \in Scen,
           Evals!RunScenario(q, s) \/ \E d \in Defs : Evals!RunFromFile(q, s, d)
    PROVE  EvalsInv'
<1>1. CASE Evals!RunScenario(q, s)
  <2>1. scen[s] \in Evals!Definition /\ Evals!Call(q, s, scen[s], FALSE)
    BY <1>1 DEF Evals!RunScenario, EvalsInv, Tables
  <2> QED
    BY <2>1, CallKeeps
<1>2. ASSUME NEW d \in Defs, Evals!RunFromFile(q, s, d) PROVE EvalsInv'
  <2>1. Evals!FromFile(d) \in Evals!Definition /\ Evals!Call(q, s, Evals!FromFile(d), TRUE)
    BY <1>2 DEF Evals!RunFromFile, Evals!Definition
  <2> QED
    BY <2>1, CallKeeps
<1> QED
  BY <1>1, <1>2

LEMMA BackendKeeps ==
    ASSUME EvalsInv, NEW q \in Eval, Evals!GivesUp(q) \/ Evals!Dies(q)
    PROVE  EvalsInv'
<1>1. UNCHANGED <<settings, agent, stray, evalJob>>
  BY DEF Evals!GivesUp, Evals!Dies
<1>2. CASE Evals!GivesUp(q)
  <2>1. Evals!Waiting(q) /\ Evals!Record(q, "error") /\ "error" \in Evals!Status
    BY <1>2 DEF Evals!GivesUp, Evals!Status
  <2> QED
    BY <1>1, <2>1, Recorded, OnlyTables
<1>3. CASE Evals!Dies(q)
  <2>1. req' = [req EXCEPT ![q] = Evals!NoReq] /\ UNCHANGED <<scen, runs>>
    BY <1>3 DEF Evals!Dies, Evals!table
  <2>2. Evals!NoReq \in Request
    BY DEF Evals!NoReq, Request
  <2>3. req \in [Eval -> Request]
    BY DEF EvalsInv, Tables
  <2>4. req' \in [Eval -> Request] /\ \A p \in Eval : req'[p] = Evals!NoReq \/ req'[p] = req[p]
    BY <2>1, <2>2, <2>3
  <2>5. Tables'
    BY <1>1, <2>1, <2>4 DEF EvalsInv, Tables
  <2> QED
    BY <1>1, <2>5, OnlyTables
<1> QED
  BY <1>2, <1>3

LEMMA EnableKeeps ==
    ASSUME EvalsInv, NEW q \in Eval, Evals!Enable(q) \/ Evals!SettingsFail(q)
    PROVE  EvalsInv'
<1>1. /\ evalJob[q] \in Container /\ Placed(evalJob[q]) /\ Under(evalJob[q], settings.tool)
      /\ settings \in [enabled : BOOLEAN, tool : BOOLEAN] /\ stray \in Nat
  BY EvalTypes DEF Tables
<1>2. /\ evalJob[q].phase \in {"enable", "apply"} /\ UNCHANGED <<scen, runs, agent, req, stray>>
      /\ settings' = settings \/ settings' = [settings EXCEPT !.enabled = TRUE]
  BY DEF Evals!Enable, Evals!SettingsFail, Evals!table
<1>3. PICK ph \in {"build", "apply"} :
        /\ Evals!Step(q, [evalJob[q] EXCEPT !.phase = ph])
        /\ ph = "apply" => evalJob[q].def.set # None
  BY DEF Evals!Enable, Evals!SettingsFail
<1>4. settings' \in [enabled : BOOLEAN, tool : BOOLEAN] /\ settings'.tool = settings.tool
  BY <1>1, <1>2
<1>5. Tables'
  BY <1>1, <1>2, <1>4, SameTables
<1> DEFINE j == [evalJob[q] EXCEPT !.phase = ph]
<1>6. j \in Container
  BY <1>1, EvalGoesOn DEF Phases
<1>7. j.phase = ph /\ j.def = evalJob[q].def /\ j.own = evalJob[q].own
  BY <1>1 DEF Container
<1>8. Evals!Step(q, j)
  BY <1>3
<1> HIDE DEF j
<1>9. Placed(j) /\ Under(j, settings.tool)
  BY <1>1, <1>2, <1>3, <1>6, <1>7 DEF Placed, Under
<1> QED
  BY <1>4, <1>5, <1>8, <1>9, OneContainer

\* The switch is set: whoever has set it otherwise has lost it.
LEMMA ApplyKeeps ==
    ASSUME EvalsInv, NEW q \in Eval, Evals!Apply(q)
    PROVE  EvalsInv'
<1>1. PICK v : v = evalJob[q].def.set
  OBVIOUS
<1>2. /\ evalJob \in [Eval -> Container] /\ settings \in [enabled : BOOLEAN, tool : BOOLEAN] /\ stray \in Nat
      /\ \A p \in Eval : Placed(evalJob[p]) /\ Under(evalJob[p], settings.tool)
  BY DEF EvalsInv, Tables, Containers
<1>3. evalJob[q].phase = "apply" /\ UNCHANGED <<scen, runs, agent, req, stray>>
  BY DEF Evals!Apply, Evals!table
<1>4. v \in BOOLEAN /\ v \in Switch /\ evalJob[q].def \in Evals!Definition
  BY <1>1, <1>2, <1>3, DefinitionFields DEF Placed, Switch
<1>5. v # None
  BY <1>1, <1>2, <1>3 DEF Placed
<1>6. settings' = [settings EXCEPT !.tool = v]
  BY <1>1, <1>5 DEF Evals!Apply, Evals!Updated
<1>7. settings' \in [enabled : BOOLEAN, tool : BOOLEAN] /\ settings'.tool = v
  BY <1>2, <1>4, <1>6
<1>8. Tables'
  BY <1>2, <1>3, <1>7, SameTables
<1>9. evalJob' = [Evals!Undisturbed(q, v) EXCEPT ![q].phase = "build", ![q].own = v]
  BY <1>1 DEF Evals!Apply
<1>10. /\ DOMAIN evalJob' = Eval
       /\ evalJob'[q] = [evalJob[q] EXCEPT !.phase = "build", !.own = v]
       /\ \A p \in Eval \ {q} : evalJob'[p] = IF evalJob[p].own # None /\ evalJob[p].own # v
                                               THEN [evalJob[p] EXCEPT !.own = None] ELSE evalJob[p]
  BY <1>9 DEF Evals!Undisturbed
<1>11. ASSUME NEW p \in Eval PROVE evalJob'[p] \in Container /\ Placed(evalJob'[p]) /\ Under(evalJob'[p], v)
  <2>1. evalJob[p] \in Container /\ Placed(evalJob[p]) /\ Under(evalJob[p], settings.tool)
    BY <1>2
  <2>2. CASE p = q
    <3> DEFINE j == [evalJob[q] EXCEPT !.phase = "build", !.own = v]
    <3>1. j \in Container
      BY <1>4, <2>1, <2>2, EvalGoesOn
    <3>2. j.phase = "build" /\ j.def = evalJob[q].def /\ j.own = v
      BY <2>1, <2>2 DEF Container
    <3>3. evalJob'[p] = j
      BY <1>10, <2>2
    <3> HIDE DEF j
    <3> QED
      BY <1>4, <3>1, <3>2, <3>3 DEF Placed, Under
  <2>3. CASE p # q /\ evalJob[p].own # None /\ evalJob[p].own # v
    <3> DEFINE j == [evalJob[p] EXCEPT !.own = None]
    <3>1. j \in Container
      BY <2>1, EvalGoesOn
    <3>2. j.phase = evalJob[p].phase /\ j.def = evalJob[p].def /\ j.own = None
      BY <2>1 DEF Container
    <3>3. evalJob'[p] = j
      BY <1>10, <2>3
    <3> HIDE DEF j
    <3> QED
      BY <2>1, <3>1, <3>2, <3>3 DEF Placed, Under
  <2>4. CASE p # q /\ (evalJob[p].own = None \/ evalJob[p].own = v)
    <3>1. evalJob'[p] = evalJob[p]
      BY <1>10, <2>4
    <3> QED
      BY <2>1, <2>4, <3>1 DEF Under
  <2> QED
    BY <2>2, <2>3, <2>4
<1>12. Containers'
  <2>1. evalJob' \in [Eval -> Container]
    BY <1>9, <1>10, <1>11 DEF Evals!Undisturbed
  <2> QED
    BY <1>7, <1>11, <2>1 DEF Containers, Placed, Under
<1> QED
  BY <1>8, <1>12 DEF EvalsInv

LEMMA SaysKeeps ==
    ASSUME EvalsInv, NEW q \in Eval, NEW said \in Evals!Said, Evals!Says(q, said),
           evalJob[q].phase # "idle", Tables', settings'.tool = settings.tool
    PROVE  EvalsInv'
<1>1. /\ evalJob[q] \in Container /\ Placed(evalJob[q]) /\ Under(evalJob[q], settings.tool)
      /\ evalJob[q].turn \in Nat
  BY EvalTypes
<1> DEFINE n == evalJob[q].turn + 1
           j == [evalJob[q] EXCEPT !.phase = "turn", !.turn = n, !.said = said, !.saw = None]
<1>2. n \in Nat
  BY <1>1
<1>3. Evals!Step(q, j)
  BY DEF Evals!Says
<1>4. j \in Container
  BY <1>1, <1>2, EvalGoesOn
<1>5. j.phase = "turn" /\ j.def = evalJob[q].def /\ j.own = evalJob[q].own
  BY <1>1 DEF Container
<1> HIDE DEF j, n
<1>6. Placed(j) /\ Under(j, settings.tool)
  BY <1>1, <1>4, <1>5 DEF Placed, Under
<1> QED
  BY <1>3, <1>6, OneContainer

LEMMA BuildKeeps ==
    ASSUME EvalsInv, NEW q \in Eval, Evals!Build(q) \/ Evals!CannotBuild(q)
    PROVE  EvalsInv'
<1>1. CASE Evals!Build(q)
  <2>1. /\ evalJob[q].phase = "build" /\ Evals!Step(q, [evalJob[q] EXCEPT !.phase = "turn"])
        /\ UNCHANGED <<scen, runs, settings, agent, req, stray>>
    BY <1>1 DEF Evals!Build, Evals!table
  <2>2. evalJob[q] \in Container /\ Placed(evalJob[q]) /\ Under(evalJob[q], settings.tool)
    BY EvalTypes
  <2> DEFINE j == [evalJob[q] EXCEPT !.phase = "turn"]
  <2>3. j \in Container
    BY <2>2, EvalGoesOn DEF Phases
  <2>4. j.phase = "turn" /\ j.def = evalJob[q].def /\ j.own = evalJob[q].own
    BY <2>2 DEF Container
  <2>5. Evals!Step(q, j)
    BY <2>1
  <2> HIDE DEF j
  <2>6. Placed(j) /\ Under(j, settings.tool)
    BY <2>1, <2>2, <2>3, <2>4 DEF Placed, Under
  <2> QED
    BY <2>1, <2>5, <2>6, Resting, OneContainer
<1>2. CASE Evals!CannotBuild(q)
  BY <1>2, EndsKeep DEF Evals!CannotBuild, Evals!Status
<1> QED
  BY <1>1, <1>2

LEMMA AnswersKeep ==
    ASSUME EvalsInv, NEW q \in Eval,
           Evals!Answer(q) \/ Evals!ChatRefused(q) \/ Evals!ChatAnswered(q) \/ Evals!ChatTimesOut(q)
    PROVE  EvalsInv'
<1>1. PICK said \in Evals!Said : Evals!Says(q, said)
  BY DEF Evals!Answer, Evals!ChatRefused, Evals!ChatAnswered, Evals!ChatTimesOut, Evals!Said,
         Evals!MockAnswer
<1>2. evalJob[q].phase # "idle" /\ UNCHANGED <<scen, runs, settings, agent, req>>
  BY DEF Evals!Answer, Evals!ChatRefused, Evals!ChatAnswered, Evals!ChatTimesOut, Evals!Turn, Evals!table
<1>3. stray \in Nat /\ settings \in [enabled : BOOLEAN, tool : BOOLEAN]
  BY DEF EvalsInv, Tables
<1>4. stray' \in Nat
  BY <1>3 DEF Evals!Answer, Evals!ChatRefused, Evals!ChatAnswered, Evals!ChatTimesOut
<1>5. Tables'
  BY <1>2, <1>3, <1>4, SameTables
<1> QED
  BY <1>1, <1>2, <1>5, SaysKeeps

\* The chat reads the switch that counts.
LEMMA ChatKeeps ==
    ASSUME EvalsInv, NEW q \in Eval, Evals!Chat(q)
    PROVE  EvalsInv'
<1>1. evalJob[q].phase = "turn" /\ UNCHANGED <<scen, runs, settings, agent, req, stray>>
  BY DEF Evals!Chat, Evals!Turn, Evals!table
<1>2. Tables' /\ settings'.tool = settings.tool
  BY <1>1, Resting
<1>3. CASE agent /\ settings.enabled
  <2>1. /\ evalJob[q] \in Container /\ Placed(evalJob[q]) /\ Under(evalJob[q], settings.tool)
        /\ settings.tool \in Switch
    BY EvalTypes DEF Switch
  <2> DEFINE j == [evalJob[q] EXCEPT !.phase = "agent", !.saw = settings.tool]
  <2>2. Evals!Step(q, j)
    BY <1>3 DEF Evals!Chat
  <2>3. j \in Container
    BY <2>1, EvalGoesOn
  <2>4. j.phase = "agent" /\ j.def = evalJob[q].def /\ j.own = evalJob[q].own /\ j.saw = settings.tool
    BY <2>1 DEF Container
  <2> HIDE DEF j
  <2>5. Placed(j) /\ Under(j, settings.tool)
    BY <1>1, <2>1, <2>3, <2>4 DEF Placed, Under
  <2> QED
    BY <1>2, <2>2, <2>5, OneContainer
<1>4. CASE ~(agent /\ settings.enabled)
  <2>1. Evals!Says(q, "other") /\ "other" \in Evals!Said
    BY <1>4 DEF Evals!Chat, Evals!Said
  <2> QED
    BY <1>1, <1>2, <2>1, SaysKeeps
<1> QED
  BY <1>3, <1>4

LEMMA JudgeKeeps ==
    ASSUME EvalsInv, NEW q \in Eval, Evals!Judge(q)
    PROVE  EvalsInv'
<1>1. PICK v \in Evals!Parsed(evalJob[q].def.check, evalJob[q].said) :
        Evals!Ends(q, IF v THEN "passed" ELSE "failed")
  BY DEF Evals!Judge
<1>2. PICK status \in Evals!Status : Evals!Ends(q, status)
  BY <1>1 DEF Evals!Status
<1> QED
  BY <1>2, EndsKeep

\* What the user does to scenarios and agents.
LEMMA TablesKeep ==
    ASSUME EvalsInv,
           \/ \E s \in Scen, d \in Defs : Evals!CreateScenario(s, d) \/ Evals!UpdateScenario(s, d)
           \/ \E s \in Scen : Evals!DeleteScenario(s)
           \/ Evals!DeleteAgent \/ Evals!StrayEnds
    PROVE  EvalsInv'
<1>1. UNCHANGED <<settings, req, evalJob>>
  BY DEF Evals!CreateScenario, Evals!UpdateScenario, Evals!DeleteScenario, Evals!DeleteAgent, Evals!StrayEnds
<1>2. /\ scen \in [Scen -> Evals!Definition \union {None}] /\ stray \in Nat
      /\ runs \subseteq [scen : Scen, status : Evals!Status]
  BY DEF EvalsInv, Tables
<1>3. ASSUME NEW s \in Scen, NEW d \in Defs, Evals!CreateScenario(s, d) \/ Evals!UpdateScenario(s, d)
      PROVE  Tables'
  <2>1. scen' = [scen EXCEPT ![s] = d] /\ UNCHANGED <<runs, agent, stray>>
    BY <1>3 DEF Evals!CreateScenario, Evals!UpdateScenario
  <2>2. d \in Evals!Definition
    BY DEF Evals!Definition
  <2>3. scen' \in [Scen -> Evals!Definition \union {None}]
    BY <1>2, <2>1, <2>2
  <2> QED
    BY <1>1, <2>1, <2>3 DEF EvalsInv, Tables
<1>4. ASSUME NEW s \in Scen, Evals!DeleteScenario(s) PROVE Tables'
  <2>1. scen' = [scen EXCEPT ![s] = None] /\ runs' \subseteq runs /\ UNCHANGED <<agent, stray>>
    BY <1>4 DEF Evals!DeleteScenario
  <2>2. scen' \in [Scen -> Evals!Definition \union {None}] /\ runs' \subseteq [scen : Scen, status : Evals!Status]
    BY <1>2, <2>1
  <2> QED
    BY <1>1, <2>1, <2>2 DEF EvalsInv, Tables
<1>5. ASSUME Evals!DeleteAgent PROVE Tables'
  BY <1>1, <1>5 DEF EvalsInv, Tables, Evals!DeleteAgent, Evals!table
<1>6. ASSUME Evals!StrayEnds PROVE Tables'
  <2>1. stray' \in Nat
    BY <1>2, <1>6 DEF Evals!StrayEnds
  <2> QED
    BY <1>1, <1>6, <2>1 DEF EvalsInv, Tables, Evals!StrayEnds, Evals!table
<1>7. Tables'
  BY <1>3, <1>4, <1>5, <1>6
<1> QED
  BY <1>1, <1>7, OnlyTables

\* The user sets the switch: an evaluation that has set it otherwise has lost it.
LEMMA UserSetsKeeps ==
    ASSUME EvalsInv, NEW e \in BOOLEAN, NEW v \in Switch, Evals!UserSets(e, v)
    PROVE  EvalsInv'
<1>1. /\ evalJob \in [Eval -> Container] /\ settings \in [enabled : BOOLEAN, tool : BOOLEAN] /\ stray \in Nat
      /\ \A p \in Eval : Placed(evalJob[p]) /\ Under(evalJob[p], settings.tool)
  BY DEF EvalsInv, Tables, Containers
<1>2. PICK t : t = IF v = None THEN settings.tool ELSE v
  OBVIOUS
<1>3. t \in BOOLEAN
  BY <1>1, <1>2 DEF Switch
<1>4. settings' = [enabled |-> e, tool |-> t] /\ UNCHANGED <<scen, runs, agent, req, stray>>
  BY <1>2 DEF Evals!UserSets, Evals!Updated, Evals!table
<1>5. settings' \in [enabled : BOOLEAN, tool : BOOLEAN] /\ settings'.tool = t
  BY <1>3, <1>4
<1>6. Tables'
  BY <1>1, <1>4, <1>5, SameTables
<1>7. evalJob' = [q \in Eval |-> IF v # None /\ evalJob[q].own # None /\ evalJob[q].own # v
                                 THEN [evalJob[q] EXCEPT !.own = None] ELSE evalJob[q]]
  BY DEF Evals!UserSets
<1>8. ASSUME NEW p \in Eval PROVE evalJob'[p] \in Container /\ Placed(evalJob'[p]) /\ Under(evalJob'[p], t)
  <2>1. evalJob[p] \in Container /\ Placed(evalJob[p]) /\ Under(evalJob[p], settings.tool)
    BY <1>1
  <2>2. CASE v # None /\ evalJob[p].own # None /\ evalJob[p].own # v
    <3> DEFINE j == [evalJob[p] EXCEPT !.own = None]
    <3>1. j \in Container
      BY <2>1, EvalGoesOn
    <3>2. j.phase = evalJob[p].phase /\ j.def = evalJob[p].def /\ j.own = None
      BY <2>1 DEF Container
    <3>3. evalJob'[p] = j
      BY <1>7, <2>2
    <3> HIDE DEF j
    <3> QED
      BY <2>1, <3>1, <3>2, <3>3 DEF Placed, Under
  <2>3. CASE ~(v # None /\ evalJob[p].own # None /\ evalJob[p].own # v)
    <3>1. evalJob'[p] = evalJob[p]
      BY <1>7, <2>3
    <3> QED
      BY <1>2, <2>1, <2>3, <3>1 DEF Under
  <2> QED
    BY <2>2, <2>3
<1>9. evalJob' \in [Eval -> Container]
  BY <1>7, <1>8
<1>10. Containers'
  BY <1>5, <1>8, <1>9 DEF Containers, Placed, Under
<1> QED
  BY <1>6, <1>10 DEF EvalsInv

LEMMA RestartsKeep ==
    ASSUME EvalsInv, Evals!BackendRestarts \/ Evals!ContainerRestarts
    PROVE  EvalsInv'
<1>1. /\ evalJob \in [Eval -> Container] /\ stray \in Nat /\ req \in [Eval -> Request]
      /\ \A p \in Eval : Placed(evalJob[p]) /\ Under(evalJob[p], settings.tool)
  BY DEF EvalsInv, Tables, Containers
<1>2. UNCHANGED <<scen, runs, settings, agent>>
  BY DEF Evals!BackendRestarts, Evals!ContainerRestarts, Evals!table
<1>3. Evals!NoReq \in Request
  BY DEF Evals!NoReq, Request
<1>4. IsFiniteSet({q \in Eval : evalJob[q].phase = "agent"})
  BY EvalsAssumption, FS_Subset
<1> DEFINE waiting == Evals!Cardinality({q \in Eval : evalJob[q].phase = "agent"})
<1>5. waiting \in Nat
  BY <1>4, FS_CardinalityType, SameCardinality
<1>6. stray' \in Nat
  <2>1. stray' = 0 \/ stray' = stray + waiting
    BY DEF Evals!BackendRestarts, Evals!ContainerRestarts
  <2> HIDE DEF waiting
  <2> QED
    BY <1>1, <1>5, <2>1
<1>7. req' = [q \in Eval |-> Evals!NoReq] \/ req' = req
  BY DEF Evals!BackendRestarts, Evals!ContainerRestarts
<1>8. Tables'
  BY <1>1, <1>2, <1>3, <1>6, <1>7 DEF EvalsInv, Tables
<1>9. ASSUME NEW p \in Eval
      PROVE  evalJob'[p] \in Container /\ Placed(evalJob'[p]) /\ Under(evalJob'[p], settings.tool)
  <2>1. evalJob[p] \in Container /\ Placed(evalJob[p]) /\ Under(evalJob[p], settings.tool)
        /\ evalJob[p].turn \in Nat
    BY <1>1 DEF Container
  <2>2. CASE Evals!ContainerRestarts
    <3>1. evalJob'[p] = Evals!NoJob
      BY <2>2 DEF Evals!ContainerRestarts
    <3> QED
      BY <3>1, NewContainer
  <2>3. CASE Evals!BackendRestarts /\ evalJob[p].phase = "agent"
    <3> DEFINE n == evalJob[p].turn + 1
               j == [evalJob[p] EXCEPT !.phase = "turn", !.turn = n, !.said = "other", !.saw = None]
    <3>1. n \in Nat
      BY <2>1
    <3>2. j \in Container
      BY <2>1, <3>1, EvalGoesOn DEF Evals!Said
    <3>3. j.phase = "turn" /\ j.def = evalJob[p].def /\ j.own = evalJob[p].own
      BY <2>1 DEF Container
    <3>4. evalJob'[p] = j
      BY <2>3 DEF Evals!BackendRestarts
    <3> HIDE DEF j, n
    <3> QED
      BY <2>1, <2>3, <3>2, <3>3, <3>4 DEF Placed, Under
  <2>4. CASE Evals!BackendRestarts /\ evalJob[p].phase # "agent"
    <3>1. evalJob'[p] = evalJob[p]
      BY <2>4 DEF Evals!BackendRestarts
    <3> QED
      BY <2>1, <3>1
  <2> QED
    BY <2>2, <2>3, <2>4
<1>10. DOMAIN evalJob' = Eval /\ evalJob' = [p \in Eval |-> evalJob'[p]]
  BY DEF Evals!BackendRestarts, Evals!ContainerRestarts
<1>11. Containers'
  BY <1>2, <1>9, <1>10 DEF Containers, Placed, Under
<1> QED
  BY <1>8, <1>11 DEF EvalsInv

\* Every step of the evaluations keeps it.
LEMMA EvalsStep == EvalsInv /\ [Evals!Next]_evalVars => EvalsInv'
<1> SUFFICES ASSUME EvalsInv, [Evals!Next]_evalVars PROVE EvalsInv'
  OBVIOUS
<1>1. CASE UNCHANGED evalVars
  BY <1>1, Resting, OnlyTables DEF evalVars
<1>2. CASE Evals!Next
  <2>1. ASSUME NEW q \in Eval,
               \/ Evals!GivesUp(q) \/ Evals!Dies(q)
               \/ Evals!Enable(q) \/ Evals!Apply(q) \/ Evals!SettingsFail(q)
               \/ Evals!Build(q) \/ Evals!CannotBuild(q)
               \/ Evals!Answer(q) \/ Evals!Chat(q) \/ Evals!ChatRefused(q) \/ Evals!ChatAnswered(q)
               \/ Evals!ChatTimesOut(q) \/ Evals!Judge(q)
        PROVE  EvalsInv'
    BY <2>1, BackendKeeps, EnableKeeps, ApplyKeeps, BuildKeeps, AnswersKeep, ChatKeeps, JudgeKeeps
  <2>2. ASSUME NEW e \in BOOLEAN, NEW v \in BOOLEAN \union {None}, Evals!UserSets(e, v) PROVE EvalsInv'
    BY <2>2, UserSetsKeeps DEF Switch
  <2> QED
    BY <1>2, <2>1, <2>2, CallsKeep, TablesKeep, RestartsKeep DEF Evals!Next
<1> QED
  BY <1>1, <1>2
-----------------------------------------------------------------------------
\* A quiet volume lists what can be imported.
LEMMA VolumeKept == VolumeInv => ListedHasCode
<1>1. ASSUME VolumeInv, ~mixed, Volume!Quiet
      PROVE  \A i \in info : \A e \in Volume!Own(i[1]) : code[e] # None \/ i[1] \in cut
  <2>1. Volume!TypeOK /\ OneByOne
    BY <1>1 DEF VolumeInv
  <2>2. removal = Volume!NoRemoval /\ \A j \in Job : job[j] = Volume!NoJob
    BY <1>1 DEF Volume!Quiet, Volume!AtWork, Volume!Idle
  <2> QED
    BY <2>1, <2>2, AtRest
<1> QED
  BY <1>1 DEF ListedHasCode, Volume!ListedHasCode

\* The four invariants together.
SharedInv == IInv /\ MemoryInv /\ VolumeInv /\ EvalsInv

LEMMA SharedStart == SharedInit => SharedInv
  BY InitInv, MemoryInit, VolumeInit, EvalsInit DEF SharedInit, SharedInv

\* A step is one of a single module, and the others rest.
LEMMA OneModule ==
    [SharedNext]_allVars =>
        [Next]_vars /\ [Memory!Next]_memoryVars /\ [Volume!Next]_volumeVars /\ [Evals!Next]_evalVars
  BY DEF SharedNext, allVars

LEMMA SharedStep == SharedInv /\ [SharedNext]_allVars => SharedInv'
<1> SUFFICES ASSUME SharedInv, [SharedNext]_allVars PROVE SharedInv'
  OBVIOUS
<1>1. IInv /\ MemoryInv /\ VolumeInv /\ EvalsInv
  BY DEF SharedInv
<1>2. IInv'
  BY <1>1, OneModule, StepInv
<1>3. MemoryInv'
  BY <1>1, OneModule, MemoryStep
<1>4. VolumeInv'
  <2>1. [Volume!Next]_volumeVars
    BY OneModule
  <2>2. CASE Volume!Next
    BY <1>1, <2>2, VolumeStep
  <2>3. CASE UNCHANGED volumeVars
    BY <1>1, <2>3, VolumeStep
  <2> QED
    BY <2>1, <2>2, <2>3
<1>5. EvalsInv'
  BY <1>1, OneModule, EvalsStep
<1> QED
  BY <1>2, <1>3, <1>4, <1>5 DEF SharedInv

\* The invariant holds of every behaviour of the four.
THEOREM SharedInvariance == SharedSpec => []SharedInv
  BY SharedStart, SharedStep, PTL DEF SharedSpec

\* Composing the modules adds no behaviour to any of them: what is proved of
\* one holds here, and what is proved here is about the one.
THEOREM EachIsItself ==
    SharedSpec => Spec /\ Memory!Spec /\ Volume!Spec /\ Evals!Init /\ [][Evals!Next]_evalVars
<1>1. SharedInit => Init /\ Memory!Init /\ Volume!Init /\ Evals!Init
  BY DEF SharedInit
<1>2. [SharedNext]_allVars => [Memory!Next]_(Memory!vars)
  BY OneModule DEF memoryVars, Memory!vars
<1>3. [SharedNext]_allVars => [Volume!Next]_(Volume!vars)
  BY OneModule DEF volumeVars, Volume!vars
<1> QED
  BY <1>1, <1>2, <1>3, OneModule, PTL DEF SharedSpec, Spec, Memory!Spec, Volume!Spec

\* Types of all four, for any constants.
THEOREM SharedTypes == SharedSpec => []SharedTypeOK
<1>1. SharedInv => SharedTypeOK
  BY EvalsKept DEF SharedInv, IInv, MemoryInv, VolumeInv, SharedTypeOK
<1> QED
  BY <1>1, SharedInvariance, PTL

\* What a preparation reports as available is in the agent's memory, unless the
\* files of that skill were copied without its text or its name is also another
\* tag of a passage: whatever calls fail, however many preparations overlap and
\* rows change (agents.archival_memory).
THEOREM ReportedThere == SharedSpec => []ReportedIsThere
<1>1. SharedInv => ReportedIsThere
  BY MemoryKept DEF SharedInv
<1> QED
  BY <1>1, SharedInvariance, PTL

\* Nothing is remembered twice, unless a search failed or two preparations ran
\* at once: a copy is only made after a search that found none.
THEOREM OnceOnly == SharedSpec => []RememberedOnce
<1>1. SharedInv => RememberedOnce
  BY MemoryKept DEF SharedInv
<1> QED
  BY <1>1, SharedInvariance, PTL

\* What the volume lists can be imported, whenever nothing is at work on it and
\* installs and uninstalls have not overlapped: but for packages that a failure
\* or a kill left in part, and for entries that bear another name than their
\* package (pip-sidecar/app.py).
THEOREM ListedImportable == SharedSpec => []ListedHasCode
<1>1. SharedInv => ListedHasCode
  BY VolumeKept DEF SharedInv
<1> QED
  BY <1>1, SharedInvariance, PTL

\* A chat of an evaluation goes under the switch it has set, unless somebody else
\* has set it since, through any restarts, lost calls and late answers
\* (evals.routes, eval/app.py).
THEOREM SettingsHeld == SharedSpec => []UnderItsSettings
<1>1. SharedInv => UnderItsSettings
  BY EvalsKept DEF SharedInv
<1> QED
  BY <1>1, SharedInvariance, PTL
=============================================================================
