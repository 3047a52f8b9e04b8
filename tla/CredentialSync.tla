-------------------------- MODULE CredentialSync --------------------------
(***************************************************************************)
(* One user's credentials and agents.  A credential is a row; an agent is  *)
(* a row and an object of Letta, whose environment must hold the user's    *)
(* credentials.  A request that writes a credential flushes its row, reads *)
(* all the rows back, pushes them to every agent and commits last: the     *)
(* agents are told of what may yet be rolled back, and two such requests   *)
(* do not see each other's rows.  An agent is made in Letta first, with    *)
(* the credentials of that moment, and gets its row last.                  *)
(***************************************************************************)
EXTENDS Naturals

CONSTANTS
    Req,           \* slots for requests in flight; a slot is used again
    Id,            \* ids of credentials; used again once nothing refers to them
    Agent,         \* ids of Letta's agents
    Key, Val,      \* a credential's key; its secrets and url
    MaxArrivals,   \* requests that ever arrive
    MaxFailures,   \* failed calls to Letta and requests that die
    None

VARIABLES
    creds,      \* the committed credentials table
    letta,      \* Letta's agents and their environment
    listed,     \* the committed agents table
    reqs,       \* what each request is at, and what it has read
    torn,       \* (history) the last sync may not have brought everything everywhere
    loose,      \* (history) agents that a failure left in one place only
    arrivals, failures

vars == <<creds, letta, listed, reqs, torn, loose, arrivals, failures>>

ASSUME ConstantsAssumption ==
    /\ MaxArrivals \in Nat /\ MaxFailures \in Nat
    /\ None \notin Req \union Id \union Agent \union Key \union Val
             \union [key : Key, val : Val]

Maybe(S) == S \union {None}
Row == [key : Key, val : Val]
\* An environment is a set of rows: CREDENTIAL_<key> |-> value.
Env == SUBSET Row
Agents == [st : {"never", "live", "gone"}, env : Env]
Stored(c) == {c[i] : i \in Id} \ {None}

\* id: the credential written; row: the session's object (None: deleted); sets:
\* the columns the body changes; env: what goes to the agents; todo, sent: the
\* agents to push to, and those that may have received it; failed: a push
\* failed.  stale (history): another request has moved what this one read, or
\* the agents it has pushed to.
IdleReq == [op |-> "none", pc |-> "idle", id |-> None, row |-> None, sets |-> {},
            agent |-> None, env |-> {}, todo |-> {}, sent |-> {},
            failed |-> FALSE, stale |-> FALSE]
Reqs == [op : {"none", "create", "update", "delete", "agent", "unagent"},
         pc : {"idle", "flush", "creds", "agents", "push", "letta", "attach", "unletta", "unrow"},
         id : Maybe(Id), row : Maybe(Row), sets : SUBSET {"key", "val"},
         agent : Maybe(Agent), env : Env, todo : SUBSET Agent, sent : SUBSET Agent,
         failed : BOOLEAN, stale : BOOLEAN]

UniqueKeys(c) == \A i, j \in Id : i # j /\ c[i] # None /\ c[j] # None => c[i].key # c[j].key

\* Any number of credentials and agents, in agreement.
Init ==
    /\ creds \in [Id -> Maybe(Row)] /\ UniqueKeys(creds)
    /\ listed \in SUBSET Agent
    /\ letta = [a \in Agent |-> IF a \in listed THEN [st |-> "live", env |-> Stored(creds)]
                                ELSE [st |-> "never", env |-> {}]]
    /\ reqs = [q \in Req |-> IdleReq]
    /\ torn = FALSE /\ loose = {} /\ arrivals = 0 /\ failures = 0

Move(q, fields) == reqs' = [reqs EXCEPT ![q] = fields]
\* The request is over, and others are out of date.
End(q, others) ==
    reqs' = [p \in Req |-> IF p = q THEN IdleReq
                           ELSE IF p \in others THEN [reqs[p] EXCEPT !.stale = TRUE]
                           ELSE reqs[p]]
Arrive == arrivals < MaxArrivals /\ arrivals' = arrivals + 1
CountFailure == failures < MaxFailures /\ failures' = failures + 1
Unused(i) == creds[i] = None /\ \A q \in Req : reqs[q].id # i
\* check_unique_for_user.
Taken(k, i) == \E j \in Id \ {i} : creds[j] # None /\ creds[j].key = k

-----------------------------------------------------------------------------
\* A request arrives, is validated, and reads the row it is about.
Begin(q, fields) ==
    /\ reqs[q].pc = "idle" /\ Arrive
    /\ Move(q, fields)
    /\ UNCHANGED <<creds, letta, listed, torn, loose, failures>>

BeginCreate(q, i, k, v) ==
    /\ Unused(i) /\ ~Taken(k, i)
    /\ Begin(q, [IdleReq EXCEPT !.op = "create", !.pc = "flush", !.id = i,
                                !.row = [key |-> k, val |-> v], !.sets = {"key", "val"}])

\* None: the body leaves the field out.  A value is encrypted anew, and so
\* always written; a key only if it differs.  A body that changes only the
\* name writes neither.
\* Variant: a field that is left out counts as null.
BodyNulls(old, k, v) == [key |-> k, val |-> v]
Body(old, k, v) == [key |-> IF k = None THEN old.key ELSE k,
                    val |-> IF v = None THEN old.val ELSE v]
Changes(old, k, v) == (IF k \in {None, old.key} THEN {} ELSE {"key"})
                      \union (IF v = None THEN {} ELSE {"val"})
BeginUpdate(q, i, k, v) ==
    /\ creds[i] # None
    /\ k \notin {None, creds[i].key} => ~Taken(k, i)
    /\ Begin(q, [IdleReq EXCEPT !.op = "update", !.pc = "flush", !.id = i,
                                !.row = Body(creds[i], k, v), !.sets = Changes(creds[i], k, v)])

BeginDelete(q, i) ==
    /\ creds[i] # None
    /\ Begin(q, [IdleReq EXCEPT !.op = "delete", !.pc = "flush", !.id = i])

-----------------------------------------------------------------------------
\* The row as the transaction of q leaves it: the UPDATE names only the
\* columns that were set.
Written(q) ==
    IF reqs[q].op # "update" THEN reqs[q].row
    ELSE [key |-> IF "key" \in reqs[q].sets THEN reqs[q].row.key ELSE creds[reqs[q].id].key,
          val |-> IF "val" \in reqs[q].sets THEN reqs[q].row.val ELSE creds[reqs[q].id].val]

\* Between flush and commit a transaction holds its row, and the keys the row
\* had and will have: others that write either wait.
Writing(q) == reqs[q].pc \in {"creds", "agents", "push"}
Holds(q, k) == \E row \in {creds[reqs[q].id], Written(q)} : row # None /\ row.key = k
NewKey(q, k) == "key" \in reqs[q].sets /\ reqs[q].row.key = k
Waits(q) == \E p \in Req \ {q} : /\ Writing(p)
                                 /\ \/ reqs[p].id = reqs[q].id
                                    \/ \E k \in Key : NewKey(q, k) /\ Holds(p, k)

\* An UPDATE that finds no row is a StaleDataError, a DELETE that finds none is
\* not; a key that is taken is an IntegrityError.
Accepted(q) ==
    /\ reqs[q].op = "update" => creds[reqs[q].id] # None
    /\ \A k \in Key : NewKey(q, k) => ~Taken(k, reqs[q].id)

Flush(q) ==
    /\ reqs[q].pc = "flush" /\ ~Waits(q) /\ Accepted(q)
    /\ Move(q, [reqs[q] EXCEPT !.pc = "creds"])
    /\ UNCHANGED <<creds, letta, listed, torn, loose, arrivals, failures>>

FlushFails(q) ==
    /\ reqs[q].pc = "flush" /\ ~Waits(q) /\ ~Accepted(q)
    /\ Move(q, IdleReq)
    /\ UNCHANGED <<creds, letta, listed, torn, loose, arrivals, failures>>

-----------------------------------------------------------------------------
\* sync_credential_secrets.  The query returns the committed rows and what the
\* transaction wrote; its own row comes as the object the session holds, which
\* a query does not refresh.
\* Variant: the query runs before the flush.
SeesCommitted(q) == Stored(creds)
Sees(q) == Stored([creds EXCEPT ![reqs[q].id] = reqs[q].row])

\* A dictionary of the rows: of two with one key, one remains.
Dict(rows, e) ==
    /\ \A x, y \in e : x.key = y.key => x = y
    /\ \A x \in rows : \E y \in e : y.key = x.key

ReadCreds(q) ==
    /\ reqs[q].pc = "creds"
    /\ \E e \in SUBSET Sees(q) :
          /\ Dict(Sees(q), e)
          /\ Move(q, [reqs[q] EXCEPT !.pc = "agents", !.env = e])
    /\ UNCHANGED <<creds, letta, listed, torn, loose, arrivals, failures>>

ReadAgents(q) ==
    /\ reqs[q].pc = "agents"
    /\ Move(q, [reqs[q] EXCEPT !.pc = "push", !.todo = listed])
    /\ UNCHANGED <<creds, letta, listed, torn, loose, arrivals, failures>>

\* The agents are served side by side, in any order.  An agent's other
\* variables are read and written back; nothing in the code sets any.
Push(q, a) ==
    /\ reqs[q].pc = "push" /\ a \in reqs[q].todo /\ letta[a].st = "live"
    /\ letta' = [letta EXCEPT ![a].env = reqs[q].env]
    /\ Move(q, [reqs[q] EXCEPT !.todo = @ \ {a}, !.sent = @ \union {a}])
    /\ UNCHANGED <<creds, listed, torn, loose, arrivals, failures>>

\* Only logged.  Letta may have got the update all the same.
PushFails(q, a) ==
    /\ reqs[q].pc = "push" /\ a \in reqs[q].todo /\ letta[a].st = "live"
    /\ CountFailure
    /\ \/ /\ letta' = [letta EXCEPT ![a].env = reqs[q].env]
          /\ Move(q, [reqs[q] EXCEPT !.todo = @ \ {a}, !.sent = @ \union {a}, !.failed = TRUE])
       \/ /\ letta' = letta
          /\ Move(q, [reqs[q] EXCEPT !.todo = @ \ {a}, !.failed = TRUE])
    /\ UNCHANGED <<creds, listed, torn, loose, arrivals>>

PushGone(q, a) ==
    /\ reqs[q].pc = "push" /\ a \in reqs[q].todo /\ letta[a].st # "live"
    /\ Move(q, [reqs[q] EXCEPT !.todo = @ \ {a}])
    /\ UNCHANGED <<creds, letta, listed, torn, loose, arrivals, failures>>

\* get_db commits.  Whoever has read the credentials by now, or this row in
\* order to update it, does not know of the change.
Outdated(q) ==
    {p \in Req : \/ reqs[p].pc \in {"agents", "push", "letta", "attach"}
                 \/ reqs[p].op = "update" /\ reqs[p].id = reqs[q].id}

Commit(q) ==
    /\ reqs[q].pc = "push" /\ reqs[q].todo = {}
    /\ creds' = [creds EXCEPT ![reqs[q].id] = Written(q)]
    /\ torn' = (reqs[q].stale \/ reqs[q].failed)
    /\ End(q, Outdated(q))
    /\ UNCHANGED <<letta, listed, loose, arrivals, failures>>

-----------------------------------------------------------------------------
\* create_agent reads the committed credentials.
BeginAgent(q) == Begin(q, [IdleReq EXCEPT !.op = "agent", !.pc = "letta", !.env = Stored(creds)])

Made(env) == [st |-> "live", env |-> env]
LettaCreate(q, a) ==
    /\ reqs[q].pc = "letta" /\ letta[a].st = "never"
    /\ letta' = [letta EXCEPT ![a] = Made(reqs[q].env)]
    /\ Move(q, [reqs[q] EXCEPT !.pc = "attach", !.agent = a])
    /\ UNCHANGED <<creds, listed, torn, loose, arrivals, failures>>

\* The call times out, but Letta has made the agent.
LettaCreateLost(q, a) ==
    /\ reqs[q].pc = "letta" /\ letta[a].st = "never" /\ CountFailure
    /\ letta' = [letta EXCEPT ![a] = Made(reqs[q].env)]
    /\ loose' = loose \union {a}
    /\ Move(q, IdleReq)
    /\ UNCHANGED <<creds, listed, torn, arrivals>>

\* The file tools are attached, the row inserted and committed.  A sync that
\* has already listed the agents misses the new one.
CommitAgent(q) ==
    /\ reqs[q].pc = "attach"
    /\ listed' = listed \union {reqs[q].agent}
    /\ torn' = (torn \/ reqs[q].stale)
    /\ End(q, {p \in Req : reqs[p].pc = "push"})
    /\ UNCHANGED <<creds, letta, loose, arrivals, failures>>

BeginUnagent(q, a) ==
    /\ a \in listed
    /\ Begin(q, [IdleReq EXCEPT !.op = "unagent", !.pc = "unletta", !.agent = a])

\* delete_agent: Letta's failures are swallowed.
\* Variant: the call is forgotten.
LettaDeleteSkipped(q) ==
    /\ reqs[q].pc = "unletta"
    /\ Move(q, [reqs[q] EXCEPT !.pc = "unrow"])
    /\ UNCHANGED <<creds, letta, listed, torn, loose, arrivals, failures>>

LettaDelete(q) ==
    /\ reqs[q].pc = "unletta"
    /\ letta' = [letta EXCEPT ![reqs[q].agent].st = "gone"]
    /\ Move(q, [reqs[q] EXCEPT !.pc = "unrow"])
    /\ UNCHANGED <<creds, listed, torn, loose, arrivals, failures>>

LettaDeleteFails(q) ==
    /\ reqs[q].pc = "unletta" /\ letta[reqs[q].agent].st = "live" /\ CountFailure
    /\ loose' = loose \union {reqs[q].agent}
    /\ Move(q, [reqs[q] EXCEPT !.pc = "unrow"])
    /\ UNCHANGED <<creds, letta, listed, torn, arrivals>>

CommitUnagent(q) ==
    /\ reqs[q].pc = "unrow"
    /\ listed' = listed \ {reqs[q].agent}
    /\ Move(q, IdleReq)
    /\ UNCHANGED <<creds, letta, torn, loose, arrivals, failures>>

-----------------------------------------------------------------------------
\* A call or a statement raises, or the process ends: the transaction is
\* rolled back; Letta keeps what it was told, which may have replaced what
\* another request pushed.
Dies(q) ==
    /\ reqs[q].pc # "idle" /\ CountFailure
    /\ torn' = (torn \/ reqs[q].sent # {})
    /\ loose' = loose \union (IF reqs[q].pc \in {"attach", "unrow"} THEN {reqs[q].agent} ELSE {})
    /\ End(q, {p \in Req : reqs[p].sent \intersect reqs[q].sent # {}})
    /\ UNCHANGED <<creds, letta, listed, arrivals>>

Next ==
    \E q \in Req :
        \/ \E i \in Id, k \in Key, v \in Val : BeginCreate(q, i, k, v)
        \/ \E i \in Id, k \in Maybe(Key), v \in Maybe(Val) : BeginUpdate(q, i, k, v)
        \/ \E i \in Id : BeginDelete(q, i)
        \/ Flush(q) \/ FlushFails(q) \/ ReadCreds(q) \/ ReadAgents(q)
        \/ \E a \in Agent : \/ Push(q, a) \/ PushFails(q, a) \/ PushGone(q, a)
                            \/ LettaCreate(q, a) \/ LettaCreateLost(q, a) \/ BeginUnagent(q, a)
        \/ Commit(q) \/ BeginAgent(q) \/ CommitAgent(q)
        \/ LettaDelete(q) \/ LettaDeleteFails(q) \/ CommitUnagent(q)
        \/ Dies(q)

Spec == Init /\ [][Next]_vars

-----------------------------------------------------------------------------
\* Types; and a request is at a row or an agent exactly when it should be.
TypeOK ==
    /\ creds \in [Id -> Maybe(Row)]
    /\ letta \in [Agent -> Agents]
    /\ listed \in SUBSET Agent
    /\ reqs \in [Req -> Reqs]
    /\ torn \in BOOLEAN /\ loose \in SUBSET Agent
    /\ arrivals \in 0..MaxArrivals /\ failures \in 0..MaxFailures

\* A key names one credential, however the requests that checked it first and
\* wrote it later are interleaved.
KeysAreUnique == UniqueKeys(creds)

\* Unless a push failed, a request died after a push, or two syncs overlapped
\* so that one of them could not know what the other wrote, every listed agent
\* has exactly the committed credentials once no push is on its way: nothing of
\* a deleted, renamed or rolled-back credential is left.  A sync that is not
\* disturbed makes up for all that went wrong before it (torn is reset).
AgentsFollow ==
    ~torn /\ (\A q \in Req : reqs[q].sent = {}) =>
        \A a \in listed : letta[a].st = "live" => letta[a].env = Stored(creds)

\* Letta has an agent exactly when it is listed, except while it is made or
\* deleted, and except for those a failure left in one place (loose).
AgentsAccountedFor ==
    \A a \in Agent \ loose :
        \/ letta[a].st = "live" <=> a \in listed
        \/ \E q \in Req : reqs[q].agent = a /\ reqs[q].pc \in {"attach", "unrow"}
=============================================================================
