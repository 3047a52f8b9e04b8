------------------------ MODULE CredentialSyncProofs ------------------------
(***************************************************************************)
(* Proofs about CredentialSync, for any number of requests, credentials,   *)
(* agents and failures.  The invariant is built in four layers, each       *)
(* proved with the help of the ones before: what a request looks like and  *)
(* which rows and keys its transaction holds; which agents it is about;    *)
(* what it knows of the credentials; and where every agent's environment   *)
(* comes from.                                                             *)
(***************************************************************************)
EXTENDS CredentialSync, TLAPS

Syncing == {"flush", "creds", "agents", "push"}
AtAgent == {"attach", "unletta", "unrow"}

\* What a request holds at each point.
Shape ==
    \A q \in Req :
        /\ reqs[q].pc \in Syncing =>
              /\ reqs[q].id \in Id /\ reqs[q].op \in {"create", "update", "delete"}
              /\ reqs[q].op = "delete" => reqs[q].row = None /\ reqs[q].sets = {}
              /\ reqs[q].op # "delete" => reqs[q].row \in Row
              /\ reqs[q].op = "create" => reqs[q].sets = {"key", "val"}
        /\ reqs[q].op = "update" => reqs[q].pc \in Syncing
        /\ reqs[q].pc # "push" => reqs[q].todo = {} /\ reqs[q].sent = {}
        /\ IF reqs[q].pc \in AtAgent THEN reqs[q].agent \in Agent ELSE reqs[q].agent = None

\* Two transactions never hold one row, nor claim one key; a claimed key is
\* not that of another committed row; the row to update is there.
Locks ==
    /\ \A p, q \in Req : p # q /\ Writing(p) /\ Writing(q) =>
          /\ reqs[p].id # reqs[q].id
          /\ \A k \in Key : ~(NewKey(p, k) /\ NewKey(q, k))
    /\ \A q \in Req : Writing(q) => Accepted(q)

\* Letta has made the agents that anybody knows of; an agent that is being
\* made is known to its own request alone.
Knows(p, a) == a \in reqs[p].todo \/ a \in reqs[p].sent \/ a = reqs[p].agent
Places ==
    /\ \A a \in Agent : letta[a].st = "never" =>
          a \notin listed /\ \A p \in Req : ~Knows(p, a)
    /\ \A q \in Req : reqs[q].pc = "attach" =>
          LET a == reqs[q].agent IN
          /\ letta[a] = Made(reqs[q].env) /\ a \notin listed
          /\ \A p \in Req : p # q => ~Knows(p, a)
    /\ \A q \in Req : reqs[q].pc = "unrow" =>
          reqs[q].agent \in loose \/ letta[reqs[q].agent].st = "gone"

\* The table as it will be when q has committed.
After(q) == [creds EXCEPT ![reqs[q].id] = Written(q)]

\* What a request that is not out of date knows of the credentials.
Views ==
    \A q \in Req : ~reqs[q].stale =>
        /\ reqs[q].op = "update" =>
              creds[reqs[q].id] # None /\ Written(q) = reqs[q].row
        /\ reqs[q].pc \in {"agents", "push"} => reqs[q].env = Stored(After(q))
        /\ reqs[q].pc \in {"letta", "attach"} => reqs[q].env = Stored(creds)

\* Where the environment of an agent comes from: the committed rows or a push
\* that is on its way; a push by q is there until another one replaces it; and
\* q leaves no agent out.
Sources ==
    /\ ~torn => \A a \in listed : letta[a].st = "live" =>
          \/ letta[a].env = Stored(creds)
          \/ \E q \in Req : a \in reqs[q].sent
    /\ \A q \in Req : reqs[q].pc = "push" /\ ~reqs[q].stale =>
          /\ \A a \in reqs[q].sent : letta[a].st = "live" =>
                \/ letta[a].env = reqs[q].env
                \/ \E p \in Req \ {q} : a \in reqs[p].sent
          /\ ~reqs[q].failed => \A a \in listed : letta[a].st = "live" =>
                a \in reqs[q].todo \union reqs[q].sent

-----------------------------------------------------------------------------

\* The object of an update is a row.
LEMMA BodyType ==
    ASSUME NEW old \in Row, NEW k \in Maybe(Key), NEW v \in Maybe(Val)
    PROVE  Body(old, k, v) \in Row /\ Changes(old, k, v) \in SUBSET {"key", "val"}
  BY DEF Body, Changes, Row, Maybe

\* What a transaction leaves is a row, or none.
LEMMA WrittenType ==
    ASSUME TypeOK, Shape, Locks, NEW q \in Req, Writing(q)
    PROVE  /\ Written(q) \in Maybe(Row) /\ reqs[q].id \in Id
           /\ reqs[q].op = "update" => creds[reqs[q].id] \in Row
<1>1. reqs[q].op = "update" => creds[reqs[q].id] # None /\ reqs[q].row \in Row
  BY DEF Shape, Locks, Writing, Accepted, Syncing
<1>2. reqs[q].id \in Id /\ reqs[q].row \in Maybe(Row)
  BY DEF Shape, Writing, Syncing, TypeOK, Reqs
<1>3. creds[reqs[q].id] \in Maybe(Row)
  BY <1>2 DEF TypeOK
<1>. QED
  BY <1>1, <1>2, <1>3 DEF Written, Maybe, Row

\* Every step keeps what a request holds in shape.
LEMMA ShapeStep ==
    ASSUME TypeOK, Shape, Locks, [Next]_vars
    PROVE  Shape'
<1>1. ASSUME NEW q \in Req, NEW i \in Id, NEW k \in Key, NEW v \in Val,
             BeginCreate(q, i, k, v)
      PROVE  Shape'
  BY <1>1 DEF BeginCreate, Begin, Move, Arrive, IdleReq, TypeOK, Shape, Reqs,
         Row, Syncing, AtAgent, Maybe
<1>2. ASSUME NEW q \in Req, NEW i \in Id, NEW k \in Maybe(Key), NEW v \in Maybe(Val),
             BeginUpdate(q, i, k, v)
      PROVE  Shape'
  <2>1. creds[i] \in Row
    BY <1>2 DEF BeginUpdate, TypeOK, Maybe
  <2>2. Body(creds[i], k, v) \in Row
    BY <2>1, BodyType
  <2>. QED
    BY <1>2, <2>2 DEF BeginUpdate, Begin, Move, Arrive, IdleReq, TypeOK, Shape,
           Reqs, Syncing, AtAgent
<1>3. ASSUME NEW q \in Req, NEW i \in Id, BeginDelete(q, i)
      PROVE  Shape'
  BY <1>3 DEF BeginDelete, Begin, Move, Arrive, IdleReq, TypeOK, Shape, Reqs,
         Row, Syncing, AtAgent, Maybe
<1>4. ASSUME NEW q \in Req, Flush(q)
      PROVE  Shape'
  BY <1>4 DEF Flush, Move, TypeOK, Shape, Reqs, Row, Syncing, AtAgent, Maybe
<1>5. ASSUME NEW q \in Req, FlushFails(q)
      PROVE  Shape'
  BY <1>5 DEF FlushFails, Move, IdleReq, TypeOK, Shape, Reqs, Row, Syncing,
         AtAgent, Maybe
<1>6. ASSUME NEW q \in Req, ReadCreds(q)
      PROVE  Shape'
  BY <1>6 DEF ReadCreds, Move, TypeOK, Shape, Reqs, Row, Syncing, AtAgent,
         Maybe
<1>7. ASSUME NEW q \in Req, ReadAgents(q)
      PROVE  Shape'
  BY <1>7 DEF ReadAgents, Move, TypeOK, Shape, Reqs, Row, Syncing, AtAgent,
         Maybe
<1>8. ASSUME NEW q \in Req, NEW a \in Agent, Push(q, a)
      PROVE  Shape'
  BY <1>8 DEF Push, Move, TypeOK, Shape, Reqs, Row, Syncing, AtAgent, Maybe
<1>9. ASSUME NEW q \in Req, NEW a \in Agent, PushFails(q, a)
      PROVE  Shape'
  <2>1. CASE reqs' = [reqs EXCEPT ![q] = [reqs[q] EXCEPT !.todo = @ \ {a},
                                          !.sent = @ \union {a}, !.failed = TRUE]]
    BY <1>9, <2>1 DEF PushFails, TypeOK, Shape, Reqs, Syncing, AtAgent
  <2>2. CASE reqs' = [reqs EXCEPT ![q] = [reqs[q] EXCEPT !.todo = @ \ {a}, !.failed = TRUE]]
    BY <1>9, <2>2 DEF PushFails, TypeOK, Shape, Reqs, Syncing, AtAgent
  <2>. QED
    BY <1>9, <2>1, <2>2 DEF PushFails, Move
<1>10. ASSUME NEW q \in Req, NEW a \in Agent, PushGone(q, a)
      PROVE  Shape'
  BY <1>10 DEF PushGone, Move, TypeOK, Shape, Reqs, Row, Syncing, AtAgent,
         Maybe
<1>11. ASSUME NEW q \in Req, Commit(q)
      PROVE  Shape'
  BY <1>11 DEF Commit, End, IdleReq, TypeOK, Shape, Reqs, Row, Syncing,
         AtAgent, Maybe
<1>12. ASSUME NEW q \in Req, BeginAgent(q)
      PROVE  Shape'
  BY <1>12 DEF BeginAgent, Begin, Move, Arrive, IdleReq, TypeOK, Shape, Reqs,
         Row, Syncing, AtAgent, Maybe
<1>13. ASSUME NEW q \in Req, NEW a \in Agent, LettaCreate(q, a)
      PROVE  Shape'
  BY <1>13 DEF LettaCreate, Move, Made, TypeOK, Shape, Reqs, Row, Syncing,
         AtAgent, Maybe
<1>14. ASSUME NEW q \in Req, NEW a \in Agent, LettaCreateLost(q, a)
      PROVE  Shape'
  BY <1>14 DEF LettaCreateLost, Move, Made, CountFailure, IdleReq, TypeOK,
         Shape, Reqs, Row, Syncing, AtAgent, Maybe
<1>15. ASSUME NEW q \in Req, CommitAgent(q)
      PROVE  Shape'
  BY <1>15 DEF CommitAgent, End, IdleReq, TypeOK, Shape, Reqs, Row, Syncing,
         AtAgent, Maybe
<1>16. ASSUME NEW q \in Req, NEW a \in Agent, BeginUnagent(q, a)
      PROVE  Shape'
  BY <1>16 DEF BeginUnagent, Begin, Move, Arrive, IdleReq, TypeOK, Shape,
         Reqs, Row, Syncing, AtAgent, Maybe
<1>17. ASSUME NEW q \in Req, LettaDelete(q)
      PROVE  Shape'
  BY <1>17 DEF LettaDelete, Move, TypeOK, Shape, Reqs, Row, Syncing, AtAgent,
         Maybe
<1>18. ASSUME NEW q \in Req, LettaDeleteFails(q)
      PROVE  Shape'
  BY <1>18 DEF LettaDeleteFails, Move, CountFailure, TypeOK, Shape, Reqs, Row,
         Syncing, AtAgent, Maybe
<1>19. ASSUME NEW q \in Req, CommitUnagent(q)
      PROVE  Shape'
  BY <1>19 DEF CommitUnagent, Move, IdleReq, TypeOK, Shape, Reqs, Row,
         Syncing, AtAgent, Maybe
<1>20. ASSUME NEW q \in Req, Dies(q)
      PROVE  Shape'
  BY <1>20 DEF Dies, End, CountFailure, IdleReq, TypeOK, Shape, Reqs, Row,
         Syncing, AtAgent, Maybe
<1>21. CASE UNCHANGED vars
  BY <1>21 DEF vars, TypeOK, Shape, Reqs, Row, Syncing, AtAgent, Maybe
<1>. QED
  BY <1>1, <1>2, <1>3, <1>4, <1>5, <1>6, <1>7, <1>8, <1>9, <1>10, <1>11,
     <1>12, <1>13, <1>14, <1>15, <1>16, <1>17, <1>18, <1>19, <1>20, <1>21 DEF Next

\* An idle request, and the end of a request, are well typed.
LEMMA IdleType == IdleReq \in Reqs
  BY DEF IdleReq, Reqs, Maybe, Env

LEMMA EndType ==
    ASSUME reqs \in [Req -> Reqs], NEW q \in Req, NEW S, End(q, S)
    PROVE  reqs' \in [Req -> Reqs]
<1>1. ASSUME NEW p \in Req PROVE [reqs[p] EXCEPT !.stale = TRUE] \in Reqs
  BY ZenonT(60) DEF Reqs
<1>. QED
  BY <1>1, IdleType DEF End

LEMMA MoveType ==
    ASSUME reqs \in [Req -> Reqs], NEW q \in Req, NEW f \in Reqs, Move(q, f)
    PROVE  reqs' \in [Req -> Reqs]
  BY DEF Move

\* Every step keeps the types.
LEMMA TypeStep ==
    ASSUME TypeOK, Shape, Locks, [Next]_vars
    PROVE  TypeOK'
<1>r. reqs \in [Req -> Reqs]
  BY DEF TypeOK
<1>l. letta \in [Agent -> Agents]
  BY DEF TypeOK
<1>1. ASSUME NEW q \in Req, NEW i \in Id, NEW k \in Key, NEW v \in Val,
             BeginCreate(q, i, k, v)
      PROVE  TypeOK'
  <2>2. [IdleReq EXCEPT !.op = "create", !.pc = "flush", !.id = i,
                !.row = [key |-> k, val |-> v], !.sets = {"key", "val"}] \in Reqs
    BY IdleType DEF Reqs, Row, Maybe
  <2>3. reqs' \in [Req -> Reqs]
    BY <1>1, <2>2, <1>r, MoveType DEF BeginCreate, Begin
  <2>. QED
    BY <1>1, <2>3, ConstantsAssumption DEF BeginCreate, Begin, Arrive, TypeOK
<1>2. ASSUME NEW q \in Req, NEW i \in Id, NEW k \in Maybe(Key), NEW v \in Maybe(Val),
             BeginUpdate(q, i, k, v)
      PROVE  TypeOK'
  <2>1. creds[i] \in Row
    BY <1>2 DEF BeginUpdate, TypeOK, Maybe
  <2>2. [IdleReq EXCEPT !.op = "update", !.pc = "flush", !.id = i,
                !.row = Body(creds[i], k, v), !.sets = Changes(creds[i], k, v)] \in Reqs
    BY <2>1, BodyType, IdleType DEF Reqs, Maybe
  <2>3. reqs' \in [Req -> Reqs]
    BY <1>2, <2>2, <1>r, MoveType DEF BeginUpdate, Begin
  <2>. QED
    BY <1>2, <2>3, ConstantsAssumption DEF BeginUpdate, Begin, Arrive, TypeOK
<1>3. ASSUME NEW q \in Req, NEW i \in Id, BeginDelete(q, i)
      PROVE  TypeOK'
  <2>2. [IdleReq EXCEPT !.op = "delete", !.pc = "flush", !.id = i] \in Reqs
    BY IdleType DEF Reqs, Maybe
  <2>3. reqs' \in [Req -> Reqs]
    BY <1>3, <2>2, <1>r, MoveType DEF BeginDelete, Begin
  <2>. QED
    BY <1>3, <2>3, ConstantsAssumption DEF BeginDelete, Begin, Arrive, TypeOK
<1>4. ASSUME NEW q \in Req, Flush(q)
      PROVE  TypeOK'
  <2>2. [reqs[q] EXCEPT !.pc = "creds"] \in Reqs
    BY <1>r, ZenonT(60) DEF Reqs
  <2>3. reqs' \in [Req -> Reqs]
    BY <1>4, <2>2, <1>r, MoveType DEF Flush
  <2>. QED
    BY <1>4, <2>3, ConstantsAssumption DEF Flush, TypeOK
<1>5. ASSUME NEW q \in Req, FlushFails(q)
      PROVE  TypeOK'
  <2>3. reqs' \in [Req -> Reqs]
    BY <1>5, <1>r, IdleType, MoveType DEF FlushFails
  <2>. QED
    BY <1>5, <2>3, ConstantsAssumption DEF FlushFails, TypeOK
<1>6. ASSUME NEW q \in Req, ReadCreds(q)
      PROVE  TypeOK'
  <2>1. PICK e \in SUBSET Sees(q) : Move(q, [reqs[q] EXCEPT !.pc = "agents", !.env = e])
    BY <1>6 DEF ReadCreds
  <2>2. e \in Env
    <3>1. [creds EXCEPT ![reqs[q].id] = reqs[q].row] \in [Id -> Maybe(Row)]
      BY DEF TypeOK, Reqs
    <3>. QED
      BY <2>1, <3>1 DEF Sees, Stored, Env, Maybe
  <2>4. [reqs[q] EXCEPT !.pc = "agents", !.env = e] \in Reqs
    BY <2>2, <1>r, ZenonT(60) DEF Reqs
  <2>3. reqs' \in [Req -> Reqs]
    BY <2>1, <2>4, <1>r, MoveType
  <2>. QED
    BY <1>6, <2>3, ConstantsAssumption DEF ReadCreds, TypeOK
<1>7. ASSUME NEW q \in Req, ReadAgents(q)
      PROVE  TypeOK'
  <2>1. listed \in SUBSET Agent
    BY DEF TypeOK
  <2>2. [reqs[q] EXCEPT !.pc = "push", !.todo = listed] \in Reqs
    BY <2>1, <1>r, ZenonT(60) DEF Reqs
  <2>3. reqs' \in [Req -> Reqs]
    BY <1>7, <2>2, <1>r, MoveType DEF ReadAgents
  <2>. QED
    BY <1>7, <2>3, ConstantsAssumption DEF ReadAgents, TypeOK
<1>8. ASSUME NEW q \in Req, NEW a \in Agent, Push(q, a)
      PROVE  TypeOK'
  <2>1. /\ reqs[q].todo \ {a} \in SUBSET Agent
        /\ reqs[q].sent \union {a} \in SUBSET Agent
    BY <1>r DEF Reqs
  <2>2. [reqs[q] EXCEPT !.todo = @ \ {a}, !.sent = @ \union {a}] \in Reqs
    BY <2>1, <1>r, ZenonT(60) DEF Reqs
  <2>3. reqs' \in [Req -> Reqs]
    BY <1>8, <2>2, <1>r, MoveType DEF Push
  <2>5. letta' \in [Agent -> Agents]
    BY <1>8, <1>r, <1>l DEF Push, Reqs, Agents
  <2>. QED
    BY <1>8, <2>3, <2>5, ConstantsAssumption DEF Push, TypeOK
<1>9. ASSUME NEW q \in Req, NEW a \in Agent, PushFails(q, a)
      PROVE  TypeOK'
  <2>1. /\ reqs[q].todo \ {a} \in SUBSET Agent
        /\ reqs[q].sent \union {a} \in SUBSET Agent
    BY <1>r DEF Reqs
  <2>2. /\ [reqs[q] EXCEPT !.todo = @ \ {a}, !.sent = @ \union {a}, !.failed = TRUE] \in Reqs
        /\ [reqs[q] EXCEPT !.todo = @ \ {a}, !.failed = TRUE] \in Reqs
    BY <2>1, <1>r, ZenonT(60) DEF Reqs
  <2>3. reqs' \in [Req -> Reqs]
    BY <1>9, <2>2, <1>r, MoveType DEF PushFails
  <2>5. letta' \in [Agent -> Agents]
    BY <1>9, <1>r, <1>l DEF PushFails, Reqs, Agents
  <2>. QED
    BY <1>9, <2>3, <2>5, ConstantsAssumption DEF PushFails, CountFailure, TypeOK
<1>10. ASSUME NEW q \in Req, NEW a \in Agent, PushGone(q, a)
      PROVE  TypeOK'
  <2>1. /\ reqs[q].todo \ {a} \in SUBSET Agent
        /\ reqs[q].sent \union {a} \in SUBSET Agent
    BY <1>r DEF Reqs
  <2>2. [reqs[q] EXCEPT !.todo = @ \ {a}] \in Reqs
    BY <2>1, <1>r, ZenonT(60) DEF Reqs
  <2>3. reqs' \in [Req -> Reqs]
    BY <1>10, <2>2, <1>r, MoveType DEF PushGone
  <2>. QED
    BY <1>10, <2>3, ConstantsAssumption DEF PushGone, TypeOK
<1>11. ASSUME NEW q \in Req, Commit(q)
      PROVE  TypeOK'
  <2>3. reqs' \in [Req -> Reqs]
    BY <1>11, <1>r, EndType DEF Commit
  <2>5. creds' \in [Id -> Maybe(Row)]
    BY <1>11, WrittenType DEF Commit, Writing, TypeOK
  <2>. QED
    BY <1>11, <2>3, <2>5, ConstantsAssumption DEF Commit, TypeOK
<1>12. ASSUME NEW q \in Req, BeginAgent(q)
      PROVE  TypeOK'
  <2>1. Stored(creds) \in Env
    BY DEF TypeOK, Stored, Env, Maybe
  <2>2. [IdleReq EXCEPT !.op = "agent", !.pc = "letta", !.env = Stored(creds)] \in Reqs
    BY <2>1, IdleType, ZenonT(60) DEF Reqs
  <2>3. reqs' \in [Req -> Reqs]
    BY <1>12, <2>2, <1>r, MoveType DEF BeginAgent, Begin
  <2>. QED
    BY <1>12, <2>3, ConstantsAssumption DEF BeginAgent, Begin, Arrive, TypeOK
<1>13. ASSUME NEW q \in Req, NEW a \in Agent, LettaCreate(q, a)
      PROVE  TypeOK'
  <2>1. a \in Maybe(Agent)
    BY DEF Maybe
  <2>2. [reqs[q] EXCEPT !.pc = "attach", !.agent = a] \in Reqs
    BY <2>1, <1>r, ZenonT(60) DEF Reqs
  <2>3. reqs' \in [Req -> Reqs]
    BY <1>13, <2>2, <1>r, MoveType DEF LettaCreate
  <2>5. letta' \in [Agent -> Agents]
    BY <1>13, <1>r, <1>l DEF LettaCreate, Made, Reqs, Agents
  <2>. QED
    BY <1>13, <2>3, <2>5, ConstantsAssumption DEF LettaCreate, TypeOK
<1>14. ASSUME NEW q \in Req, NEW a \in Agent, LettaCreateLost(q, a)
      PROVE  TypeOK'
  <2>3. reqs' \in [Req -> Reqs]
    BY <1>14, <1>r, IdleType, MoveType DEF LettaCreateLost
  <2>5. letta' \in [Agent -> Agents]
    BY <1>14, <1>r, <1>l DEF LettaCreateLost, Made, Reqs, Agents
  <2>. QED
    BY <1>14, <2>3, <2>5, ConstantsAssumption DEF LettaCreateLost, CountFailure,
           TypeOK
<1>15. ASSUME NEW q \in Req, CommitAgent(q)
      PROVE  TypeOK'
  <2>3. reqs' \in [Req -> Reqs]
    BY <1>15, <1>r, EndType DEF CommitAgent
  <2>5. reqs[q].agent \in Agent
    BY <1>15 DEF CommitAgent, Shape, AtAgent
  <2>. QED
    BY <1>15, <2>3, <2>5, ConstantsAssumption DEF CommitAgent, TypeOK
<1>16. ASSUME NEW q \in Req, NEW a \in Agent, BeginUnagent(q, a)
      PROVE  TypeOK'
  <2>2. [IdleReq EXCEPT !.op = "unagent", !.pc = "unletta", !.agent = a] \in Reqs
    BY IdleType DEF Reqs, Maybe
  <2>3. reqs' \in [Req -> Reqs]
    BY <1>16, <2>2, <1>r, MoveType DEF BeginUnagent, Begin
  <2>. QED
    BY <1>16, <2>3, ConstantsAssumption DEF BeginUnagent, Begin, Arrive, TypeOK
<1>17. ASSUME NEW q \in Req, LettaDelete(q)
      PROVE  TypeOK'
  <2>2. [reqs[q] EXCEPT !.pc = "unrow"] \in Reqs
    BY <1>r, ZenonT(60) DEF Reqs
  <2>3. reqs' \in [Req -> Reqs]
    BY <1>17, <2>2, <1>r, MoveType DEF LettaDelete
  <2>5. letta' \in [Agent -> Agents]
    BY <1>17, <1>r, <1>l DEF LettaDelete, Reqs, Agents
  <2>. QED
    BY <1>17, <2>3, <2>5, ConstantsAssumption DEF LettaDelete, TypeOK
<1>18. ASSUME NEW q \in Req, LettaDeleteFails(q)
      PROVE  TypeOK'
  <2>2. [reqs[q] EXCEPT !.pc = "unrow"] \in Reqs
    BY <1>r, ZenonT(60) DEF Reqs
  <2>3. reqs' \in [Req -> Reqs]
    BY <1>18, <2>2, <1>r, MoveType DEF LettaDeleteFails
  <2>5. reqs[q].agent \in Agent
    BY <1>18 DEF LettaDeleteFails, Shape, AtAgent
  <2>. QED
    BY <1>18, <2>3, <2>5, ConstantsAssumption DEF LettaDeleteFails, CountFailure,
           TypeOK
<1>19. ASSUME NEW q \in Req, CommitUnagent(q)
      PROVE  TypeOK'
  <2>3. reqs' \in [Req -> Reqs]
    BY <1>19, <1>r, IdleType, MoveType DEF CommitUnagent
  <2>. QED
    BY <1>19, <2>3, ConstantsAssumption DEF CommitUnagent, TypeOK
<1>20. ASSUME NEW q \in Req, Dies(q)
      PROVE  TypeOK'
  <2>3. reqs' \in [Req -> Reqs]
    BY <1>20, <1>r, EndType DEF Dies
  <2>5. reqs[q].pc \in {"attach", "unrow"} => reqs[q].agent \in Agent
    BY DEF Shape, AtAgent
  <2>. QED
    BY <1>20, <2>3, <2>5, ConstantsAssumption DEF Dies, CountFailure, TypeOK
<1>21. CASE UNCHANGED vars
  BY <1>21 DEF vars, TypeOK
<1>. QED
  BY <1>1, <1>2, <1>3, <1>4, <1>5, <1>6, <1>7, <1>8, <1>9, <1>10, <1>11,
     <1>12, <1>13, <1>14, <1>15, <1>16, <1>17, <1>18, <1>19, <1>20, <1>21 DEF Next

\* A step that lets nobody begin to write, and writes nothing, keeps the locks.
LEMMA LocksKept ==
    ASSUME Locks, creds' = creds,
           \A p \in Req : (Writing(p))' => Writing(p) /\ reqs'[p].id = reqs[p].id
                          /\ reqs'[p].row = reqs[p].row /\ reqs'[p].sets = reqs[p].sets
                          /\ reqs'[p].op = reqs[p].op
    PROVE  Locks'
  BY DEF Locks, NewKey, Accepted, Taken

\* Every step keeps the locks: a transaction that begins to write has waited
\* for the others, and what it commits is none of their keys.
LEMMA LocksStep ==
    ASSUME TypeOK, Shape, Locks, [Next]_vars
    PROVE  Locks'
<1>1. ASSUME NEW q \in Req, NEW i \in Id, NEW k \in Key, NEW v \in Val,
             BeginCreate(q, i, k, v)
      PROVE  Locks'
  <2>1. creds' = creds
    BY <1>1 DEF BeginCreate, Begin, Move, IdleReq
  <2>2. \A p \in Req : (Writing(p))' => Writing(p) /\ reqs'[p].id = reqs[p].id
                        /\ reqs'[p].row = reqs[p].row /\ reqs'[p].sets = reqs[p].sets
                        /\ reqs'[p].op = reqs[p].op
    BY <1>1 DEF BeginCreate, Begin, Move, IdleReq, Writing, TypeOK, Reqs
  <2>. QED
    BY <2>1, <2>2, LocksKept
<1>2. ASSUME NEW q \in Req, NEW i \in Id, NEW k \in Maybe(Key), NEW v \in Maybe(Val),
             BeginUpdate(q, i, k, v)
      PROVE  Locks'
  <2>1. creds' = creds
    BY <1>2 DEF BeginUpdate, Begin, Move, IdleReq
  <2>2. \A p \in Req : (Writing(p))' => Writing(p) /\ reqs'[p].id = reqs[p].id
                        /\ reqs'[p].row = reqs[p].row /\ reqs'[p].sets = reqs[p].sets
                        /\ reqs'[p].op = reqs[p].op
    BY <1>2 DEF BeginUpdate, Begin, Move, IdleReq, Writing, TypeOK, Reqs
  <2>. QED
    BY <2>1, <2>2, LocksKept
<1>3. ASSUME NEW q \in Req, NEW i \in Id, BeginDelete(q, i)
      PROVE  Locks'
  <2>1. creds' = creds
    BY <1>3 DEF BeginDelete, Begin, Move, IdleReq
  <2>2. \A p \in Req : (Writing(p))' => Writing(p) /\ reqs'[p].id = reqs[p].id
                        /\ reqs'[p].row = reqs[p].row /\ reqs'[p].sets = reqs[p].sets
                        /\ reqs'[p].op = reqs[p].op
    BY <1>3 DEF BeginDelete, Begin, Move, IdleReq, Writing, TypeOK, Reqs
  <2>. QED
    BY <2>1, <2>2, LocksKept
<1>4. ASSUME NEW q \in Req, Flush(q)
      PROVE  Locks'
  <2>1. \A p \in Req : (Writing(p))' <=> Writing(p) \/ p = q
    BY <1>4 DEF Flush, Move, Writing, TypeOK, Reqs
  <2>2. /\ creds' = creds
        /\ \A p \in Req : reqs'[p].id = reqs[p].id /\ reqs'[p].row = reqs[p].row
                          /\ reqs'[p].sets = reqs[p].sets /\ reqs'[p].op = reqs[p].op
    BY <1>4 DEF Flush, Move, TypeOK, Reqs
  <2>3. ASSUME NEW p \in Req, p # q, Writing(p)
        PROVE  /\ reqs[p].id # reqs[q].id
               /\ \A k \in Key : ~(NewKey(p, k) /\ NewKey(q, k))
    <3>1. /\ reqs[p].id # reqs[q].id
          /\ \A k \in Key : NewKey(q, k) => ~Holds(p, k)
      BY <1>4, <2>3 DEF Flush, Waits
    <3>2. ASSUME NEW k \in Key, NewKey(p, k) PROVE Holds(p, k)
      <4>1. reqs[p].row \in Row
        BY <2>3, <3>2 DEF NewKey, Shape, Writing, Syncing
      <4>2. Written(p) = reqs[p].row \/ (reqs[p].op = "update" /\ creds[reqs[p].id] \in Row)
        BY <2>3, WrittenType DEF Written
      <4>3. Written(p) \in Row /\ Written(p).key = k
        BY <3>2, <4>1, <4>2 DEF Written, NewKey, Row
      <4>. QED
        BY <4>3, ConstantsAssumption DEF Holds, Row
    <3>. QED
      BY <3>1, <3>2
  <2>4. Accepted(q)
    BY <1>4 DEF Flush
  <2>. QED
    BY <2>1, <2>2, <2>3, <2>4 DEF Locks, NewKey, Accepted, Taken
<1>5. ASSUME NEW q \in Req, FlushFails(q)
      PROVE  Locks'
  <2>1. creds' = creds
    BY <1>5 DEF FlushFails, Move, IdleReq
  <2>2. \A p \in Req : (Writing(p))' => Writing(p) /\ reqs'[p].id = reqs[p].id
                        /\ reqs'[p].row = reqs[p].row /\ reqs'[p].sets = reqs[p].sets
                        /\ reqs'[p].op = reqs[p].op
    BY <1>5 DEF FlushFails, Move, IdleReq, Writing, TypeOK, Reqs
  <2>. QED
    BY <2>1, <2>2, LocksKept
<1>6. ASSUME NEW q \in Req, ReadCreds(q)
      PROVE  Locks'
  <2>1. creds' = creds
    BY <1>6 DEF ReadCreds, Move
  <2>2. \A p \in Req : (Writing(p))' => Writing(p) /\ reqs'[p].id = reqs[p].id
                        /\ reqs'[p].row = reqs[p].row /\ reqs'[p].sets = reqs[p].sets
                        /\ reqs'[p].op = reqs[p].op
    BY <1>6 DEF ReadCreds, Move, Writing, TypeOK, Reqs
  <2>. QED
    BY <2>1, <2>2, LocksKept
<1>7. ASSUME NEW q \in Req, ReadAgents(q)
      PROVE  Locks'
  <2>1. creds' = creds
    BY <1>7 DEF ReadAgents, Move
  <2>2. \A p \in Req : (Writing(p))' => Writing(p) /\ reqs'[p].id = reqs[p].id
                        /\ reqs'[p].row = reqs[p].row /\ reqs'[p].sets = reqs[p].sets
                        /\ reqs'[p].op = reqs[p].op
    BY <1>7 DEF ReadAgents, Move, Writing, TypeOK, Reqs
  <2>. QED
    BY <2>1, <2>2, LocksKept
<1>8. ASSUME NEW q \in Req, NEW a \in Agent, Push(q, a)
      PROVE  Locks'
  <2>1. creds' = creds
    BY <1>8 DEF Push, Move
  <2>2. \A p \in Req : (Writing(p))' => Writing(p) /\ reqs'[p].id = reqs[p].id
                        /\ reqs'[p].row = reqs[p].row /\ reqs'[p].sets = reqs[p].sets
                        /\ reqs'[p].op = reqs[p].op
    BY <1>8 DEF Push, Move, Writing, TypeOK, Reqs
  <2>. QED
    BY <2>1, <2>2, LocksKept
<1>9. ASSUME NEW q \in Req, NEW a \in Agent, PushFails(q, a)
      PROVE  Locks'
  <2>1. creds' = creds
    BY <1>9 DEF PushFails
  <2>2. CASE Move(q, [reqs[q] EXCEPT !.todo = @ \ {a}, !.sent = @ \union {a}, !.failed = TRUE])
    BY <2>1, <2>2, LocksKept DEF Move, Writing, TypeOK, Reqs
  <2>3. CASE Move(q, [reqs[q] EXCEPT !.todo = @ \ {a}, !.failed = TRUE])
    BY <2>1, <2>3, LocksKept DEF Move, Writing, TypeOK, Reqs
  <2>. QED
    BY <1>9, <2>2, <2>3 DEF PushFails
<1>10. ASSUME NEW q \in Req, NEW a \in Agent, PushGone(q, a)
      PROVE  Locks'
  <2>1. creds' = creds
    BY <1>10 DEF PushGone, Move
  <2>2. \A p \in Req : (Writing(p))' => Writing(p) /\ reqs'[p].id = reqs[p].id
                        /\ reqs'[p].row = reqs[p].row /\ reqs'[p].sets = reqs[p].sets
                        /\ reqs'[p].op = reqs[p].op
    BY <1>10 DEF PushGone, Move, Writing, TypeOK, Reqs
  <2>. QED
    BY <2>1, <2>2, LocksKept
<1>11. ASSUME NEW q \in Req, Commit(q)
      PROVE  Locks'
  <2>1. /\ Writing(q) /\ creds' = [creds EXCEPT ![reqs[q].id] = Written(q)]
        /\ reqs[q].id \in Id
    BY <1>11, WrittenType DEF Commit, Writing
  <2>2. \A p \in Req : (Writing(p))' => p # q /\ Writing(p) /\ reqs'[p].id = reqs[p].id
                        /\ reqs'[p].row = reqs[p].row /\ reqs'[p].sets = reqs[p].sets
                        /\ reqs'[p].op = reqs[p].op
    BY <1>11 DEF Commit, End, IdleReq, Writing, TypeOK, Reqs
  <2>3. ASSUME NEW p \in Req, (Writing(p))' PROVE (Accepted(p))'
    <3>1. p # q /\ Writing(p) /\ reqs[p].id # reqs[q].id /\ reqs[p].id \in Id
      BY <2>1, <2>2, <2>3, WrittenType DEF Locks
    <3>2. creds'[reqs[p].id] = creds[reqs[p].id]
      BY <2>1, <3>1 DEF TypeOK
    <3>3. ASSUME NEW k \in Key, NewKey(p, k), NEW j \in Id \ {reqs[p].id},
                 creds'[j] # None, creds'[j].key = k
          PROVE  FALSE
      <4>1. ~Taken(k, reqs[p].id) /\ ~NewKey(q, k)
        BY <2>1, <3>1, <3>3 DEF Locks, Accepted
      <4>2. j = reqs[q].id /\ Written(q) # None /\ Written(q).key = k
        BY <2>1, <3>3, <4>1 DEF Taken, TypeOK
      <4>3. CASE reqs[q].op = "update"
        <5>1. creds[j] \in Row
          BY <2>1, <4>2, <4>3, WrittenType
        <5>2. creds[j].key # k
          BY <3>3, <4>1, <5>1, ConstantsAssumption DEF Taken, Row
        <5>. QED
          BY <4>1, <4>2, <4>3, <5>2 DEF Written, NewKey
      <4>4. CASE reqs[q].op # "update"
        BY <2>1, <4>1, <4>2, <4>4 DEF Written, NewKey, Shape, Writing, Syncing
      <4>. QED
        BY <4>3, <4>4
    <3>. QED
      BY <2>2, <2>3, <3>1, <3>2, <3>3 DEF Locks, Accepted, NewKey, Taken
  <2>. QED
    BY <2>1, <2>2, <2>3 DEF Locks, NewKey
<1>12. ASSUME NEW q \in Req, BeginAgent(q)
      PROVE  Locks'
  <2>1. creds' = creds
    BY <1>12 DEF BeginAgent, Begin, Move, IdleReq
  <2>2. \A p \in Req : (Writing(p))' => Writing(p) /\ reqs'[p].id = reqs[p].id
                        /\ reqs'[p].row = reqs[p].row /\ reqs'[p].sets = reqs[p].sets
                        /\ reqs'[p].op = reqs[p].op
    BY <1>12 DEF BeginAgent, Begin, Move, IdleReq, Writing, TypeOK, Reqs
  <2>. QED
    BY <2>1, <2>2, LocksKept
<1>13. ASSUME NEW q \in Req, NEW a \in Agent, LettaCreate(q, a)
      PROVE  Locks'
  <2>1. creds' = creds
    BY <1>13 DEF LettaCreate, Move
  <2>2. \A p \in Req : (Writing(p))' => Writing(p) /\ reqs'[p].id = reqs[p].id
                        /\ reqs'[p].row = reqs[p].row /\ reqs'[p].sets = reqs[p].sets
                        /\ reqs'[p].op = reqs[p].op
    BY <1>13 DEF LettaCreate, Move, Writing, TypeOK, Reqs
  <2>. QED
    BY <2>1, <2>2, LocksKept
<1>14. ASSUME NEW q \in Req, NEW a \in Agent, LettaCreateLost(q, a)
      PROVE  Locks'
  <2>1. creds' = creds
    BY <1>14 DEF LettaCreateLost, Move, IdleReq
  <2>2. \A p \in Req : (Writing(p))' => Writing(p) /\ reqs'[p].id = reqs[p].id
                        /\ reqs'[p].row = reqs[p].row /\ reqs'[p].sets = reqs[p].sets
                        /\ reqs'[p].op = reqs[p].op
    BY <1>14 DEF LettaCreateLost, Move, IdleReq, Writing, TypeOK, Reqs
  <2>. QED
    BY <2>1, <2>2, LocksKept
<1>15. ASSUME NEW q \in Req, CommitAgent(q)
      PROVE  Locks'
  <2>1. creds' = creds
    BY <1>15 DEF CommitAgent, End, IdleReq
  <2>2. \A p \in Req : (Writing(p))' => Writing(p) /\ reqs'[p].id = reqs[p].id
                        /\ reqs'[p].row = reqs[p].row /\ reqs'[p].sets = reqs[p].sets
                        /\ reqs'[p].op = reqs[p].op
    BY <1>15 DEF CommitAgent, End, IdleReq, Writing, TypeOK, Reqs
  <2>. QED
    BY <2>1, <2>2, LocksKept
<1>16. ASSUME NEW q \in Req, NEW a \in Agent, BeginUnagent(q, a)
      PROVE  Locks'
  <2>1. creds' = creds
    BY <1>16 DEF BeginUnagent, Begin, Move, IdleReq
  <2>2. \A p \in Req : (Writing(p))' => Writing(p) /\ reqs'[p].id = reqs[p].id
                        /\ reqs'[p].row = reqs[p].row /\ reqs'[p].sets = reqs[p].sets
                        /\ reqs'[p].op = reqs[p].op
    BY <1>16 DEF BeginUnagent, Begin, Move, IdleReq, Writing, TypeOK, Reqs
  <2>. QED
    BY <2>1, <2>2, LocksKept
<1>17. ASSUME NEW q \in Req, LettaDelete(q)
      PROVE  Locks'
  <2>1. creds' = creds
    BY <1>17 DEF LettaDelete, Move
  <2>2. \A p \in Req : (Writing(p))' => Writing(p) /\ reqs'[p].id = reqs[p].id
                        /\ reqs'[p].row = reqs[p].row /\ reqs'[p].sets = reqs[p].sets
                        /\ reqs'[p].op = reqs[p].op
    BY <1>17 DEF LettaDelete, Move, Writing, TypeOK, Reqs
  <2>. QED
    BY <2>1, <2>2, LocksKept
<1>18. ASSUME NEW q \in Req, LettaDeleteFails(q)
      PROVE  Locks'
  <2>1. creds' = creds
    BY <1>18 DEF LettaDeleteFails, Move
  <2>2. \A p \in Req : (Writing(p))' => Writing(p) /\ reqs'[p].id = reqs[p].id
                        /\ reqs'[p].row = reqs[p].row /\ reqs'[p].sets = reqs[p].sets
                        /\ reqs'[p].op = reqs[p].op
    BY <1>18 DEF LettaDeleteFails, Move, Writing, TypeOK, Reqs
  <2>. QED
    BY <2>1, <2>2, LocksKept
<1>19. ASSUME NEW q \in Req, CommitUnagent(q)
      PROVE  Locks'
  <2>1. creds' = creds
    BY <1>19 DEF CommitUnagent, Move, IdleReq
  <2>2. \A p \in Req : (Writing(p))' => Writing(p) /\ reqs'[p].id = reqs[p].id
                        /\ reqs'[p].row = reqs[p].row /\ reqs'[p].sets = reqs[p].sets
                        /\ reqs'[p].op = reqs[p].op
    BY <1>19 DEF CommitUnagent, Move, IdleReq, Writing, TypeOK, Reqs
  <2>. QED
    BY <2>1, <2>2, LocksKept
<1>20. ASSUME NEW q \in Req, Dies(q)
      PROVE  Locks'
  <2>1. creds' = creds
    BY <1>20 DEF Dies, End, IdleReq
  <2>2. \A p \in Req : (Writing(p))' => Writing(p) /\ reqs'[p].id = reqs[p].id
                        /\ reqs'[p].row = reqs[p].row /\ reqs'[p].sets = reqs[p].sets
                        /\ reqs'[p].op = reqs[p].op
    BY <1>20 DEF Dies, End, IdleReq, Writing, TypeOK, Reqs
  <2>. QED
    BY <2>1, <2>2, LocksKept
<1>21. CASE UNCHANGED vars
  BY <1>21 DEF vars, Locks, Writing, NewKey, Accepted, Taken
<1>. QED
  BY <1>1, <1>2, <1>3, <1>4, <1>5, <1>6, <1>7, <1>8, <1>9, <1>10, <1>11,
     <1>12, <1>13, <1>14, <1>15, <1>16, <1>17, <1>18, <1>19, <1>20, <1>21 DEF Next

\* What a transaction is about to commit keeps the keys unique.
LEMMA AfterUnique ==
    ASSUME TypeOK, Shape, Locks, KeysAreUnique, NEW q \in Req, Writing(q)
    PROVE  UniqueKeys(After(q))
<1>1. ASSUME NEW j \in Id, j # reqs[q].id, creds[j] # None, Written(q) # None
      PROVE  creds[j].key # Written(q).key
  <2>1. CASE reqs[q].op = "update" /\ "key" \notin reqs[q].sets
    <3>1. creds[reqs[q].id] \in Row /\ reqs[q].id \in Id
      BY <2>1, WrittenType
    <3>. QED
      BY <1>1, <2>1, <3>1, ConstantsAssumption DEF Written, KeysAreUnique, UniqueKeys, Row
  <2>2. CASE reqs[q].op # "update" \/ "key" \in reqs[q].sets
    <3>1. reqs[q].op # "delete" /\ reqs[q].row \in Row
      BY <1>1, <2>2 DEF Shape, Writing, Syncing, Written
    <3>2. NewKey(q, reqs[q].row.key) /\ Written(q).key = reqs[q].row.key
      BY <2>2, <3>1 DEF Shape, Writing, Syncing, Written, NewKey
    <3>3. reqs[q].row.key \in Key
      BY <3>1 DEF Row
    <3>. QED
      BY <1>1, <3>2, <3>3 DEF Locks, Accepted, Taken
  <2>. QED
    BY <2>1, <2>2
<1>. QED
  BY <1>1, WrittenType DEF After, UniqueKeys, KeysAreUnique, TypeOK

\* Two credentials never get one key.
LEMMA KeysStep ==
    ASSUME TypeOK, Shape, Locks, KeysAreUnique, [Next]_vars
    PROVE  KeysAreUnique'
<1>1. ASSUME NEW q \in Req, NEW i \in Id, NEW k \in Key, NEW v \in Val,
             BeginCreate(q, i, k, v)
      PROVE  KeysAreUnique'
  BY <1>1 DEF BeginCreate, Begin, KeysAreUnique, UniqueKeys
<1>2. ASSUME NEW q \in Req, NEW i \in Id, NEW k \in Maybe(Key), NEW v \in Maybe(Val),
             BeginUpdate(q, i, k, v)
      PROVE  KeysAreUnique'
  BY <1>2 DEF BeginUpdate, Begin, KeysAreUnique, UniqueKeys
<1>3. ASSUME NEW q \in Req, NEW i \in Id, BeginDelete(q, i)
      PROVE  KeysAreUnique'
  BY <1>3 DEF BeginDelete, Begin, KeysAreUnique, UniqueKeys
<1>4. ASSUME NEW q \in Req, Flush(q)
      PROVE  KeysAreUnique'
  BY <1>4 DEF Flush, KeysAreUnique, UniqueKeys
<1>5. ASSUME NEW q \in Req, FlushFails(q)
      PROVE  KeysAreUnique'
  BY <1>5 DEF FlushFails, KeysAreUnique, UniqueKeys
<1>6. ASSUME NEW q \in Req, ReadCreds(q)
      PROVE  KeysAreUnique'
  BY <1>6 DEF ReadCreds, KeysAreUnique, UniqueKeys
<1>7. ASSUME NEW q \in Req, ReadAgents(q)
      PROVE  KeysAreUnique'
  BY <1>7 DEF ReadAgents, KeysAreUnique, UniqueKeys
<1>8. ASSUME NEW q \in Req, NEW a \in Agent, Push(q, a)
      PROVE  KeysAreUnique'
  BY <1>8 DEF Push, KeysAreUnique, UniqueKeys
<1>9. ASSUME NEW q \in Req, NEW a \in Agent, PushFails(q, a)
      PROVE  KeysAreUnique'
  BY <1>9 DEF PushFails, KeysAreUnique, UniqueKeys
<1>10. ASSUME NEW q \in Req, NEW a \in Agent, PushGone(q, a)
      PROVE  KeysAreUnique'
  BY <1>10 DEF PushGone, KeysAreUnique, UniqueKeys
<1>11. ASSUME NEW q \in Req, Commit(q)
      PROVE  KeysAreUnique'
  <2>1. UniqueKeys(After(q))
    BY <1>11, AfterUnique DEF Commit, Writing
  <2>. QED
    BY <1>11, <2>1 DEF Commit, After, KeysAreUnique, UniqueKeys
<1>12. ASSUME NEW q \in Req, BeginAgent(q)
      PROVE  KeysAreUnique'
  BY <1>12 DEF BeginAgent, Begin, KeysAreUnique, UniqueKeys
<1>13. ASSUME NEW q \in Req, NEW a \in Agent, LettaCreate(q, a)
      PROVE  KeysAreUnique'
  BY <1>13 DEF LettaCreate, KeysAreUnique, UniqueKeys
<1>14. ASSUME NEW q \in Req, NEW a \in Agent, LettaCreateLost(q, a)
      PROVE  KeysAreUnique'
  BY <1>14 DEF LettaCreateLost, KeysAreUnique, UniqueKeys
<1>15. ASSUME NEW q \in Req, CommitAgent(q)
      PROVE  KeysAreUnique'
  BY <1>15 DEF CommitAgent, KeysAreUnique, UniqueKeys
<1>16. ASSUME NEW q \in Req, NEW a \in Agent, BeginUnagent(q, a)
      PROVE  KeysAreUnique'
  BY <1>16 DEF BeginUnagent, Begin, KeysAreUnique, UniqueKeys
<1>17. ASSUME NEW q \in Req, LettaDelete(q)
      PROVE  KeysAreUnique'
  BY <1>17 DEF LettaDelete, KeysAreUnique, UniqueKeys
<1>18. ASSUME NEW q \in Req, LettaDeleteFails(q)
      PROVE  KeysAreUnique'
  BY <1>18 DEF LettaDeleteFails, KeysAreUnique, UniqueKeys
<1>19. ASSUME NEW q \in Req, CommitUnagent(q)
      PROVE  KeysAreUnique'
  BY <1>19 DEF CommitUnagent, KeysAreUnique, UniqueKeys
<1>20. ASSUME NEW q \in Req, Dies(q)
      PROVE  KeysAreUnique'
  BY <1>20 DEF Dies, KeysAreUnique, UniqueKeys
<1>21. CASE UNCHANGED vars
  BY <1>21 DEF vars, KeysAreUnique, UniqueKeys
<1>. QED
  BY <1>1, <1>2, <1>3, <1>4, <1>5, <1>6, <1>7, <1>8, <1>9, <1>10, <1>11,
     <1>12, <1>13, <1>14, <1>15, <1>16, <1>17, <1>18, <1>19, <1>20, <1>21 DEF Next

\* Every step keeps the agents in their places.
LEMMA PlacesStep ==
    ASSUME TypeOK, Shape, Places, [Next]_vars
    PROVE  Places'
<1>1. ASSUME NEW q \in Req, NEW i \in Id, NEW k \in Key, NEW v \in Val,
             BeginCreate(q, i, k, v)
      PROVE  Places'
  BY <1>1 DEF BeginCreate, Begin, Move, Arrive, IdleReq, Places, Knows, Shape,
         Syncing, AtAgent, TypeOK, Reqs, Agents
<1>2. ASSUME NEW q \in Req, NEW i \in Id, NEW k \in Maybe(Key), NEW v \in Maybe(Val),
             BeginUpdate(q, i, k, v)
      PROVE  Places'
  BY <1>2 DEF BeginUpdate, Begin, Move, Arrive, IdleReq, Places, Knows, Shape,
         Syncing, AtAgent, TypeOK, Reqs, Agents
<1>3. ASSUME NEW q \in Req, NEW i \in Id, BeginDelete(q, i)
      PROVE  Places'
  BY <1>3 DEF BeginDelete, Begin, Move, Arrive, IdleReq, Places, Knows, Shape,
         Syncing, AtAgent, TypeOK, Reqs, Agents
<1>4. ASSUME NEW q \in Req, Flush(q)
      PROVE  Places'
  BY <1>4 DEF Flush, Move, Places, Knows, Shape, Syncing, AtAgent, TypeOK,
         Reqs, Agents
<1>5. ASSUME NEW q \in Req, FlushFails(q)
      PROVE  Places'
  BY <1>5 DEF FlushFails, Move, IdleReq, Places, Knows, Shape, Syncing,
         AtAgent, TypeOK, Reqs, Agents
<1>6. ASSUME NEW q \in Req, ReadCreds(q)
      PROVE  Places'
  BY <1>6 DEF ReadCreds, Move, Places, Knows, Shape, Syncing, AtAgent, TypeOK,
         Reqs, Agents
<1>7. ASSUME NEW q \in Req, ReadAgents(q)
      PROVE  Places'
  BY <1>7 DEF ReadAgents, Move, Places, Knows, Shape, Syncing, AtAgent,
         TypeOK, Reqs, Agents
<1>8. ASSUME NEW q \in Req, NEW a \in Agent, Push(q, a)
      PROVE  Places'
  BY <1>8 DEF Push, Move, Places, Knows, Shape, Syncing, AtAgent, TypeOK,
         Reqs, Agents
<1>9. ASSUME NEW q \in Req, NEW a \in Agent, PushFails(q, a)
      PROVE  Places'
  <2>1. reqs[q].pc = "push" /\ a \in reqs[q].todo /\ listed' = listed /\ loose' = loose
    BY <1>9 DEF PushFails
  <2>2. CASE /\ letta' = [letta EXCEPT ![a].env = reqs[q].env]
             /\ Move(q, [reqs[q] EXCEPT !.todo = @ \ {a}, !.sent = @ \union {a}, !.failed = TRUE])
    BY <2>1, <2>2 DEF Move, Places, Knows, Shape, AtAgent, TypeOK, Reqs, Agents
  <2>3. CASE /\ letta' = letta
             /\ Move(q, [reqs[q] EXCEPT !.todo = @ \ {a}, !.failed = TRUE])
    BY <2>1, <2>3 DEF Move, Places, Knows, Shape, AtAgent, TypeOK, Reqs
  <2>. QED
    BY <1>9, <2>2, <2>3 DEF PushFails
<1>10. ASSUME NEW q \in Req, NEW a \in Agent, PushGone(q, a)
      PROVE  Places'
  BY <1>10 DEF PushGone, Move, Places, Knows, Shape, Syncing, AtAgent, TypeOK,
         Reqs, Agents
<1>11. ASSUME NEW q \in Req, Commit(q)
      PROVE  Places'
  BY <1>11 DEF Commit, End, IdleReq, Places, Knows, Shape, Syncing, AtAgent,
         TypeOK, Reqs, Agents
<1>12. ASSUME NEW q \in Req, BeginAgent(q)
      PROVE  Places'
  BY <1>12 DEF BeginAgent, Begin, Move, Arrive, IdleReq, Places, Knows, Shape,
         Syncing, AtAgent, TypeOK, Reqs, Agents
<1>13. ASSUME NEW q \in Req, NEW a \in Agent, LettaCreate(q, a)
      PROVE  Places'
  BY <1>13 DEF LettaCreate, Move, Made, Places, Knows, Shape, Syncing,
         AtAgent, TypeOK, Reqs, Agents
<1>14. ASSUME NEW q \in Req, NEW a \in Agent, LettaCreateLost(q, a)
      PROVE  Places'
  BY <1>14 DEF LettaCreateLost, Move, Made, CountFailure, IdleReq, Places,
         Knows, Shape, Syncing, AtAgent, TypeOK, Reqs, Agents
<1>15. ASSUME NEW q \in Req, CommitAgent(q)
      PROVE  Places'
  BY <1>15, ConstantsAssumption DEF CommitAgent, End, IdleReq,
         Places, Knows, Shape, AtAgent, TypeOK
<1>16. ASSUME NEW q \in Req, NEW a \in Agent, BeginUnagent(q, a)
      PROVE  Places'
  BY <1>16 DEF BeginUnagent, Begin, Move, Arrive, IdleReq, Places, Knows,
         Shape, Syncing, AtAgent, TypeOK, Reqs, Agents
<1>17. ASSUME NEW q \in Req, LettaDelete(q)
      PROVE  Places'
  BY <1>17 DEF LettaDelete, Move, Places, Knows, Shape, Syncing, AtAgent,
         TypeOK, Reqs, Agents
<1>18. ASSUME NEW q \in Req, LettaDeleteFails(q)
      PROVE  Places'
  BY <1>18 DEF LettaDeleteFails, Move, CountFailure, Places, Knows, Shape,
         Syncing, AtAgent, TypeOK, Reqs, Agents
<1>19. ASSUME NEW q \in Req, CommitUnagent(q)
      PROVE  Places'
  BY <1>19, ConstantsAssumption DEF CommitUnagent, Move, IdleReq,
         Places, Knows, Shape, AtAgent, TypeOK
<1>20. ASSUME NEW q \in Req, Dies(q)
      PROVE  Places'
  BY <1>20, ConstantsAssumption DEF Dies, End, CountFailure, IdleReq,
         Places, Knows, Shape, AtAgent, TypeOK
<1>21. CASE UNCHANGED vars
  BY <1>21 DEF vars, Places, Knows, Shape, Syncing, AtAgent, TypeOK, Reqs,
         Agents
<1>. QED
  BY <1>1, <1>2, <1>3, <1>4, <1>5, <1>6, <1>7, <1>8, <1>9, <1>10, <1>11,
     <1>12, <1>13, <1>14, <1>15, <1>16, <1>17, <1>18, <1>19, <1>20, <1>21 DEF Next

\* With unique keys, a dictionary of the rows loses none of them.
LEMMA DictIsWhole ==
    ASSUME NEW c \in [Id -> Maybe(Row)], UniqueKeys(c),
           NEW e \in SUBSET Stored(c), Dict(Stored(c), e)
    PROVE  e = Stored(c)
<1>1. ASSUME NEW x \in Stored(c), NEW y \in Stored(c), x.key = y.key PROVE x = y
  <2>1. PICK i \in Id : x = c[i] /\ c[i] # None
    BY DEF Stored
  <2>2. PICK j \in Id : y = c[j] /\ c[j] # None
    BY DEF Stored
  <2>. QED
    BY <1>1, <2>1, <2>2 DEF UniqueKeys
<1>2. ASSUME NEW x \in Stored(c) PROVE x \in e
  BY <1>1 DEF Dict
<1>. QED
  BY <1>2

\* A request that is not out of date knows the credentials as they are.
LEMMA ViewsStep ==
    ASSUME TypeOK, Shape, Locks, KeysAreUnique, Views, [Next]_vars
    PROVE  Views'
<1>1. ASSUME NEW q \in Req, NEW i \in Id, NEW k \in Key, NEW v \in Val,
             BeginCreate(q, i, k, v)
      PROVE  Views'
  BY <1>1 DEF BeginCreate, Begin, Move, Arrive, IdleReq, Views, Written,
         After, Stored, Shape, Syncing, TypeOK, Reqs
<1>2. ASSUME NEW q \in Req, NEW i \in Id, NEW k \in Maybe(Key), NEW v \in Maybe(Val),
             BeginUpdate(q, i, k, v)
      PROVE  Views'
  <2>1. creds[i] \in Row /\ creds' = creds
    BY <1>2 DEF BeginUpdate, Begin, TypeOK, Maybe
  <2>2. reqs' = [reqs EXCEPT ![q] = [IdleReq EXCEPT !.op = "update", !.pc = "flush", !.id = i,
                     !.row = Body(creds[i], k, v), !.sets = Changes(creds[i], k, v)]]
    BY <1>2 DEF BeginUpdate, Begin, Move
  <2>3. creds'[reqs'[q].id] # None /\ (Written(q))' = reqs'[q].row
    BY <1>2, <2>1, <2>2 DEF BeginUpdate, IdleReq, Written, Body, Changes, TypeOK, Row, Maybe
  <2>4. \A p \in Req : p # q => reqs'[p] = reqs[p] /\ (Written(p))' = Written(p)
                                /\ (After(p))' = After(p)
    BY <2>1, <2>2 DEF TypeOK, Written, After
  <2>5. reqs'[q].pc = "flush"
    BY <2>2 DEF TypeOK, IdleReq
  <2>. QED
    BY <2>1, <2>3, <2>4, <2>5 DEF Views
<1>3. ASSUME NEW q \in Req, NEW i \in Id, BeginDelete(q, i)
      PROVE  Views'
  BY <1>3 DEF BeginDelete, Begin, Move, Arrive, IdleReq, Views, Written,
         After, Stored, Shape, Syncing, TypeOK, Reqs
<1>4. ASSUME NEW q \in Req, Flush(q)
      PROVE  Views'
  BY <1>4 DEF Flush, Move, Views, Written, After, Stored, Shape, Syncing,
         TypeOK, Reqs
<1>5. ASSUME NEW q \in Req, FlushFails(q)
      PROVE  Views'
  BY <1>5 DEF FlushFails, Move, IdleReq, Views, Written, After, Stored, Shape,
         Syncing, TypeOK, Reqs
<1>6. ASSUME NEW q \in Req, ReadCreds(q)
      PROVE  Views'
  <2>1. PICK e \in SUBSET Sees(q) : /\ Dict(Sees(q), e)
                                   /\ Move(q, [reqs[q] EXCEPT !.pc = "agents", !.env = e])
    BY <1>6 DEF ReadCreds
  <2>2. reqs[q].pc = "creds" /\ creds' = creds
    BY <1>6 DEF ReadCreds
  <2>3. ASSUME ~reqs[q].stale PROVE e = Stored(After(q))
    <3>1. Written(q) = reqs[q].row
      BY <2>3 DEF Views, Written
    <3>2. Sees(q) = Stored(After(q))
      BY <3>1 DEF Sees, After
    <3>3. UniqueKeys(After(q)) /\ After(q) \in [Id -> Maybe(Row)]
      BY <2>2, AfterUnique, WrittenType DEF Writing, After, TypeOK
    <3>. QED
      BY <2>1, <3>2, <3>3, DictIsWhole
  <2>4. /\ reqs'[q].pc = "agents" /\ reqs'[q].env = e /\ reqs'[q].stale = reqs[q].stale
        /\ reqs'[q].op = reqs[q].op /\ reqs'[q].id = reqs[q].id /\ reqs'[q].row = reqs[q].row
        /\ reqs'[q].sets = reqs[q].sets /\ \A p \in Req : p # q => reqs'[p] = reqs[p]
    BY <2>1 DEF Move, TypeOK, Reqs
  <2>5. \A p \in Req : (Written(p))' = Written(p) /\ (After(p))' = After(p)
    <3>1. ASSUME NEW p \in Req
          PROVE  /\ reqs'[p].op = reqs[p].op /\ reqs'[p].id = reqs[p].id
                 /\ reqs'[p].row = reqs[p].row /\ reqs'[p].sets = reqs[p].sets
      BY <2>2, <2>4
    <3>2. ASSUME NEW p \in Req PROVE (Written(p))' = Written(p)
      BY <3>1, <2>2 DEF Written
    <3>. QED
      BY <3>1, <3>2, <2>2 DEF After
  <2>6. (Stored(creds))' = Stored(creds) /\ \A p \in Req : (Stored(After(p)))' = Stored(After(p))
    BY <2>2, <2>5 DEF Stored
  <2>7. ASSUME NEW p \in Req, ~reqs'[p].stale
        PROVE  /\ reqs'[p].op = "update" =>
                     creds'[reqs'[p].id] # None /\ (Written(p))' = reqs'[p].row
               /\ reqs'[p].pc \in {"agents", "push"} => reqs'[p].env = (Stored(After(p)))'
               /\ reqs'[p].pc \in {"letta", "attach"} => reqs'[p].env = (Stored(creds))'
    <3>1. /\ reqs'[p].op = reqs[p].op /\ reqs'[p].id = reqs[p].id
          /\ reqs'[p].row = reqs[p].row /\ ~reqs[p].stale
      BY <2>4, <2>7
    <3>2. CASE p = q
      BY <2>2, <2>3, <2>4, <2>5, <2>6, <2>7, <3>1, <3>2 DEF Views
    <3>3. CASE p # q
      BY <2>4, <2>2, <2>5, <2>6, <2>7, <3>1, <3>3 DEF Views
    <3>. QED
      BY <3>2, <3>3
  <2>. QED
    BY <2>7 DEF Views
<1>7. ASSUME NEW q \in Req, ReadAgents(q)
      PROVE  Views'
  BY <1>7 DEF ReadAgents, Move, Views, Written, After, Stored, Shape, Syncing,
         TypeOK, Reqs
<1>8. ASSUME NEW q \in Req, NEW a \in Agent, Push(q, a)
      PROVE  Views'
  BY <1>8 DEF Push, Move, Views, Written, After, Stored, Shape, Syncing,
         TypeOK, Reqs
<1>9. ASSUME NEW q \in Req, NEW a \in Agent, PushFails(q, a)
      PROVE  Views'
  <2>1. reqs[q].pc = "push" /\ creds' = creds
    BY <1>9 DEF PushFails
  <2>2. /\ reqs'[q].pc = "push" /\ reqs'[q].env = reqs[q].env /\ reqs'[q].stale = reqs[q].stale
        /\ reqs'[q].op = reqs[q].op /\ reqs'[q].id = reqs[q].id /\ reqs'[q].row = reqs[q].row
        /\ reqs'[q].sets = reqs[q].sets /\ \A p \in Req : p # q => reqs'[p] = reqs[p]
    <3>1. CASE Move(q, [reqs[q] EXCEPT !.todo = @ \ {a}, !.sent = @ \union {a}, !.failed = TRUE])
      BY <2>1, <3>1 DEF Move, TypeOK, Reqs
    <3>2. CASE Move(q, [reqs[q] EXCEPT !.todo = @ \ {a}, !.failed = TRUE])
      BY <2>1, <3>2 DEF Move, TypeOK, Reqs
    <3>. QED
      BY <1>9, <3>1, <3>2 DEF PushFails
  <2>3. \A p \in Req : (Written(p))' = Written(p) /\ (After(p))' = After(p)
    <3>1. ASSUME NEW p \in Req
          PROVE  /\ reqs'[p].op = reqs[p].op /\ reqs'[p].id = reqs[p].id
                 /\ reqs'[p].row = reqs[p].row /\ reqs'[p].sets = reqs[p].sets
      BY <2>1, <2>2
    <3>2. ASSUME NEW p \in Req PROVE (Written(p))' = Written(p)
      BY <3>1, <2>1 DEF Written
    <3>. QED
      BY <3>1, <3>2, <2>1 DEF After
  <2>4. (Stored(creds))' = Stored(creds) /\ \A p \in Req : (Stored(After(p)))' = Stored(After(p))
    BY <2>1, <2>3 DEF Stored
  <2>5. ASSUME NEW p \in Req, ~reqs'[p].stale
        PROVE  /\ reqs'[p].op = "update" =>
                     creds'[reqs'[p].id] # None /\ (Written(p))' = reqs'[p].row
               /\ reqs'[p].pc \in {"agents", "push"} => reqs'[p].env = (Stored(After(p)))'
               /\ reqs'[p].pc \in {"letta", "attach"} => reqs'[p].env = (Stored(creds))'
    <3>1. /\ reqs'[p].op = reqs[p].op /\ reqs'[p].id = reqs[p].id
          /\ reqs'[p].row = reqs[p].row /\ ~reqs[p].stale
      BY <2>2, <2>5
    <3>2. CASE p = q
      BY <2>1, <2>2, <2>3, <2>4, <2>5, <3>1, <3>2 DEF Views
    <3>3. CASE p # q
      BY <2>2, <2>1, <2>3, <2>4, <2>5, <3>1, <3>3 DEF Views
    <3>. QED
      BY <3>2, <3>3
  <2>. QED
    BY <2>5 DEF Views
<1>10. ASSUME NEW q \in Req, NEW a \in Agent, PushGone(q, a)
      PROVE  Views'
  BY <1>10 DEF PushGone, Move, Views, Written, After, Stored, Shape, Syncing,
         TypeOK, Reqs
<1>11. ASSUME NEW q \in Req, Commit(q)
      PROVE  Views'
  <2>1. /\ creds' = [creds EXCEPT ![reqs[q].id] = Written(q)] /\ End(q, Outdated(q))
        /\ reqs[q].id \in Id
    BY <1>11, WrittenType DEF Commit, Writing
  <2>2. ASSUME NEW p \in Req, p # q, ~reqs'[p].stale
        PROVE  /\ reqs'[p] = reqs[p] /\ reqs[p].pc \notin {"agents", "push", "letta", "attach"}
               /\ reqs[p].op = "update" => reqs[p].id # reqs[q].id
    BY <2>1, <2>2 DEF End, Outdated, TypeOK, Reqs
  <2>3. ASSUME NEW p \in Req, p # q, ~reqs'[p].stale, reqs'[p].op = "update"
        PROVE  creds'[reqs'[p].id] # None /\ (Written(p))' = reqs'[p].row
    <3>1. creds[reqs[p].id] # None /\ Written(p) = reqs[p].row
      BY <2>2, <2>3 DEF Views
    <3>2. reqs[p].id \in Id
      BY <2>2, <2>3 DEF Shape
    <3>3. creds'[reqs[p].id] = creds[reqs[p].id]
      BY <2>1, <2>2, <2>3, <3>2 DEF TypeOK
    <3>. QED
      BY <2>2, <2>3, <3>1, <3>3 DEF Written
  <2>4. reqs'[q] = IdleReq
    BY <2>1 DEF End
  <2>. QED
    BY <2>2, <2>3, <2>4 DEF Views, IdleReq
<1>12. ASSUME NEW q \in Req, BeginAgent(q)
      PROVE  Views'
  BY <1>12 DEF BeginAgent, Begin, Move, Arrive, IdleReq, Views, Written,
         After, Stored, Shape, Syncing, TypeOK, Reqs
<1>13. ASSUME NEW q \in Req, NEW a \in Agent, LettaCreate(q, a)
      PROVE  Views'
  BY <1>13 DEF LettaCreate, Move, Made, Views, Written, After, Stored, Shape,
         Syncing, TypeOK, Reqs
<1>14. ASSUME NEW q \in Req, NEW a \in Agent, LettaCreateLost(q, a)
      PROVE  Views'
  BY <1>14 DEF LettaCreateLost, Move, Made, CountFailure, IdleReq, Views,
         Written, After, Stored, Shape, Syncing, TypeOK, Reqs
<1>15. ASSUME NEW q \in Req, CommitAgent(q)
      PROVE  Views'
  BY <1>15 DEF CommitAgent, End, IdleReq, Views, Written, After, Stored,
         Shape, Syncing, TypeOK, Reqs
<1>16. ASSUME NEW q \in Req, NEW a \in Agent, BeginUnagent(q, a)
      PROVE  Views'
  BY <1>16 DEF BeginUnagent, Begin, Move, Arrive, IdleReq, Views, Written,
         After, Stored, Shape, Syncing, TypeOK, Reqs
<1>17. ASSUME NEW q \in Req, LettaDelete(q)
      PROVE  Views'
  BY <1>17 DEF LettaDelete, Move, Views, Written, After, Stored, Shape,
         Syncing, TypeOK, Reqs
<1>18. ASSUME NEW q \in Req, LettaDeleteFails(q)
      PROVE  Views'
  BY <1>18 DEF LettaDeleteFails, Move, CountFailure, Views, Written, After,
         Stored, Shape, Syncing, TypeOK, Reqs
<1>19. ASSUME NEW q \in Req, CommitUnagent(q)
      PROVE  Views'
  BY <1>19 DEF CommitUnagent, Move, IdleReq, Views, Written, After, Stored,
         Shape, Syncing, TypeOK, Reqs
<1>20. ASSUME NEW q \in Req, Dies(q)
      PROVE  Views'
  BY <1>20 DEF Dies, End, CountFailure, IdleReq, Views, Written, After,
         Stored, Shape, Syncing, TypeOK, Reqs
<1>21. CASE UNCHANGED vars
  BY <1>21 DEF vars, Views, Written, After, Stored, Shape, Syncing, TypeOK,
         Reqs
<1>. QED
  BY <1>1, <1>2, <1>3, <1>4, <1>5, <1>6, <1>7, <1>8, <1>9, <1>10, <1>11,
     <1>12, <1>13, <1>14, <1>15, <1>16, <1>17, <1>18, <1>19, <1>20, <1>21 DEF Next

\* Every step keeps the agents accounted for.
LEMMA AccountStep ==
    ASSUME TypeOK, Shape, Places, AgentsAccountedFor, [Next]_vars
    PROVE  AgentsAccountedFor'
<1>1. ASSUME NEW q \in Req, NEW i \in Id, NEW k \in Key, NEW v \in Val,
             BeginCreate(q, i, k, v)
      PROVE  AgentsAccountedFor'
  BY <1>1, ConstantsAssumption DEF BeginCreate, Begin, Move, Arrive, IdleReq,
         AgentsAccountedFor, Places, Knows, Made, Shape, AtAgent, TypeOK,
         Reqs, Agents
<1>2. ASSUME NEW q \in Req, NEW i \in Id, NEW k \in Maybe(Key), NEW v \in Maybe(Val),
             BeginUpdate(q, i, k, v)
      PROVE  AgentsAccountedFor'
  BY <1>2, ConstantsAssumption DEF BeginUpdate, Begin, Move, Arrive, IdleReq,
         AgentsAccountedFor, Places, Knows, Made, Shape, AtAgent, TypeOK,
         Reqs, Agents
<1>3. ASSUME NEW q \in Req, NEW i \in Id, BeginDelete(q, i)
      PROVE  AgentsAccountedFor'
  BY <1>3, ConstantsAssumption DEF BeginDelete, Begin, Move, Arrive, IdleReq,
         AgentsAccountedFor, Places, Knows, Made, Shape, AtAgent, TypeOK,
         Reqs, Agents
<1>4. ASSUME NEW q \in Req, Flush(q)
      PROVE  AgentsAccountedFor'
  BY <1>4, ConstantsAssumption DEF Flush, Move, AgentsAccountedFor, Places,
         Knows, Made, Shape, AtAgent, TypeOK, Reqs, Agents
<1>5. ASSUME NEW q \in Req, FlushFails(q)
      PROVE  AgentsAccountedFor'
  BY <1>5, ConstantsAssumption DEF FlushFails, Move, IdleReq,
         AgentsAccountedFor, Places, Knows, Made, Shape, AtAgent, TypeOK,
         Reqs, Agents
<1>6. ASSUME NEW q \in Req, ReadCreds(q)
      PROVE  AgentsAccountedFor'
  BY <1>6, ConstantsAssumption DEF ReadCreds, Move, AgentsAccountedFor,
         Places, Knows, Made, Shape, AtAgent, TypeOK, Reqs, Agents
<1>7. ASSUME NEW q \in Req, ReadAgents(q)
      PROVE  AgentsAccountedFor'
  BY <1>7, ConstantsAssumption DEF ReadAgents, Move, AgentsAccountedFor,
         Places, Knows, Made, Shape, AtAgent, TypeOK, Reqs, Agents
<1>8. ASSUME NEW q \in Req, NEW a \in Agent, Push(q, a)
      PROVE  AgentsAccountedFor'
  BY <1>8, ConstantsAssumption DEF Push, Move, AgentsAccountedFor, Places,
         Knows, Made, Shape, AtAgent, TypeOK, Reqs, Agents
<1>9. ASSUME NEW q \in Req, NEW a \in Agent, PushFails(q, a)
      PROVE  AgentsAccountedFor'
  <2>1. \A p \in Req : reqs'[p].pc = reqs[p].pc /\ reqs'[p].agent = reqs[p].agent
    <3>1. CASE Move(q, [reqs[q] EXCEPT !.todo = @ \ {a}, !.sent = @ \union {a}, !.failed = TRUE])
      BY <3>1 DEF Move, TypeOK, Reqs
    <3>2. CASE Move(q, [reqs[q] EXCEPT !.todo = @ \ {a}, !.failed = TRUE])
      BY <3>2 DEF Move, TypeOK, Reqs
    <3>. QED
      BY <1>9, <3>1, <3>2 DEF PushFails
  <2>2. \A x \in Agent : letta'[x].st = letta[x].st
    BY <1>9 DEF PushFails, TypeOK, Agents
  <2>3. listed' = listed /\ loose' = loose
    BY <1>9 DEF PushFails
  <2>. QED
    BY <2>1, <2>2, <2>3 DEF AgentsAccountedFor
<1>10. ASSUME NEW q \in Req, NEW a \in Agent, PushGone(q, a)
      PROVE  AgentsAccountedFor'
  BY <1>10, ConstantsAssumption DEF PushGone, Move, AgentsAccountedFor,
         Places, Knows, Made, Shape, AtAgent, TypeOK, Reqs, Agents
<1>11. ASSUME NEW q \in Req, Commit(q)
      PROVE  AgentsAccountedFor'
  BY <1>11, ConstantsAssumption DEF Commit, End, IdleReq, AgentsAccountedFor,
         Places, Knows, Made, Shape, AtAgent, TypeOK, Reqs, Agents
<1>12. ASSUME NEW q \in Req, BeginAgent(q)
      PROVE  AgentsAccountedFor'
  BY <1>12, ConstantsAssumption DEF BeginAgent, Begin, Move, Arrive, IdleReq,
         AgentsAccountedFor, Places, Knows, Made, Shape, AtAgent, TypeOK,
         Reqs, Agents
<1>13. ASSUME NEW q \in Req, NEW a \in Agent, LettaCreate(q, a)
      PROVE  AgentsAccountedFor'
  BY <1>13, ConstantsAssumption DEF LettaCreate, Move, Made,
         AgentsAccountedFor, Places, Knows, Made, Shape, AtAgent, TypeOK,
         Reqs, Agents
<1>14. ASSUME NEW q \in Req, NEW a \in Agent, LettaCreateLost(q, a)
      PROVE  AgentsAccountedFor'
  BY <1>14, ConstantsAssumption DEF LettaCreateLost, Move, Made, CountFailure,
         IdleReq, AgentsAccountedFor, Places, Knows, Made, Shape, AtAgent,
         TypeOK, Reqs, Agents
<1>15. ASSUME NEW q \in Req, CommitAgent(q)
      PROVE  AgentsAccountedFor'
  <2>1. /\ listed' = listed \union {reqs[q].agent} /\ letta' = letta /\ loose' = loose
        /\ letta[reqs[q].agent].st = "live"
    <3>1. letta[reqs[q].agent] = Made(reqs[q].env)
      BY <1>15 DEF CommitAgent, Places
    <3>. QED
      BY <1>15, <3>1 DEF CommitAgent, Made
  <2>2. \A p \in Req : p # q => reqs'[p].pc = reqs[p].pc /\ reqs'[p].agent = reqs[p].agent
    BY <1>15 DEF CommitAgent, End, TypeOK, Reqs
  <2>3. ASSUME NEW a \in Agent \ loose, a # reqs[q].agent
        PROVE  \/ letta'[a].st = "live" <=> a \in listed'
               \/ \E p \in Req : reqs'[p].agent = a /\ reqs'[p].pc \in {"attach", "unrow"}
    BY <2>1, <2>2, <2>3 DEF AgentsAccountedFor
  <2>. QED
    BY <2>1, <2>3 DEF AgentsAccountedFor
<1>16. ASSUME NEW q \in Req, NEW a \in Agent, BeginUnagent(q, a)
      PROVE  AgentsAccountedFor'
  BY <1>16, ConstantsAssumption DEF BeginUnagent, Begin, Move, Arrive,
         IdleReq, AgentsAccountedFor, Places, Knows, Made, Shape, AtAgent,
         TypeOK, Reqs, Agents
<1>17. ASSUME NEW q \in Req, LettaDelete(q)
      PROVE  AgentsAccountedFor'
  BY <1>17, ConstantsAssumption DEF LettaDelete, Move, AgentsAccountedFor,
         Places, Knows, Made, Shape, AtAgent, TypeOK, Reqs, Agents
<1>18. ASSUME NEW q \in Req, LettaDeleteFails(q)
      PROVE  AgentsAccountedFor'
  BY <1>18, ConstantsAssumption DEF LettaDeleteFails, Move, CountFailure,
         AgentsAccountedFor, Places, Knows, Made, Shape, AtAgent, TypeOK,
         Reqs, Agents
<1>19. ASSUME NEW q \in Req, CommitUnagent(q)
      PROVE  AgentsAccountedFor'
  BY <1>19, ConstantsAssumption DEF CommitUnagent, Move, IdleReq,
         AgentsAccountedFor, Places, Knows, Made, Shape, AtAgent, TypeOK,
         Reqs, Agents
<1>20. ASSUME NEW q \in Req, Dies(q)
      PROVE  AgentsAccountedFor'
  BY <1>20, ConstantsAssumption DEF Dies, End, CountFailure, IdleReq,
         AgentsAccountedFor, Places, Knows, Made, Shape, AtAgent, TypeOK,
         Reqs, Agents
<1>21. CASE UNCHANGED vars
  BY <1>21, ConstantsAssumption DEF vars, AgentsAccountedFor
<1>. QED
  BY <1>1, <1>2, <1>3, <1>4, <1>5, <1>6, <1>7, <1>8, <1>9, <1>10, <1>11,
     <1>12, <1>13, <1>14, <1>15, <1>16, <1>17, <1>18, <1>19, <1>20, <1>21 DEF Next

\* The two halves of Sources, for one agent.
Sourced(a) == letta[a].env = Stored(creds) \/ \E q \in Req : a \in reqs[q].sent
Arrived(q, a) == letta[a].env = reqs[q].env \/ \E p \in Req \ {q} : a \in reqs[p].sent

\* Every step keeps track of where an agent's environment comes from.
LEMMA SourcesStep ==
    ASSUME TypeOK, Shape, Places, Views, Sources, [Next]_vars
    PROVE  Sources'
<1>1. ASSUME NEW q \in Req, NEW i \in Id, NEW k \in Key, NEW v \in Val,
             BeginCreate(q, i, k, v)
      PROVE  Sources'
  BY <1>1 DEF BeginCreate, Begin, Move, Arrive, IdleReq, Sources, Places,
         Knows, Made, Shape, AtAgent, TypeOK, Reqs, Agents
<1>2. ASSUME NEW q \in Req, NEW i \in Id, NEW k \in Maybe(Key), NEW v \in Maybe(Val),
             BeginUpdate(q, i, k, v)
      PROVE  Sources'
  BY <1>2 DEF BeginUpdate, Begin, Move, Arrive, IdleReq, Sources, Places,
         Knows, Made, Shape, AtAgent, TypeOK, Reqs, Agents
<1>3. ASSUME NEW q \in Req, NEW i \in Id, BeginDelete(q, i)
      PROVE  Sources'
  BY <1>3 DEF BeginDelete, Begin, Move, Arrive, IdleReq, Sources, Places,
         Knows, Made, Shape, AtAgent, TypeOK, Reqs, Agents
<1>4. ASSUME NEW q \in Req, Flush(q)
      PROVE  Sources'
  BY <1>4 DEF Flush, Move, Sources, Places, Knows, Made, Shape, AtAgent,
         TypeOK, Reqs, Agents
<1>5. ASSUME NEW q \in Req, FlushFails(q)
      PROVE  Sources'
  BY <1>5 DEF FlushFails, Move, IdleReq, Sources, Places, Knows, Made, Shape,
         AtAgent, TypeOK, Reqs, Agents
<1>6. ASSUME NEW q \in Req, ReadCreds(q)
      PROVE  Sources'
  BY <1>6 DEF ReadCreds, Move, Sources, Places, Knows, Made, Shape, AtAgent,
         TypeOK, Reqs, Agents
<1>7. ASSUME NEW q \in Req, ReadAgents(q)
      PROVE  Sources'
  BY <1>7 DEF ReadAgents, Move, Sources, Places, Knows, Made, Shape, AtAgent,
         TypeOK, Reqs, Agents
<1>8. ASSUME NEW q \in Req, NEW a \in Agent, Push(q, a)
      PROVE  Sources'
  <2>1. creds' = creds /\ listed' = listed /\ torn' = torn /\ a \in reqs[q].todo
    BY <1>8 DEF Push
  <2>2. /\ reqs'[q].pc = "push" /\ reqs'[q].sent = reqs[q].sent \union {a}
        /\ reqs'[q].todo = reqs[q].todo \ {a} /\ reqs'[q].env = reqs[q].env
        /\ reqs'[q].stale = reqs[q].stale /\ reqs'[q].failed = reqs[q].failed
        /\ \A p \in Req : p # q => reqs'[p] = reqs[p]
    BY <1>8 DEF Push, Move, TypeOK, Reqs
  <2>3. /\ letta'[a].env = reqs[q].env /\ letta'[a].st = letta[a].st
        /\ \A x \in Agent : x # a => letta'[x] = letta[x]
    BY <1>8 DEF Push, TypeOK, Agents
  <2>4. ASSUME ~torn', NEW x \in listed', letta'[x].st = "live" PROVE (Sourced(x))'
    BY <2>1, <2>2, <2>3, <2>4 DEF Sources, Sourced, TypeOK
  <2>5. ASSUME NEW p \in Req, reqs'[p].pc = "push", ~reqs'[p].stale
        PROVE  /\ \A x \in reqs'[p].sent : letta'[x].st = "live" => (Arrived(p, x))'
               /\ ~reqs'[p].failed => \A x \in listed' : letta'[x].st = "live" =>
                     x \in reqs'[p].todo \union reqs'[p].sent
    <3>1. ASSUME NEW x \in reqs'[p].sent, letta'[x].st = "live" PROVE (Arrived(p, x))'
      <4>1. CASE x = a
        BY <2>2, <2>3, <4>1 DEF Arrived
      <4>2. CASE x # a
        <5>1. x \in reqs[p].sent /\ x \in Agent /\ reqs[p].pc = "push" /\ ~reqs[p].stale
          BY <1>8, <2>2, <2>5, <3>1, <4>2 DEF Push, TypeOK, Reqs
        <5>2. letta[x].env = reqs[p].env \/ \E r \in Req \ {p} : x \in reqs[r].sent
          BY <2>3, <3>1, <4>2, <5>1 DEF Sources
        <5>. QED
          BY <2>2, <2>3, <4>2, <5>1, <5>2 DEF Arrived
      <4>. QED
        BY <4>1, <4>2
    <3>2. ASSUME ~reqs'[p].failed, NEW x \in listed', letta'[x].st = "live"
          PROVE  x \in reqs'[p].todo \union reqs'[p].sent
      BY <1>8, <2>1, <2>2, <2>3, <2>5, <3>2 DEF Push, Sources, TypeOK
    <3>. QED
      BY <3>1, <3>2
  <2>. QED
    BY <2>4, <2>5 DEF Sources, Sourced, Arrived
<1>9. ASSUME NEW q \in Req, NEW a \in Agent, PushFails(q, a)
      PROVE  Sources'
  <2>1. creds' = creds /\ listed' = listed /\ torn' = torn /\ a \in reqs[q].todo
        /\ reqs[q].pc = "push"
    BY <1>9 DEF PushFails
  <2>2. CASE /\ letta' = [letta EXCEPT ![a].env = reqs[q].env]
             /\ Move(q, [reqs[q] EXCEPT !.todo = @ \ {a}, !.sent = @ \union {a}, !.failed = TRUE])
    <3>2. /\ reqs'[q].pc = "push" /\ reqs'[q].sent = reqs[q].sent \union {a}
          /\ reqs'[q].todo = reqs[q].todo \ {a} /\ reqs'[q].env = reqs[q].env
          /\ reqs'[q].stale = reqs[q].stale /\ reqs'[q].failed
          /\ \A p \in Req : p # q => reqs'[p] = reqs[p]
      BY <2>1, <2>2 DEF Move, TypeOK, Reqs
    <3>3. /\ letta'[a].env = reqs[q].env /\ letta'[a].st = letta[a].st
          /\ \A x \in Agent : x # a => letta'[x] = letta[x]
      BY <1>9, <2>2 DEF TypeOK, Agents
    <3>4. ASSUME ~torn', NEW x \in listed', letta'[x].st = "live" PROVE (Sourced(x))'
      BY <2>1, <3>2, <3>3, <3>4 DEF Sources, Sourced, TypeOK
    <3>5. ASSUME NEW p \in Req, reqs'[p].pc = "push", ~reqs'[p].stale
          PROVE  /\ \A x \in reqs'[p].sent : letta'[x].st = "live" => (Arrived(p, x))'
                 /\ ~reqs'[p].failed => \A x \in listed' : letta'[x].st = "live" =>
                       x \in reqs'[p].todo \union reqs'[p].sent
      <4>1. ASSUME NEW x \in reqs'[p].sent, letta'[x].st = "live" PROVE (Arrived(p, x))'
        <5>1. CASE x = a
          BY <3>2, <3>3, <5>1 DEF Arrived
        <5>2. CASE x # a
          <6>1. x \in reqs[p].sent /\ x \in Agent /\ reqs[p].pc = "push" /\ ~reqs[p].stale
            BY <1>9, <3>2, <3>5, <4>1, <5>2 DEF PushFails, TypeOK, Reqs
          <6>2. letta[x].env = reqs[p].env \/ \E r \in Req \ {p} : x \in reqs[r].sent
            BY <3>3, <4>1, <5>2, <6>1 DEF Sources
          <6>. QED
            BY <3>2, <3>3, <5>2, <6>1, <6>2 DEF Arrived
        <5>. QED
          BY <5>1, <5>2
      <4>2. ASSUME ~reqs'[p].failed, NEW x \in listed', letta'[x].st = "live"
            PROVE  x \in reqs'[p].todo \union reqs'[p].sent
        BY <1>9, <2>1, <2>1, <3>2, <3>3, <3>5, <4>2 DEF PushFails, Sources, TypeOK
      <4>. QED
        BY <4>1, <4>2
    <3>. QED
      BY <3>4, <3>5 DEF Sources, Sourced, Arrived
  <2>3. CASE /\ letta' = letta
             /\ Move(q, [reqs[q] EXCEPT !.todo = @ \ {a}, !.failed = TRUE])
    <3>1. /\ reqs'[q].pc = "push" /\ reqs'[q].sent = reqs[q].sent /\ reqs'[q].failed
          /\ reqs'[q].env = reqs[q].env /\ reqs'[q].stale = reqs[q].stale
          /\ \A p \in Req : p # q => reqs'[p] = reqs[p]
      BY <2>1, <2>3 DEF Move, TypeOK, Reqs
    <3>. QED
      BY <2>1, <2>3, <3>1 DEF Sources
  <2>. QED
    BY <1>9, <2>2, <2>3 DEF PushFails
<1>10. ASSUME NEW q \in Req, NEW a \in Agent, PushGone(q, a)
      PROVE  Sources'
  BY <1>10 DEF PushGone, Move, Sources, Places, Knows, Made, Shape, AtAgent,
         TypeOK, Reqs, Agents
<1>11. ASSUME NEW q \in Req, Commit(q)
      PROVE  Sources'
  <2>1. /\ creds' = After(q) /\ letta' = letta /\ listed' = listed
        /\ torn' = (reqs[q].stale \/ reqs[q].failed) /\ reqs[q].pc = "push"
        /\ reqs[q].todo = {} /\ End(q, Outdated(q))
    BY <1>11 DEF Commit, After
  <2>2. \A p \in Req : p # q => reqs'[p].sent = reqs[p].sent
    BY <2>1 DEF End, TypeOK, Reqs
  <2>3. \A p \in Req : ~(reqs'[p].pc = "push" /\ ~reqs'[p].stale)
    BY <2>1 DEF End, Outdated, IdleReq, TypeOK, Reqs
  <2>4. ASSUME ~torn', NEW x \in listed', letta'[x].st = "live" PROVE (Sourced(x))'
    <3>1. x \in reqs[q].sent
      BY <2>1, <2>4 DEF Sources
    <3>2. letta[x].env = reqs[q].env \/ \E p \in Req \ {q} : x \in reqs[p].sent
      BY <2>1, <2>4, <3>1 DEF Sources
    <3>3. reqs[q].env = Stored(After(q))
      BY <2>1, <2>4 DEF Views
    <3>. QED
      BY <2>1, <2>2, <3>2, <3>3 DEF Sourced, Stored
  <2>. QED
    BY <2>3, <2>4 DEF Sources, Sourced
<1>12. ASSUME NEW q \in Req, BeginAgent(q)
      PROVE  Sources'
  BY <1>12 DEF BeginAgent, Begin, Move, Arrive, IdleReq, Sources, Places,
         Knows, Made, Shape, AtAgent, TypeOK, Reqs, Agents
<1>13. ASSUME NEW q \in Req, NEW a \in Agent, LettaCreate(q, a)
      PROVE  Sources'
  BY <1>13, SMTT(30) DEF LettaCreate, Move, Made, Sources, Places, Knows, Made, Shape,
         AtAgent, TypeOK, Reqs, Agents
<1>14. ASSUME NEW q \in Req, NEW a \in Agent, LettaCreateLost(q, a)
      PROVE  Sources'
  BY <1>14 DEF LettaCreateLost, Move, Made, CountFailure, IdleReq, Sources,
         Places, Knows, Made, Shape, AtAgent, TypeOK, Reqs, Agents
<1>15. ASSUME NEW q \in Req, CommitAgent(q)
      PROVE  Sources'
  <2>1. /\ creds' = creds /\ letta' = letta /\ listed' = listed \union {reqs[q].agent}
        /\ torn' = (torn \/ reqs[q].stale) /\ reqs[q].pc = "attach"
        /\ End(q, {p \in Req : reqs[p].pc = "push"})
    BY <1>15 DEF CommitAgent
  <2>2. /\ reqs[q].sent = {}
        /\ \A p \in Req : p # q => reqs'[p].sent = reqs[p].sent
    BY <2>1 DEF End, Shape, TypeOK, Reqs
  <2>3. \A p \in Req : ~(reqs'[p].pc = "push" /\ ~reqs'[p].stale)
    BY <2>1 DEF End, IdleReq, TypeOK, Reqs
  <2>4. ASSUME ~torn', NEW x \in listed', letta'[x].st = "live" PROVE (Sourced(x))'
    <3>1. CASE x = reqs[q].agent
      <4>1. letta[x] = Made(reqs[q].env)
        BY <2>1, <3>1 DEF Places
      <4>2. reqs[q].env = Stored(creds)
        BY <2>1, <2>4 DEF Views
      <4>. QED
        BY <2>1, <4>1, <4>2 DEF Made, Sourced
    <3>2. CASE x # reqs[q].agent
      BY <2>1, <2>2, <2>4, <3>2 DEF Sources, Sourced
    <3>. QED
      BY <3>1, <3>2
  <2>. QED
    BY <2>3, <2>4 DEF Sources, Sourced
<1>16. ASSUME NEW q \in Req, NEW a \in Agent, BeginUnagent(q, a)
      PROVE  Sources'
  BY <1>16 DEF BeginUnagent, Begin, Move, Arrive, IdleReq, Sources, Places,
         Knows, Made, Shape, AtAgent, TypeOK, Reqs, Agents
<1>17. ASSUME NEW q \in Req, LettaDelete(q)
      PROVE  Sources'
  <2>1. /\ creds' = creds /\ listed' = listed /\ torn' = torn /\ reqs[q].pc = "unletta"
        /\ letta' = [letta EXCEPT ![reqs[q].agent].st = "gone"]
        /\ Move(q, [reqs[q] EXCEPT !.pc = "unrow"])
    BY <1>17 DEF LettaDelete
  <2>2. /\ reqs'[q].pc = "unrow" /\ reqs'[q].sent = reqs[q].sent
        /\ \A p \in Req : p # q => reqs'[p] = reqs[p]
    BY <2>1 DEF Move, TypeOK, Reqs
  <2>3. \A x \in Agent : letta'[x].st = "live" => letta'[x] = letta[x]
    BY <2>1 DEF TypeOK, Agents
  <2>4. ASSUME ~torn', NEW x \in listed', letta'[x].st = "live" PROVE (Sourced(x))'
    BY <2>1, <2>2, <2>3, <2>4 DEF Sources, Sourced, TypeOK
  <2>5. ASSUME NEW p \in Req, reqs'[p].pc = "push", ~reqs'[p].stale
        PROVE  /\ \A x \in reqs'[p].sent : letta'[x].st = "live" => (Arrived(p, x))'
               /\ ~reqs'[p].failed => \A x \in listed' : letta'[x].st = "live" =>
                     x \in reqs'[p].todo \union reqs'[p].sent
    <3>1. p # q /\ reqs'[p] = reqs[p] /\ reqs[p].sent \in SUBSET Agent /\ listed \in SUBSET Agent
      BY <2>2, <2>5 DEF TypeOK, Reqs
    <3>. QED
      BY <2>1, <2>2, <2>3, <2>5, <3>1 DEF Sources, Arrived
  <2>. QED
    BY <2>4, <2>5 DEF Sources, Sourced, Arrived
<1>18. ASSUME NEW q \in Req, LettaDeleteFails(q)
      PROVE  Sources'
  BY <1>18 DEF LettaDeleteFails, Move, CountFailure, Sources, Places, Knows,
         Made, Shape, AtAgent, TypeOK, Reqs, Agents
<1>19. ASSUME NEW q \in Req, CommitUnagent(q)
      PROVE  Sources'
  BY <1>19 DEF CommitUnagent, Move, IdleReq, Sources, Places, Knows, Made,
         Shape, AtAgent, TypeOK, Reqs, Agents
<1>20. ASSUME NEW q \in Req, Dies(q)
      PROVE  Sources'
  <2>1. /\ creds' = creds /\ letta' = letta /\ listed' = listed
        /\ torn' = (torn \/ reqs[q].sent # {})
        /\ End(q, {p \in Req : reqs[p].sent \intersect reqs[q].sent # {}})
    BY <1>20 DEF Dies
  <2>2. ASSUME NEW p \in Req, p # q
        PROVE  /\ reqs'[p].sent = reqs[p].sent
               /\ ~reqs'[p].stale => reqs'[p] = reqs[p] /\ reqs[p].sent \intersect reqs[q].sent = {}
    BY <2>1, <2>2 DEF End, TypeOK, Reqs
  <2>3. ASSUME ~torn', NEW x \in listed', letta'[x].st = "live" PROVE (Sourced(x))'
    <3>1. ~torn /\ reqs[q].sent = {}
      BY <2>1, <2>3
    <3>2. letta[x].env = Stored(creds) \/ \E p \in Req : x \in reqs[p].sent
      BY <2>1, <2>3, <3>1 DEF Sources
    <3>. QED
      BY <2>1, <2>2, <3>1, <3>2 DEF Sourced
  <2>4. ASSUME NEW p \in Req, reqs'[p].pc = "push", ~reqs'[p].stale
        PROVE  /\ \A x \in reqs'[p].sent : letta'[x].st = "live" => (Arrived(p, x))'
               /\ ~reqs'[p].failed => \A x \in listed' : letta'[x].st = "live" =>
                     x \in reqs'[p].todo \union reqs'[p].sent
    <3>1. p # q
      BY <2>1, <2>4 DEF End, IdleReq
    <3>2. reqs'[p] = reqs[p] /\ reqs[p].sent \intersect reqs[q].sent = {}
      BY <2>2, <2>4, <3>1
    <3>3. ASSUME NEW x \in reqs[p].sent, letta[x].st = "live" PROVE (Arrived(p, x))'
      <4>1. letta[x].env = reqs[p].env \/ \E r \in Req \ {p} : x \in reqs[r].sent
        BY <2>4, <3>2, <3>3 DEF Sources
      <4>. QED
        BY <2>1, <2>2, <3>2, <3>3, <4>1 DEF Arrived
    <3>. QED
      BY <2>1, <2>4, <3>2, <3>3 DEF Sources
  <2>. QED
    BY <2>3, <2>4 DEF Sources, Sourced, Arrived
<1>21. CASE UNCHANGED vars
  BY <1>21 DEF vars, Sources
<1>. QED
  BY <1>1, <1>2, <1>3, <1>4, <1>5, <1>6, <1>7, <1>8, <1>9, <1>10, <1>11,
     <1>12, <1>13, <1>14, <1>15, <1>16, <1>17, <1>18, <1>19, <1>20, <1>21 DEF Next

-----------------------------------------------------------------------------
\* All of it together.
Inv == /\ TypeOK /\ Shape /\ Locks /\ KeysAreUnique
       /\ Places /\ Views /\ AgentsAccountedFor /\ Sources

LEMMA InitInv == Init => Inv
<1>1. ASSUME Init PROVE TypeOK
  <2>1. Stored(creds) \in Env
    BY <1>1 DEF Init, Stored, Env, Maybe
  <2>2. letta \in [Agent -> Agents]
    BY <1>1, <2>1 DEF Init, Agents, Env
  <2>3. creds \in [Id -> Maybe(Row)] /\ listed \in SUBSET Agent
        /\ torn \in BOOLEAN /\ loose \in SUBSET Agent
    BY <1>1 DEF Init
  <2>4. reqs \in [Req -> Reqs]
    BY <1>1, IdleType DEF Init
  <2>5. arrivals \in 0..MaxArrivals /\ failures \in 0..MaxFailures
    BY <1>1, ConstantsAssumption DEF Init
  <2>. QED
    BY <2>2, <2>3, <2>4, <2>5 DEF TypeOK
<1>2. ASSUME Init PROVE Shape /\ Locks /\ KeysAreUnique
  BY <1>2 DEF Init, IdleReq, Shape, Syncing, AtAgent, Locks, Writing, KeysAreUnique
<1>3. ASSUME Init PROVE Places /\ Views /\ AgentsAccountedFor
  BY <1>3, ConstantsAssumption
  DEF Init, IdleReq, Places, Knows, Views, AgentsAccountedFor
<1>4. ASSUME Init PROVE Sources
  BY <1>4 DEF Init, IdleReq, Sources
<1>. QED
  BY <1>1, <1>2, <1>3, <1>4 DEF Inv

LEMMA StepInv == Inv /\ [Next]_vars => Inv'
  BY TypeStep, ShapeStep, LocksStep, KeysStep, PlacesStep, ViewsStep, AccountStep,
     SourcesStep DEF Inv

LEMMA AlwaysInv == Spec => []Inv
  BY InitInv, StepInv, PTL DEF Spec

\* The types of CredentialSync, for any values of the constants.
THEOREM TypeCorrect == Spec => []TypeOK
<1>1. Inv => TypeOK
  BY DEF Inv
<1>. QED
  BY <1>1, AlwaysInv, PTL

\* However the requests that check a key and later write it are interleaved,
\* it names one credential (the unique constraint and the row locks).
THEOREM OneCredentialPerKey == Spec => []KeysAreUnique
<1>1. Inv => KeysAreUnique
  BY DEF Inv
<1>. QED
  BY <1>1, AlwaysInv, PTL

\* Letta's agents and the agents table name the same agents, but for one that
\* is being made or deleted and those that a failure left in one place.
THEOREM AgentsAccounted == Spec => []AgentsAccountedFor
<1>1. Inv => AgentsAccountedFor
  BY DEF Inv
<1>. QED
  BY <1>1, AlwaysInv, PTL

\* Unless a push failed, a request died after one, or syncs overlapped, every
\* listed agent has exactly the committed credentials.
THEOREM AgentsHaveTheCredentials == Spec => []AgentsFollow
<1>1. Inv => AgentsFollow
  BY DEF Inv, Sources, AgentsFollow
<1>. QED
  BY <1>1, AlwaysInv, PTL

\* The sync repairs: when a request commits that was not disturbed and whose
\* pushes went through, every agent has what is then committed, whatever it
\* had before and whatever went wrong before.
UndisturbedSyncRepairs ==
    [][\A q \in Req :
          Commit(q) /\ ~reqs[q].stale /\ ~reqs[q].failed
                    /\ (\A p \in Req \ {q} : reqs[p].sent = {}) =>
              \A a \in listed : letta[a].st = "live" => letta'[a].env = Stored(creds')]_vars
THEOREM SyncRepairs == Spec => UndisturbedSyncRepairs
<1>1. ASSUME Inv, NEW q \in Req, Commit(q), ~reqs[q].stale, ~reqs[q].failed,
             \A p \in Req \ {q} : reqs[p].sent = {},
             NEW a \in listed, letta[a].st = "live"
      PROVE  letta'[a].env = Stored(creds')
  <2>1. creds' = After(q) /\ letta' = letta /\ reqs[q].pc = "push" /\ reqs[q].todo = {}
    BY <1>1 DEF Commit, After
  <2>2. a \in reqs[q].sent
    BY <1>1, <2>1 DEF Inv, Sources
  <2>3. letta[a].env = reqs[q].env
    BY <1>1, <2>1, <2>2 DEF Inv, Sources
  <2>4. reqs[q].env = Stored(After(q))
    BY <1>1, <2>1 DEF Inv, Views
  <2>. QED
    BY <2>1, <2>3, <2>4
<1>2. Inv /\ [Next]_vars =>
        [\A q \in Req :
          Commit(q) /\ ~reqs[q].stale /\ ~reqs[q].failed
                    /\ (\A p \in Req \ {q} : reqs[p].sent = {}) =>
              \A a \in listed : letta[a].st = "live" => letta'[a].env = Stored(creds')]_vars
  BY <1>1
<1>. QED
  BY <1>2, AlwaysInv, PTL DEF Spec, UndisturbedSyncRepairs

=============================================================================
