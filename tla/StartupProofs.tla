---------------------------- MODULE StartupProofs ----------------------------
(***************************************************************************)
(* Proofs about Startup, for any numbers of credentials, revisions,        *)
(* secrets, deployments and failures, and any environments.  Keys says     *)
(* where the key of every stored value is to be found, Schema what the     *)
(* revision in the database means, and Passes what the two passes over the *)
(* credentials have done so far.                                           *)
(***************************************************************************)
EXTENDS Startup, TLAPS

Keyed == Phases \ {"down", "jwt", "enc"}
Late == {"pass1", "pass2", "serve", "serving"}
Migrating == {"pass1", "pass2", "serve"}

\* The key the next start finds.
Current == IF env["enc"] # None THEN env["enc"] ELSE vol["enc"]
Known == (lostKeys \union {Current}) \ {None}
Held(row, K) == row # None => row.pri.key \in K /\ (row.sec # None => row.sec.key \in K)

\* Every value that is stored has the key the next start finds, or a lost one;
\* the running backend has that key, or has lost its own.
Keys ==
    /\ \A c \in Cred : Held(creds[c], Known) /\ Held(work[c], Known)
    /\ phase \in Keyed => /\ mem["enc"] \in Known
                          /\ mem["enc"] = Current \/ Current = None

\* A revision that was not stamped blindly says what the tables are; past
\* init_db it is the code's.
Schema ==
    /\ ~blind /\ rev # 0 => tables = 1..rev
    /\ phase \in Late => rev = code

Blobs(row) == {row.pri, row.sec} \ {None}
AllReadable(row) == \A b \in Blobs(row) : Readable(mem["enc"], b)
AllStrong(row) == \A b \in Blobs(row) : OpensAt(mem["enc"], b, 2)
\* Where a pass at version v leaves a first key it can read.
Reached(row, v) ==
    Readable(mem["enc"], row.pri) => OpensAt(mem["enc"], row.pri, v) \/ OpensAt(mem["enc"], row.pri, 2)

\* The session's objects and the table differ at most in rows with a value that
\* cannot be read, and there alike in whether the first key can.
Alike(c) ==
    /\ creds[c] = None <=> work[c] = None
    /\ creds[c] # None =>
         /\ Readable(mem["enc"], creds[c].pri) <=> Readable(mem["enc"], work[c].pri)
         /\ AllReadable(creds[c]) => work[c] = creds[c]
Passes ==
    /\ phase \in Migrating => \A c \in Cred : Alike(c)
    /\ phase = "pass2" => \A c \in Cred : work[c] # None =>
         /\ Reached(work[c], 1)
         /\ AllReadable(work[c]) => OpensAt(mem["enc"], work[c].pri, 1) \/ AllStrong(work[c])
    /\ phase = "serve" => \A c \in Cred : work[c] # None =>
         /\ Reached(work[c], 2)
         /\ AllReadable(work[c]) => AllStrong(work[c])

IInv == TypeOK /\ Keys /\ Schema /\ Passes

-----------------------------------------------------------------------------
\* What opens a value in one way only opens it; what is encrypted today opens
\* at 2; a value under a generated key opens in every way.
LEMMA Opening ==
    ASSUME NEW k \in Secret, NEW b \in Blob
    PROVE  /\ Readable(k, b) <=> b.key = k
           /\ \A v \in 0..2 : OpensAt(k, b, v) => b.key = k
           /\ OpensAt(k, b, 1) /\ OpensAt(k, b, 2) => k \in Generated
           /\ k \in Generated /\ b.key = k => OpensAt(k, b, 2)
  BY DEF Readable, OpensAt, Blob

\* encrypt_value gives a value of its own key, that opens as today's do.
LEMMA EncryptedType ==
    ASSUME NEW k \in Secret
    PROVE  Encrypted(k) \in Blob /\ Encrypted(k).key = k /\ OpensAt(k, Encrypted(k), 2)
  BY DEF Encrypted, Blob, OpensAt

\* The values of a row.
LEMMA RowBlobs ==
    ASSUME NEW row \in Row
    PROVE  /\ row.pri \in Blob /\ row.pri # None /\ row.sec \in Blob \union {None}
           /\ Blobs(row) = IF row.sec = None THEN {row.pri} ELSE {row.pri, row.sec}
           /\ Blobs(row) \subseteq Blob
           /\ row # None
  BY NoneAssumption DEF Row, Blobs

\* _migrate_credentials, of one row: it keeps what cannot be read, it counts
\* every row all of whose values it can read and changes, and it leaves a first
\* key that can be read at the version of the pass or at today's.
LEMMA MigratedRow ==
    ASSUME NEW row \in Row, NEW v \in {1, 2}, mem["enc"] \in Secret,
           NEW m, m = Migrated(row, v)
    PROVE  /\ m \in Row
           /\ Readable(mem["enc"], row.pri) <=> Readable(mem["enc"], m.pri)
           /\ AllReadable(row) <=> AllReadable(m)
           /\ AllReadable(row) /\ ~Counted(row, v) => m = row
           /\ Reached(m, v)
           /\ AllReadable(row) => (m = row /\ OpensAt(mem["enc"], row.pri, v)) \/ AllStrong(m)
           /\ \A K : Held(row, K) /\ mem["enc"] \in K => Held(m, K)
<1> DEFINE k == mem["enc"]
           e == Encrypted(k)
<1>0. k \in Secret /\ v \in 0..2
  OBVIOUS
<1>1. /\ row.pri \in Blob /\ row.pri # None /\ row.sec \in Blob \union {None} /\ row # None
      /\ Blobs(row) = IF row.sec = None THEN {row.pri} ELSE {row.pri, row.sec}
  BY RowBlobs
<1>2. e \in Blob /\ e.key = k /\ OpensAt(k, e, 2) /\ e # None
  BY <1>0, EncryptedType, NoneAssumption
<1>3. \A b \in Blob : /\ Readable(k, b) <=> b.key = k
                      /\ OpensAt(k, b, v) => b.key = k
  BY <1>0, Opening
<1>4. CASE OpensAt(k, row.pri, v) \/ ~Readable(k, row.pri)
  <2>1. m = row
    BY <1>1, <1>4 DEF Migrated
  <2>2. AllReadable(row) => Readable(k, row.pri)
    BY <1>1 DEF AllReadable
  <2> QED
    BY <1>4, <2>1, <2>2 DEF Reached
<1>5. CASE ~OpensAt(k, row.pri, v) /\ Readable(k, row.pri)
  <2> DEFINE s == IF row.sec = None \/ ~Readable(k, row.sec) THEN row.sec ELSE e
  <2>1. m = [pri |-> e, sec |-> s]
    BY <1>1, <1>5 DEF Migrated
  <2>2. s \in Blob \union {None} /\ (s = None <=> row.sec = None)
    BY <1>1, <1>2
  <2>3. m \in Row /\ m.pri = e /\ m.sec = s
    BY <1>2, <2>1, <2>2 DEF Row
  <2> HIDE DEF s
  <2>4. Blobs(m) = IF s = None THEN {e} ELSE {e, s}
    BY <2>3, RowBlobs
  <2>5. Readable(k, e)
    BY <1>2, <1>3
  <2>6. row.sec # None => (Readable(k, s) <=> Readable(k, row.sec))
    BY <2>5 DEF s
  <2>7. AllReadable(row) <=> AllReadable(m)
    BY <1>1, <1>5, <2>2, <2>4, <2>5, <2>6 DEF AllReadable
  <2>8. AllReadable(row) => Counted(row, v) /\ AllStrong(m)
    <3> SUFFICES ASSUME AllReadable(row) PROVE Counted(row, v) /\ AllStrong(m)
      OBVIOUS
    <3>1. row.sec # None => Readable(k, row.sec) /\ s = e
      BY <1>1 DEF AllReadable, s
    <3>2. Counted(row, v)
      BY <1>1, <1>5, <3>1 DEF Counted
    <3>3. Blobs(m) = {e}
      BY <2>2, <2>4, <3>1
    <3> QED
      BY <1>2, <3>2, <3>3 DEF AllStrong
  <2>9. Reached(m, v)
    BY <1>2, <2>3 DEF Reached
  <2>10. \A K : Held(row, K) /\ k \in K => Held(m, K)
    BY <1>1, <1>2, <2>2, <2>3 DEF Held, s
  <2> QED
    BY <1>5, <2>3, <2>5, <2>7, <2>8, <2>9, <2>10
<1> QED
  BY <1>4, <1>5

\* A row as the user leaves it: with a first key, and each value as it was or
\* encrypted today.
LEMMA EnteredRow ==
    ASSUME NEW row \in Row \union {None}, NEW fields, row = None => "pri" \in fields,
           mem["enc"] \in Secret
    PROVE  /\ Entered(row, fields) \in Row
           /\ \A K : Held(row, K) /\ mem["enc"] \in K => Held(Entered(row, fields), K)
<1> DEFINE e == Encrypted(mem["enc"])
           old == IF row = None THEN [pri |-> None, sec |-> None] ELSE row
           p == IF "pri" \in fields THEN e ELSE old.pri
           s == IF "sec" \in fields THEN e ELSE old.sec
<1>1. e \in Blob /\ e.key = mem["enc"]
  BY EncryptedType
<1>2. Entered(row, fields) = [pri |-> p, sec |-> s]
  BY DEF Entered
<1>3. row # None => row.pri \in Blob /\ row.sec \in Blob \union {None} /\ old = row
  BY DEF Row
<1>4. row = None => p = e /\ old.sec = None
  OBVIOUS
<1>5. p \in Blob /\ s \in Blob \union {None}
  BY <1>1, <1>3, <1>4
<1>6. \A K : Held(row, K) /\ mem["enc"] \in K => p.key \in K /\ (s # None => s.key \in K)
  BY <1>1, <1>3, <1>4 DEF Held
<1> HIDE DEF p, s
<1> QED
  BY <1>2, <1>5, <1>6 DEF Row, Held

-----------------------------------------------------------------------------
\* What the environment gives is a secret, and a strong one is a key.
LEMMA EnvType ==
    ASSUME TypeOK
    PROVE  /\ \A s \in Secrets : env[s] \in Pass \union {Weak, None} /\ env[s] \in Secret
           /\ \A s \in Secrets : vol[s] \in Secret /\ mem[s] \in Secret
  BY ConstantsAssumption DEF TypeOK, Secret

\* Failures are counted up to their bound.
LEMMA FailureType ==
    ASSUME TypeOK, CountFailure
    PROVE  failures' \in 0..MaxFailures
  BY ConstantsAssumption DEF TypeOK, CountFailure

\* A secret that is made is a new one, and not None.
LEMMA GenType ==
    ASSUME TypeOK, gen < MaxGen
    PROVE  gen + 1 \in 0..MaxGen /\ gen + 1 \in Generated /\ gen + 1 \in Secret /\ gen + 1 # None
  BY ConstantsAssumption DEF TypeOK, Generated, Secret

\* A write to the volume succeeds, or its value counts as lost.
LEMMA Saved ==
    ASSUME TypeOK, NEW s \in Secrets, NEW v \in Secret, Save(s, v)
    PROVE  /\ vol' \in [Secrets -> Secret] /\ failures' \in 0..MaxFailures
           /\ lostKeys' \in SUBSET Secret /\ lostKeys \subseteq lostKeys'
           /\ s # "enc" => vol'["enc"] = vol["enc"]
           /\ vol'[s] = v \/ (vol'[s] = vol[s] /\ v \in lostKeys')
<1>1. CASE vol' = [vol EXCEPT ![s] = v] /\ UNCHANGED <<failures, lostKeys>>
  BY <1>1 DEF TypeOK, Secrets
<1>2. CASE CountFailure /\ lostKeys' = lostKeys \union {v} /\ UNCHANGED vol
  BY <1>2, FailureType DEF TypeOK
<1> QED
  BY <1>1, <1>2 DEF Save

\* A process that is gone has no secrets and no session.
LEMMA Gone ==
    ASSUME Down
    PROVE  /\ phase' = "down" /\ mem' \in [Secrets -> Secret]
           /\ \A c \in Cred : work'[c] = None
           /\ work' \in [Cred -> Row \union {None}]
  BY DEF Down, NoSecrets, NoRows, Secret

\* The order of the secrets.
LEMMA AfterSecrets == /\ After("jwt") = "enc" /\ After("enc") = "svc" /\ After("svc") = "check"
               /\ \A s \in Secrets : After(s) \in {"enc", "svc", "check"}
  BY DEF After, Secrets

-----------------------------------------------------------------------------
\* Every step keeps the types.  First the loading of the secrets.
LEMMA TypeSecrets ==
    ASSUME TypeOK, NEW s \in Secrets, TakeGiven(s) \/ TakeStored(s) \/ Make(s) \/ TearFile(s)
    PROVE  TypeOK'
<1>1. After(s) \in Phases
  BY AfterSecrets DEF Phases, Secrets
<1>2. CASE TakeGiven(s)
  <2>1. mem' \in [Secrets -> Secret] /\ phase' \in Phases
    BY <1>1, <1>2, EnvType DEF TakeGiven, TypeOK
  <2>2. CASE s = "svc"
    <3>1. Save(s, env[s])
      BY <1>2, <2>2 DEF TakeGiven
    <3> QED
      BY <1>2, <2>1, <3>1, EnvType, Saved DEF TakeGiven, TypeOK, box, db
  <2>3. CASE s # "svc"
    BY <1>2, <2>1, <2>3 DEF TakeGiven, TypeOK, box, db
  <2> QED
    BY <2>2, <2>3
<1>3. CASE TakeStored(s)
  <2>1. mem' \in [Secrets -> Secret] /\ phase' \in Phases
    BY <1>1, <1>3, EnvType DEF TakeStored, TypeOK
  <2> QED
    BY <1>3, <2>1 DEF TakeStored, TypeOK, box, db
<1>4. CASE Make(s)
  <2>1. gen' \in 0..MaxGen /\ gen + 1 \in Secret
    BY <1>4, GenType DEF Make
  <2>2. mem' \in [Secrets -> Secret] /\ phase' \in Phases
    BY <1>1, <1>4, <2>1 DEF Make, TypeOK
  <2>3. vol' \in [Secrets -> Secret] /\ failures' \in 0..MaxFailures /\ lostKeys' \in SUBSET Secret
    BY <1>4, <2>1, Saved DEF Make
  <2> QED
    BY <1>4, <2>1, <2>2, <2>3 DEF Make, TypeOK, box, db
<1>5. CASE TearFile(s)
  <2>1. vol' \in [Secrets -> Secret] /\ failures' \in 0..MaxFailures
    BY <1>5, FailureType DEF TearFile, TypeOK, Secret
  <2>2. mem' \in [Secrets -> Secret] /\ phase' \in Phases /\ work' \in [Cred -> Row \union {None}]
    BY <1>5, Gone DEF TearFile, Phases
  <2> QED
    BY <1>5, <2>1, <2>2 DEF TearFile, TypeOK, box, db
<1> QED
  BY <1>2, <1>3, <1>4, <1>5

\* Then the database and the credentials.
LEMMA TypeDatabase ==
    ASSUME TypeOK, CheckSecurity \/ Upgrade \/ CreateAll \/ Stamp
    PROVE  TypeOK'
<1>1. {"down", "db", "stamp", "pass1"} \subseteq Phases
  BY DEF Phases
<1>2. code \in Versions /\ 1..code \in SUBSET Versions /\ code \in Versions \union {0}
  BY ConstantsAssumption DEF TypeOK, Versions
<1>3. CASE CheckSecurity
  BY <1>1, <1>3, Gone DEF CheckSecurity, TypeOK, box, db
<1>4. CASE Upgrade
  <2>1. CASE Applies
    <3>1. tables' \in SUBSET Versions
      BY <1>4, <2>1 DEF Upgrade, Migrations, TypeOK
    <3> QED
      BY <1>1, <1>2, <1>4, <2>1, <3>1 DEF Upgrade, TypeOK, box
  <2>2. CASE ~Applies
    BY <1>1, <1>4, <2>2, Gone DEF Upgrade, TypeOK, box
  <2> QED
    BY <2>1, <2>2
<1>5. CASE CreateAll
  BY <1>1, <1>2, <1>5 DEF CreateAll, TypeOK, box
<1>6. CASE Stamp
  <2>1. blind' \in BOOLEAN
    BY <1>6 DEF Stamp, TypeOK
  <2> QED
    BY <1>1, <1>2, <1>6, <2>1 DEF Stamp, TypeOK, box
<1> QED
  BY <1>3, <1>4, <1>5, <1>6

\* A pass makes rows of rows.
LEMMA TypePass ==
    ASSUME TypeOK, NEW p, NEW v \in {1, 2}, NEW next \in Phases, MigratePass(p, v, next)
    PROVE  TypeOK'
<1>1. work' = [c \in Cred |-> Migrated(work[c], v)]
  BY DEF MigratePass
<1>2. \A c \in Cred : Migrated(work[c], v) \in Row \union {None}
  <2> TAKE c \in Cred
  <2>1. CASE work[c] = None
    BY <2>1 DEF Migrated
  <2>2. CASE work[c] # None
    <3>1. work[c] \in Row /\ mem["enc"] \in Secret
      BY <2>2 DEF TypeOK, Secrets
    <3> QED
      BY <3>1, MigratedRow
  <2> QED
    BY <2>1, <2>2
<1>3. work' \in [Cred -> Row \union {None}]
  BY <1>1, <1>2
<1>4. creds' \in [Cred -> Row \union {None}]
  BY <1>3 DEF MigratePass, TypeOK
<1> QED
  BY <1>3, <1>4 DEF MigratePass, TypeOK, box

\* Then the service, and what is beside it.
LEMMA TypeService ==
    ASSUME TypeOK,
           \/ Start \/ Serve \/ Call \/ Expire \/ SideRestarts \/ Rotate \/ Crash
           \/ \E c \in Cred, fields \in SUBSET {"pri", "sec"} \ {{}} : StoreCred(c, fields)
           \/ \E c \in Versions, e \in Envs : Deploy(c, e)
    PROVE  TypeOK'
<1>1. {"down", "jwt", "serving"} \subseteq Phases /\ "svc" \in Secrets /\ None \in Secret
  BY DEF Phases, Secrets, Secret
<1>2. CASE Start
  BY <1>1, <1>2 DEF Start, TypeOK, box, db
<1>3. CASE Serve
  <2>1. work' \in [Cred -> Row \union {None}]
    BY <1>3 DEF Serve, NoRows
  <2> QED
    BY <1>1, <1>3, <2>1 DEF Serve, TypeOK, box, db
<1>4. CASE Call
  <2>1. SideToken \in Secret
    BY <1>1, EnvType DEF SideToken, Loaded, TypeOK
  <2>2. side' \in [env : Secret, tok : Secret, old : BOOLEAN]
    BY <1>4, <2>1 DEF Call, TypeOK
  <2> QED
    BY <1>4, <2>2 DEF Call, TypeOK, box, db
<1>5. CASE Expire
  <2>1. side' \in [env : Secret, tok : Secret, old : BOOLEAN]
    BY <1>5 DEF Expire, TypeOK
  <2> QED
    BY <1>5, <2>1 DEF Expire, TypeOK, box, db
<1>6. CASE SideRestarts
  <2>1. side' \in [env : Secret, tok : Secret, old : BOOLEAN]
    BY <1>1, <1>6 DEF SideRestarts, TypeOK
  <2> QED
    BY <1>6, <2>1 DEF SideRestarts, TypeOK, box, db
<1>7. CASE Rotate
  <2>1. gen' \in 0..MaxGen /\ gen + 1 \in Secret
    BY <1>7, GenType DEF Rotate
  <2>2. vol' \in [Secrets -> Secret]
    BY <1>7, <2>1 DEF Rotate, TypeOK
  <2> QED
    BY <1>7, <2>1, <2>2 DEF Rotate, TypeOK, box, db
<1>8. CASE Crash
  BY <1>1, <1>8, Gone, FailureType DEF Crash, TypeOK, box, db
<1>9. ASSUME NEW c \in Cred, NEW fields \in SUBSET {"pri", "sec"}, StoreCred(c, fields)
      PROVE  TypeOK'
  <2>1. creds[c] \in Row \union {None} /\ mem["enc"] \in Secret
    BY DEF TypeOK, Secrets
  <2>2. Entered(creds[c], fields) \in Row
    BY <1>9, <2>1, EnteredRow DEF StoreCred
  <2>3. creds' \in [Cred -> Row \union {None}]
    BY <1>9, <2>2 DEF StoreCred, TypeOK
  <2> QED
    BY <1>9, <2>3 DEF StoreCred, TypeOK, box
<1>10. ASSUME NEW c \in Versions, NEW e \in Envs, Deploy(c, e)
       PROVE  TypeOK'
  <2>1. env["enc"] \in Secret /\ vol["enc"] \in Secret /\ mem["enc"] \in Secret /\ e["svc"] \in Secret
    BY ConstantsAssumption, EnvType DEF Secrets, Secret
  <2>2. lostKeys' \in SUBSET Secret
    BY <1>10, <2>1 DEF Deploy, TypeOK
  <2>3. side' \in [env : Secret, tok : Secret, old : BOOLEAN]
    BY <1>1, <1>10, <2>1 DEF Deploy, TypeOK, Fresh
  <2>4. deploys' \in 0..MaxDeploys
    BY <1>10, ConstantsAssumption DEF Deploy, TypeOK
  <2> QED
    BY <1>1, <1>10, <2>2, <2>3, <2>4, Gone DEF Deploy, TypeOK, db
<1> QED
  BY <1>2, <1>3, <1>4, <1>5, <1>6, <1>7, <1>8, <1>9, <1>10

\* All of them together.
LEMMA TypeStep == TypeOK /\ [Next]_vars => TypeOK'
<1> SUFFICES ASSUME TypeOK, [Next]_vars PROVE TypeOK'
  OBVIOUS
<1>1. CASE UNCHANGED vars
  BY <1>1 DEF vars, TypeOK
<1>2. MigratePass("pass1", 1, "pass2") \/ MigratePass("pass2", 2, "serve") => TypeOK'
  BY TypePass DEF Phases
<1> QED
  BY <1>1, <1>2, TypeSecrets, TypeDatabase, TypeService DEF Next

-----------------------------------------------------------------------------
\* The keys.  Keys stays if the credentials stay or go, no key that was known is
\* forgotten, and the backend is not past its key or has the one it had.
LEMMA KeysKept ==
    ASSUME Keys, Known \subseteq Known',
           \A c \in Cred : creds'[c] = creds[c] /\ work'[c] \in {work[c], creds[c], None},
           phase' \in Keyed => /\ phase \in Keyed
                               /\ mem'["enc"] = mem["enc"] /\ Current' = Current
    PROVE  Keys'
<1>1. \A c \in Cred : Held(creds'[c], Known') /\ Held(work'[c], Known')
  BY DEF Keys, Held
<1>2. phase' \in Keyed => /\ mem'["enc"] \in Known'
                          /\ mem'["enc"] = Current' \/ Current' = None
  BY DEF Keys
<1> QED
  BY <1>1, <1>2 DEF Keys

\* The secrets: a key that is made replaces none, and is known.
LEMMA KeysSecrets ==
    ASSUME IInv, NEW s \in Secrets, TakeGiven(s) \/ TakeStored(s) \/ Make(s) \/ TearFile(s)
    PROVE  Keys'
<1>1. TypeOK /\ Keys
  BY DEF IInv
<1>2. /\ env' = env /\ creds' = creds
      /\ \A c \in Cred : work'[c] \in {work[c], None}
      /\ lostKeys \subseteq lostKeys'
  <2>1. CASE TakeGiven(s)
    <3>1. s = "svc" => lostKeys \subseteq lostKeys'
      BY <1>1, <2>1, EnvType, Saved DEF TakeGiven
    <3> QED
      BY <2>1, <3>1 DEF TakeGiven, box, db
  <2>2. CASE TakeStored(s)
    BY <2>2 DEF TakeStored, box, db
  <2>3. CASE Make(s)
    <3>1. lostKeys \subseteq lostKeys'
      BY <1>1, <2>3, GenType, Saved DEF Make
    <3> QED
      BY <2>3, <3>1 DEF Make, box, db
  <2>4. CASE TearFile(s)
    BY <2>4, Gone DEF TearFile, box, db
  <2> QED
    BY <2>1, <2>2, <2>3, <2>4
<1>3. s # "enc" => vol'["enc"] = vol["enc"]
  <2> SUFFICES ASSUME s # "enc" PROVE vol'["enc"] = vol["enc"]
    OBVIOUS
  <2>1. CASE TakeGiven(s)
    BY <1>1, <2>1, EnvType, Saved DEF TakeGiven
  <2>2. CASE TakeStored(s)
    BY <2>2 DEF TakeStored
  <2>3. CASE Make(s)
    BY <1>1, <2>3, GenType, Saved DEF Make
  <2>4. CASE TearFile(s)
    BY <1>1, <2>4 DEF TearFile, TypeOK, Secrets
  <2> QED
    BY <2>1, <2>2, <2>3, <2>4
<1>4. CASE s # "enc"
  <2>1. Current' = Current /\ Known \subseteq Known'
    BY <1>2, <1>3, <1>4 DEF Current, Known
  <2>2. phase' \in Keyed => phase \in Keyed /\ mem'["enc"] = mem["enc"]
    BY <1>1, <1>4, AfterSecrets, Gone
       DEF TakeGiven, TakeStored, Make, TearFile, Keyed, Phases, Secrets, TypeOK
  <2> QED
    BY <1>1, <1>2, <2>1, <2>2, KeysKept
<1>5. CASE s = "enc"
  <2>1. \/ mem'["enc"] = Current' /\ Current' = Current /\ Current # None
        \/ mem'["enc"] \in lostKeys' \ {None} /\ Current' = None /\ Current = None
        \/ mem'["enc"] = Current' /\ Current' # None /\ Current = None
        \/ phase' = "down" /\ Current' = Current
    <3>1. CASE TakeGiven(s)
      BY <1>1, <1>2, <1>5, <3>1 DEF TakeGiven, Given, Current, TypeOK, Secrets
    <3>2. CASE TakeStored(s)
      BY <1>1, <1>2, <1>5, <3>2 DEF TakeStored, Stored, Given, Current, TypeOK, Secrets
    <3>3. CASE Make(s)
      <4>1. gen + 1 \in Secret /\ gen + 1 # None
        BY <1>1, <3>3, GenType DEF Make
      <4>2. vol'["enc"] = gen + 1 \/ (vol'["enc"] = vol["enc"] /\ gen + 1 \in lostKeys')
        BY <1>1, <1>5, <3>3, <4>1, Saved DEF Make
      <4>3. mem'["enc"] = gen + 1
        BY <1>1, <1>5, <3>3 DEF Make, TypeOK, Secrets
      <4> QED
        BY <1>2, <1>5, <3>3, <4>1, <4>2, <4>3 DEF Make, Made, Given, Current
    <3>4. CASE TearFile(s)
      BY <1>1, <1>2, <1>5, <3>4, Gone DEF TearFile, Made, Given, Current, TypeOK, Secrets
    <3> QED
      BY <3>1, <3>2, <3>3, <3>4
  <2>2. Known \subseteq Known'
    BY <1>2, <2>1 DEF Known
  <2>3. \A c \in Cred : Held(creds'[c], Known') /\ Held(work'[c], Known')
    BY <1>1, <1>2, <2>2 DEF Keys, Held
  <2>4. phase' \in Keyed => /\ mem'["enc"] \in Known'
                            /\ mem'["enc"] = Current' \/ Current' = None
    BY <2>1 DEF Known, Keyed
  <2> QED
    BY <2>3, <2>4 DEF Keys
<1> QED
  BY <1>4, <1>5

\* A pass encrypts under the backend's key, which is known.
LEMMA KeysPass ==
    ASSUME IInv, NEW p \in Migrating, NEW v \in {1, 2}, NEW next \in Keyed, MigratePass(p, v, next)
    PROVE  Keys'
<1>1. TypeOK /\ Keys /\ phase \in Keyed
  BY DEF IInv, MigratePass, Migrating, Keyed, Phases
<1>2. Known' = Known /\ Current' = Current /\ mem' = mem /\ mem["enc"] \in Known
  BY <1>1 DEF MigratePass, Known, Current, Keys, box
<1>3. \A c \in Cred : Held(work'[c], Known)
  <2> TAKE c \in Cred
  <2>1. work'[c] = Migrated(work[c], v)
    BY DEF MigratePass
  <2>2. CASE work[c] = None
    BY <2>1, <2>2 DEF Migrated, Held
  <2>3. CASE work[c] # None
    <3>1. work[c] \in Row /\ mem["enc"] \in Secret /\ Held(work[c], Known)
      BY <1>1, <2>3 DEF TypeOK, Keys, Secrets
    <3> QED
      BY <1>2, <2>1, <3>1, MigratedRow
  <2> QED
    BY <2>2, <2>3
<1>4. \A c \in Cred : Held(creds'[c], Known)
  BY <1>1, <1>3 DEF MigratePass, Keys
<1>5. mem["enc"] = Current \/ Current = None
  BY <1>1 DEF Keys
<1> QED
  BY <1>2, <1>3, <1>4, <1>5 DEF Keys

\* So does the user.
LEMMA KeysStore ==
    ASSUME IInv, NEW c \in Cred, NEW fields, StoreCred(c, fields)
    PROVE  Keys'
<1>1. TypeOK /\ Keys /\ phase \in Keyed
  BY DEF IInv, StoreCred, Keyed, Phases
<1>2. Known' = Known /\ Current' = Current /\ mem' = mem /\ phase' = phase /\ work' = work
  BY DEF StoreCred, Known, Current, box
<1>3. mem["enc"] \in Known /\ (mem["enc"] = Current \/ Current = None)
  BY <1>1 DEF Keys
<1>4. \A d \in Cred : Held(creds'[d], Known)
  <2> TAKE d \in Cred
  <2>1. CASE d # c
    BY <1>1, <2>1 DEF StoreCred, TypeOK, Keys
  <2>2. CASE d = c
    <3>1. creds'[d] = Entered(creds[c], fields)
      BY <1>1, <2>2 DEF StoreCred, TypeOK
    <3>2. creds[c] \in Row \union {None} /\ Held(creds[c], Known) /\ mem["enc"] \in Secret
      BY <1>1 DEF TypeOK, Keys, Secrets
    <3>3. creds[c] = None => "pri" \in fields
      BY DEF StoreCred
    <3> QED
      BY <1>3, <3>1, <3>2, <3>3, EnteredRow
  <2> QED
    BY <2>1, <2>2
<1> QED
  BY <1>1, <1>2, <1>3, <1>4 DEF Keys

\* Another environment: the keys of the last one are lost.
LEMMA KeysDeploy ==
    ASSUME IInv, NEW c \in Versions, NEW e \in Envs, Deploy(c, e)
    PROVE  Keys'
<1>1. phase' \notin Keyed /\ creds' = creds /\ vol' = vol /\ env' = e
  BY Gone DEF Deploy, Keyed, db
<1>2. Known \subseteq Known'
  <2>1. CASE e["enc"] = env["enc"]
    BY <1>1, <2>1 DEF Deploy, Known, Current
  <2>2. CASE e["enc"] # env["enc"]
    BY <1>1, <2>2 DEF Deploy, Known, Current
  <2> QED
    BY <2>1, <2>2
<1> QED
  BY <1>1, <1>2, Gone, KeysKept DEF Deploy, IInv

\* All steps together: those that touch neither secrets nor credentials keep Keys.
LEMMA KeysStep == IInv /\ [Next]_vars => Keys'
<1> SUFFICES ASSUME IInv, [Next]_vars PROVE Keys'
  OBVIOUS
<1> USE DEF IInv
<1>1. ASSUME UNCHANGED <<env, vol, lostKeys>>, UNCHANGED creds,
             \A c \in Cred : work'[c] \in {work[c], creds[c], None},
             phase' \in Keyed => phase \in Keyed /\ mem' = mem
      PROVE  Keys'
  <2>1. Known' = Known /\ Current' = Current
    BY <1>1 DEF Known, Current
  <2> QED
    BY <1>1, <2>1, KeysKept
<1>2. CASE UNCHANGED vars
  BY <1>1, <1>2 DEF vars
<1>3. CASE Start
  BY <1>1, <1>3 DEF Start, box, db, Keyed
<1>4. CASE CheckSecurity
  BY <1>1, <1>4, Gone DEF CheckSecurity, box, db, Keyed, Phases, Secrets
<1>5. CASE Upgrade
  BY <1>1, <1>5, Gone DEF Upgrade, box, Keyed, Phases, Secrets
<1>6. CASE CreateAll \/ Stamp
  BY <1>1, <1>6 DEF CreateAll, Stamp, box, Keyed, Phases, Secrets
<1>7. CASE Serve
  BY <1>1, <1>7 DEF Serve, box, db, NoRows, Keyed, Phases, Secrets
<1>8. CASE Call \/ Expire \/ SideRestarts
  BY <1>1, <1>8 DEF Call, Expire, SideRestarts, box, db
<1>9. CASE Rotate
  <2>1. vol'["enc"] = vol["enc"]
    BY <1>9 DEF Rotate, TypeOK, Secrets
  <2>2. Known' = Known /\ Current' = Current
    BY <1>9, <2>1 DEF Rotate, Known, Current, box
  <2> QED
    BY <1>9, <2>2, KeysKept DEF Rotate, db
<1>10. CASE Crash
  BY <1>1, <1>10, Gone DEF Crash, box, db, Keyed
<1>11. MigratePass("pass1", 1, "pass2") \/ MigratePass("pass2", 2, "serve") => Keys'
  BY KeysPass DEF Migrating, Keyed, Phases
<1> QED
  BY <1>2, <1>3, <1>4, <1>5, <1>6, <1>7, <1>8, <1>9, <1>10, <1>11,
     KeysSecrets, KeysStore, KeysDeploy DEF Next

-----------------------------------------------------------------------------
\* The revision.
LEMMA SchemaStep == IInv /\ [Next]_vars => Schema'
<1> SUFFICES ASSUME IInv, [Next]_vars PROVE Schema'
  OBVIOUS
<1>0. TypeOK /\ Schema
  BY DEF IInv
<1>1. ASSUME UNCHANGED <<tables, rev, blind>>, phase' \in Late => phase \in Late /\ code' = code
      PROVE  Schema'
  BY <1>0, <1>1 DEF Schema
<1>2. CASE UNCHANGED vars
  BY <1>1, <1>2 DEF vars
<1>3. ASSUME NEW s \in Secrets, TakeGiven(s) \/ TakeStored(s) \/ Make(s) \/ TearFile(s)
      PROVE  Schema'
  <2>1. UNCHANGED <<tables, rev, blind>> /\ phase' \in {After(s), "down"}
    BY <1>3, Gone DEF TakeGiven, TakeStored, Make, TearFile, db
  <2>2. phase' \notin Late
    BY <2>1, AfterSecrets DEF Late
  <2> QED
    BY <1>1, <2>1, <2>2
<1>4. CASE Start
  BY <1>1, <1>4 DEF Start, db, Late
<1>5. CASE CheckSecurity
  BY <1>1, <1>5, Gone DEF CheckSecurity, db, Late
<1>6. CASE Upgrade
  <2>1. CASE Applies
    <3>1. rev' = code /\ code' = code /\ blind' = blind /\ rev \in Nat /\ rev <= code
      BY <1>0, <1>6, <2>1 DEF Upgrade, Applies, box, TypeOK, Versions
    <3>2. ASSUME ~blind PROVE tables' = 1..code
      <4>1. tables = 1..rev /\ tables' = tables \union Migrations
        BY <1>0, <1>6, <2>1, <3>2 DEF Upgrade, Schema
      <4>2. Migrations = {n \in 1..MaxVersion : rev < n /\ n <= code} /\ code \in 1..MaxVersion
        BY <1>0 DEF Migrations, Versions, TypeOK
      <4> QED
        BY <3>1, <4>1, <4>2, ConstantsAssumption
    <3> QED
      BY <3>1, <3>2 DEF Schema
  <2>2. CASE ~Applies
    <3>1. phase' = "down" /\ UNCHANGED <<tables, rev, blind>>
      BY <1>6, <2>2, Gone DEF Upgrade
    <3> QED
      BY <1>1, <3>1 DEF Late
  <2> QED
    BY <2>1, <2>2
<1>7. CASE CreateAll
  BY <1>7 DEF CreateAll, Schema, Late
<1>8. CASE Stamp
  BY <1>0, <1>8 DEF Stamp, Schema, box
<1>9. ASSUME NEW p \in Late, NEW v, NEW next \in Late, MigratePass(p, v, next) PROVE Schema'
  BY <1>1, <1>9 DEF MigratePass, box
<1>10. MigratePass("pass1", 1, "pass2") \/ MigratePass("pass2", 2, "serve") => Schema'
  BY <1>9 DEF Late
<1>11. CASE Serve
  BY <1>1, <1>11 DEF Serve, db, box, Late
<1>12. ASSUME NEW c \in Cred, NEW fields, StoreCred(c, fields) PROVE Schema'
  BY <1>1, <1>12 DEF StoreCred, box
<1>13. CASE Call \/ Expire \/ SideRestarts \/ Rotate
  BY <1>1, <1>13 DEF Call, Expire, SideRestarts, Rotate, box, db
<1>14. CASE Crash
  BY <1>1, <1>14, Gone DEF Crash, db, Late
<1>15. ASSUME NEW c, NEW e, Deploy(c, e) PROVE Schema'
  BY <1>1, <1>15, Gone DEF Deploy, db, Late
<1> QED
  BY <1>2, <1>3, <1>4, <1>5, <1>6, <1>7, <1>8, <1>10, <1>11, <1>12, <1>13, <1>14, <1>15 DEF Next

-----------------------------------------------------------------------------
\* The passes.  What one pass does to one row, in the session and in the table.
LEMMA PassRow ==
    ASSUME IInv, NEW p \in Migrating, NEW v \in {1, 2}, NEW next \in Phases, MigratePass(p, v, next),
           NEW c \in Cred
    PROVE  /\ Alike(c)'
           /\ work'[c] # None =>
                /\ work[c] \in Row
                /\ Reached(work'[c], v)
                /\ AllReadable(work'[c]) =>
                     \/ work'[c] = work[c] /\ OpensAt(mem["enc"], work[c].pri, v)
                     \/ AllStrong(work'[c])
<1>1. TypeOK /\ Alike(c) /\ mem["enc"] \in Secret
  BY DEF IInv, Passes, MigratePass, TypeOK, Secrets
<1>2. mem' = mem /\ work'[c] = Migrated(work[c], v)
  BY DEF MigratePass
<1>3. CASE work[c] = None
  <2>1. work'[c] = None /\ creds[c] = None
    BY <1>1, <1>2, <1>3 DEF Migrated, Alike
  <2>2. creds'[c] = None
    BY <2>1 DEF MigratePass
  <2> QED
    BY <2>1, <2>2 DEF Alike
<1>4. CASE work[c] # None
  <2>1. work[c] \in Row /\ creds[c] \in Row
    BY <1>1, <1>4 DEF TypeOK, Alike
  <2>2. /\ work'[c] \in Row
        /\ Readable(mem["enc"], work[c].pri) <=> Readable(mem["enc"], work'[c].pri)
        /\ AllReadable(work[c]) <=> AllReadable(work'[c])
        /\ AllReadable(work[c]) /\ ~Counted(work[c], v) => work'[c] = work[c]
        /\ Reached(work'[c], v)
        /\ AllReadable(work[c]) =>
             (work'[c] = work[c] /\ OpensAt(mem["enc"], work[c].pri, v)) \/ AllStrong(work'[c])
    BY <1>1, <1>2, <2>1, MigratedRow
  <2>3. work'[c] # None /\ creds[c] # None
    BY <2>1, <2>2, RowBlobs
  <2>4. CASE creds'[c] = work'[c]
    <3>1. Alike(c)'
      BY <1>2, <2>3, <2>4 DEF Alike
    <3> QED
      BY <2>1, <2>2, <3>1
  <2>5. CASE creds'[c] = creds[c] /\ ~Counted(work[c], v)
    <3>1. AllReadable(creds[c]) => work'[c] = creds[c]
      BY <1>1, <2>2, <2>3, <2>5 DEF Alike
    <3>2. Readable(mem["enc"], creds[c].pri) <=> Readable(mem["enc"], work'[c].pri)
      BY <1>1, <2>2, <2>3 DEF Alike
    <3>3. AllReadable(creds[c])' <=> AllReadable(creds[c])
      BY <1>2, <2>5 DEF AllReadable, Blobs
    <3>4. Alike(c)'
      BY <1>2, <2>3, <2>5, <3>1, <3>2, <3>3 DEF Alike
    <3> QED
      BY <2>1, <2>2, <3>4
  <2>6. creds'[c] = work'[c] \/ (creds'[c] = creds[c] /\ ~Counted(work[c], v))
    BY DEF MigratePass
  <2> QED
    BY <2>4, <2>5, <2>6
<1> QED
  BY <1>3, <1>4

\* A row that the first pass left at version 1 is taken by the second.
LEMMA PassesPass ==
    ASSUME IInv, MigratePass("pass1", 1, "pass2") \/ MigratePass("pass2", 2, "serve")
    PROVE  Passes'
<1>0. "pass2" \in Phases /\ "serve" \in Phases /\ "pass1" \in Migrating /\ "pass2" \in Migrating
  BY DEF Phases, Migrating
<1>1. CASE MigratePass("pass1", 1, "pass2")
  <2>1. phase' = "pass2" /\ mem' = mem
    BY <1>1 DEF MigratePass
  <2>2. \A c \in Cred : Alike(c)'
    BY <1>0, <1>1, PassRow
  <2>3. \A c \in Cred : work'[c] # None =>
          /\ Reached(work'[c], 1)
          /\ AllReadable(work'[c]) => OpensAt(mem["enc"], work'[c].pri, 1) \/ AllStrong(work'[c])
    BY <1>0, <1>1, PassRow
  <2> QED
    BY <2>1, <2>2, <2>3 DEF Passes, Reached, AllReadable, AllStrong
<1>2. CASE MigratePass("pass2", 2, "serve")
  <2>1. phase = "pass2" /\ phase' = "serve" /\ mem' = mem
    BY <1>2 DEF MigratePass
  <2>2. \A c \in Cred : Alike(c)'
    BY <1>0, <1>2, PassRow
  <2>3. ASSUME NEW c \in Cred, work'[c] # None
        PROVE  Reached(work'[c], 2) /\ (AllReadable(work'[c]) => AllStrong(work'[c]))
    <3>1. /\ work[c] \in Row /\ Reached(work'[c], 2)
          /\ AllReadable(work'[c]) =>
               \/ work'[c] = work[c] /\ OpensAt(mem["enc"], work[c].pri, 2)
               \/ AllStrong(work'[c])
      BY <1>0, <1>2, <2>3, PassRow
    <3>2. ASSUME AllReadable(work[c]), work'[c] = work[c], OpensAt(mem["enc"], work[c].pri, 2)
          PROVE  AllStrong(work'[c])
      <4>1. OpensAt(mem["enc"], work[c].pri, 1) \/ AllStrong(work[c])
        BY <2>1, <2>3, <3>2 DEF IInv, Passes
      <4>2. CASE OpensAt(mem["enc"], work[c].pri, 1)
        <5>1. Blobs(work[c]) \subseteq Blob /\ work[c].pri \in Blob /\ mem["enc"] \in Secret
          BY <3>1, RowBlobs DEF IInv, TypeOK, Secrets
        <5>2. mem["enc"] \in Generated
          BY <3>2, <4>2, <5>1, Opening
        <5>3. \A b \in Blobs(work[c]) : OpensAt(mem["enc"], b, 2)
          BY <3>2, <5>1, <5>2, Opening DEF AllReadable
        <5> QED
          BY <3>2, <5>3 DEF AllStrong
      <4> QED
        BY <3>2, <4>1, <4>2
    <3> QED
      BY <3>1, <3>2
  <2> QED
    BY <2>1, <2>2, <2>3 DEF Passes, Reached, AllReadable, AllStrong
<1> QED
  BY <1>1, <1>2

\* The first pass begins with the session as the table is; whatever else happens
\* while the passes run leaves both as they are.
LEMMA PassesStep == IInv /\ [Next]_vars => Passes'
<1> SUFFICES ASSUME IInv, [Next]_vars PROVE Passes'
  OBVIOUS
<1>0. TypeOK /\ Passes
  BY DEF IInv
<1>1. ASSUME phase' \in Migrating =>
               phase' = phase /\ UNCHANGED <<creds, work, mem>>
      PROVE  Passes'
  BY <1>0, <1>1 DEF Passes, Migrating, Alike, Reached, AllReadable, AllStrong
<1>2. ASSUME phase' = "pass1", work' = creds, creds' = creds
      PROVE  Passes'
  BY <1>2 DEF Passes, Alike
<1>3. CASE UNCHANGED vars
  BY <1>1, <1>3 DEF vars
<1>4. ASSUME NEW s \in Secrets, TakeGiven(s) \/ TakeStored(s) \/ Make(s) \/ TearFile(s)
      PROVE  Passes'
  <2>1. phase' \in {After(s), "down"}
    BY <1>4, Gone DEF TakeGiven, TakeStored, Make, TearFile
  <2>2. phase' \notin Migrating
    BY <2>1, AfterSecrets DEF Migrating
  <2> QED
    BY <1>1, <2>2
<1>5. CASE Start \/ CheckSecurity \/ CreateAll \/ Serve \/ Crash
  <2>1. phase' \notin Migrating
    BY <1>5, Gone DEF Start, CheckSecurity, CreateAll, Serve, Crash, Migrating
  <2> QED
    BY <1>1, <2>1
<1>6. CASE Upgrade
  BY <1>1, <1>2, <1>6, Gone DEF Upgrade, Migrating
<1>7. CASE Stamp
  BY <1>2, <1>7 DEF Stamp
<1>8. ASSUME NEW c \in Cred, NEW fields, StoreCred(c, fields) PROVE Passes'
  BY <1>1, <1>8 DEF StoreCred, Migrating
<1>9. CASE Call \/ Expire \/ SideRestarts \/ Rotate
  BY <1>1, <1>9 DEF Call, Expire, SideRestarts, Rotate, db
<1>10. ASSUME NEW c, NEW e, Deploy(c, e) PROVE Passes'
  BY <1>1, <1>10, Gone DEF Deploy, Migrating
<1> QED
  BY <1>3, <1>4, <1>5, <1>6, <1>7, <1>8, <1>9, <1>10, PassesPass DEF Next

-----------------------------------------------------------------------------
\* A new deployment, or one of an earlier version, starts in IInv.
LEMMA InitInv == Init => IInv
<1> SUFFICES ASSUME Init PROVE IInv
  OBVIOUS
<1>1. env["enc"] \in Pass \union {Weak, None} /\ env["svc"] \in Secret /\ code \in Versions
  BY ConstantsAssumption DEF Init, Secrets, Secret
<1>2. creds \in [Cred -> Row \union {None}] /\ \A c \in Cred : Held(creds[c], Known)
  <2>1. CASE creds = NoRows
    BY <2>1 DEF NoRows, Held
  <2>2. CASE \E v \in 0..2 : creds = [c \in Cred |->
                IF env["enc"] \notin Pass THEN None
                ELSE [pri |-> [key |-> env["enc"], ver |-> v], sec |-> [key |-> env["enc"], ver |-> v]]]
    <3>1. PICK v \in 0..2 : creds = [c \in Cred |->
                IF env["enc"] \notin Pass THEN None
                ELSE [pri |-> [key |-> env["enc"], ver |-> v], sec |-> [key |-> env["enc"], ver |-> v]]]
      BY <2>2
    <3>2. CASE env["enc"] \notin Pass
      BY <3>1, <3>2 DEF Held
    <3>3. CASE env["enc"] \in Pass
      <4> DEFINE b == [key |-> env["enc"], ver |-> v]
      <4>1. b \in Blob /\ b.key = env["enc"] /\ env["enc"] \in Known
        BY <3>3, ConstantsAssumption DEF Blob, Secret, Known, Current
      <4>2. \A c \in Cred : creds[c] = [pri |-> b, sec |-> b]
        BY <3>1, <3>3
      <4>3. creds \in [Cred -> Row]
        BY <3>1, <3>3, <4>1, <4>2 DEF Row
      <4> HIDE DEF b
      <4> QED
        BY <4>1, <4>2, <4>3 DEF Held
    <3> QED
      BY <3>2, <3>3
  <2> QED
    BY <2>1, <2>2 DEF Init
<1>3. TypeOK
  <2>1. side \in [env : Secret, tok : Secret, old : BOOLEAN]
    BY <1>1 DEF Init, Fresh, Secret
  <2>2. tables \in SUBSET Versions /\ rev \in Versions \union {0}
    BY ConstantsAssumption DEF Init, Versions
  <2>3. NoSecrets \in [Secrets -> Secret] /\ NoRows \in [Cred -> Row \union {None}]
    BY DEF NoSecrets, NoRows, Secret
  <2>4. phase \in Phases /\ lostKeys \in SUBSET Secret /\ blind \in BOOLEAN
    BY DEF Init, Phases
  <2>5. gen \in 0..MaxGen /\ deploys \in 0..MaxDeploys /\ failures \in 0..MaxFailures
    BY ConstantsAssumption DEF Init
  <2>6. env \in Envs /\ vol = NoSecrets /\ mem = NoSecrets /\ work = NoRows
    BY DEF Init
  <2> QED
    BY <1>1, <1>2, <2>1, <2>2, <2>3, <2>4, <2>5, <2>6 DEF TypeOK
<1>4. Keys
  BY <1>2 DEF Init, Keys, NoRows, Held, Keyed
<1>5. Schema
  BY ConstantsAssumption DEF Init, Schema, Late, Versions
<1>6. Passes
  BY DEF Init, Passes, Migrating
<1> QED
  BY <1>3, <1>4, <1>5, <1>6 DEF IInv

\* Every step keeps IInv, and so it always holds.
THEOREM Invariance == Spec => []IInv
<1>1. IInv /\ [Next]_vars => IInv'
  BY TypeStep, KeysStep, SchemaStep, PassesStep DEF IInv
<1> QED
  BY <1>1, InitInv, PTL DEF Spec

\* Types, for any constants.
THEOREM TypeCorrect == Spec => []TypeOK
<1>1. IInv => TypeOK
  BY DEF IInv
<1> QED
  BY <1>1, Invariance, PTL

\* Whatever crashed and whichever images ran before, a backend that serves has
\* the tables of its code, unless a revision was stamped blindly.
THEOREM SchemaAlwaysFits == Spec => []SchemaFits
<1>1. IInv => SchemaFits
  BY DEF IInv, Schema, SchemaFits, Late
<1> QED
  BY <1>1, Invariance, PTL

\* Every stored value opens under the key of the backend that serves, or its key
\* was lost by the volume or the operator.
THEOREM CredentialsStayReadable == Spec => []CredentialsReadable
<1>1. IInv => CredentialsReadable
  <2> SUFFICES ASSUME IInv, phase = "serving", NEW c \in Cred, creds[c] # None,
                      NEW b \in Blobs(creds[c])
               PROVE  Readable(mem["enc"], b) \/ b.key \in lostKeys
    BY DEF CredentialsReadable, Blobs
  <2>1. creds[c] \in Row /\ mem["enc"] \in Secret /\ phase \in Keyed
    BY DEF IInv, TypeOK, Secrets, Keyed, Phases
  <2>2. b \in Blob /\ b.key \in Known
    BY <2>1, RowBlobs DEF IInv, Keys, Held
  <2>3. mem["enc"] = Current \/ Current = None
    BY <2>1 DEF IInv, Keys
  <2>4. b.key \in lostKeys \/ b.key = mem["enc"]
    BY <2>2, <2>3 DEF Known
  <2> QED
    BY <2>1, <2>2, <2>4, Opening
<1> QED
  BY <1>1, Invariance, PTL

\* Before the backend serves, every credential that can be read is encrypted as
\* today, and those counted as weak are those that cannot.
THEOREM MigrationIsDone == Spec => []MigratedBeforeServing
<1>1. IInv => MigratedBeforeServing
  <2> SUFFICES ASSUME IInv, phase = "serve"
               PROVE  /\ \A c \in Cred : creds[c] # None /\ AllReadable(creds[c]) => AllStrong(creds[c])
                      /\ \A c \in Cred : c \in TakenForV0 <=>
                            creds[c] # None /\ ~Readable(mem["enc"], creds[c].pri)
    BY DEF MigratedBeforeServing, AllReadable, AllStrong, Blobs, TakenForV0
  <2>1. \A c \in Cred : /\ Alike(c)
                        /\ work[c] # None => /\ Reached(work[c], 2)
                                             /\ AllReadable(work[c]) => AllStrong(work[c])
    BY DEF IInv, Passes, Migrating
  <2>2. ASSUME NEW c \in Cred, creds[c] # None, AllReadable(creds[c]) PROVE AllStrong(creds[c])
    BY <2>1, <2>2 DEF Alike
  <2>3. ASSUME NEW c \in Cred
        PROVE  c \in TakenForV0 <=> creds[c] # None /\ ~Readable(mem["enc"], creds[c].pri)
    <3>1. CASE creds[c] = None
      BY <2>1, <3>1 DEF Alike, TakenForV0
    <3>2. CASE creds[c] # None
      <4>1. work[c] # None /\ work[c] \in Row /\ mem["enc"] \in Secret
        BY <2>1, <3>2 DEF Alike, IInv, TypeOK, Secrets
      <4>2. work[c].pri \in Blob
        BY <4>1, RowBlobs
      <4>3. Readable(mem["enc"], work[c].pri) <=>
              OpensAt(mem["enc"], work[c].pri, 1) \/ OpensAt(mem["enc"], work[c].pri, 2)
        <5>1. /\ OpensAt(mem["enc"], work[c].pri, 1) => Readable(mem["enc"], work[c].pri)
              /\ OpensAt(mem["enc"], work[c].pri, 2) => Readable(mem["enc"], work[c].pri)
          BY <4>1, <4>2, Opening
        <5>2. Reached(work[c], 2)
          BY <2>1, <4>1
        <5> QED
          BY <5>1, <5>2 DEF Reached
      <4>4. Readable(mem["enc"], creds[c].pri) <=> Readable(mem["enc"], work[c].pri)
        BY <2>1, <3>2 DEF Alike
      <4> QED
        BY <3>2, <4>1, <4>3, <4>4 DEF TakenForV0
    <3> QED
      BY <3>1, <3>2
  <2> QED
    BY <2>2, <2>3
<1> QED
  BY <1>1, Invariance, PTL
=============================================================================
