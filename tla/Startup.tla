------------------------------ MODULE Startup ------------------------------
(***************************************************************************)
(* What the backend does before it serves, over and over: it may crash or  *)
(* be stopped at any step, and come back with another image or another     *)
(* environment.  It loads or makes its three secrets, brings the database  *)
(* to the revision of its code, re-encrypts the stored credentials, and    *)
(* only then answers.  The sidecar and the evaluation service, which share *)
(* the volume of the secrets, keep the service token they read for a time. *)
(***************************************************************************)
EXTENDS Naturals, FiniteSets

CONSTANTS
    Cred,          \* credentials
    Pass, Weak,    \* values of the environment: strong ones, and one that is refused
    Envs,          \* the environments the operator may choose
    MaxVersion,    \* revisions of the code
    MaxGen,        \* secrets that are ever generated, or written by the operator
    MaxDeploys,    \* times the operator deploys
    MaxFailures,   \* crashes and failed writes to the volume
    None

VARIABLES
    code, env,     \* the image and the environment of the containers
    vol,           \* the secrets in /data/config; None: no file, or an empty one
    mem,           \* the secrets of the running backend (get_settings)
    tables,        \* the migrations whose effect the database has
    rev,           \* alembic_version; 0: there is none
    creds,         \* the credentials table
    work,          \* the credentials in the session of the migration
    phase,         \* how far the start has come
    side,          \* the token of a service beside the backend
    gen, deploys, failures,
    lostKeys,      \* (history) keys that were not saved, or taken from the environment
    blind          \* (history) a revision was stamped on tables of another one

vars == <<code, env, vol, mem, tables, rev, creds, work, phase, side, gen, deploys,
          failures, lostKeys, blind>>
db == <<tables, rev, creds, blind>>
box == <<code, env, deploys>>

Versions == 1..MaxVersion
Secrets == {"jwt", "enc", "svc"}
Generated == 1..MaxGen
Secret == Generated \union Pass \union {Weak, None}

ASSUME ConstantsAssumption ==
    /\ MaxGen \in Nat /\ MaxDeploys \in Nat /\ MaxFailures \in Nat
    /\ MaxVersion \in Nat \ {0}
    /\ Pass \intersect Generated = {} /\ Weak \notin Pass \union Generated
    /\ None \notin Pass \union Generated \union {Weak}
    /\ Envs \subseteq [Secrets -> Pass \union {Weak, None}]

\* A value encrypted under a key derived in one of three ways.
Blob == [key : Secret, ver : 0..2]
Row == [pri : Blob, sec : Blob \union {None}]
ASSUME NoneAssumption == None \notin Row /\ None \notin Blob
NoSecrets == [s \in Secrets |-> None]
NoRows == [c \in Cred |-> None]

\* A generated key is a Fernet key and used as it is: the derivations are the same.
OpensAt(k, b, v) == b.key = k /\ (k \in Generated \/ b.ver = v)
\* decrypt_value.
Readable(k, b) == \E v \in 0..2 : OpensAt(k, b, v)
\* encrypt_value.
Encrypted(k) == [key |-> k, ver |-> 2]

Fresh == [env |-> None, tok |-> None, old |-> FALSE]

\* A new deployment, or one of an earlier version of the program: its tables
\* may come from before the revisions, its credentials from before the ways of
\* deriving the key.
Init ==
    /\ code \in Versions /\ env \in Envs
    /\ \/ tables = {} /\ rev = 0 /\ creds = NoRows
       \/ /\ \E n \in Versions : tables = 1..n /\ rev \in {0, n}
          /\ \E v \in 0..2 : creds = [c \in Cred |->
                IF env["enc"] \notin Pass THEN None
                ELSE [pri |-> [key |-> env["enc"], ver |-> v], sec |-> [key |-> env["enc"], ver |-> v]]]
    /\ vol = NoSecrets /\ mem = NoSecrets /\ work = NoRows
    /\ phase = "down" /\ side = [Fresh EXCEPT !.env = env["svc"]]
    /\ gen = 0 /\ deploys = 0 /\ failures = 0
    /\ lostKeys = {} /\ blind = FALSE

CountFailure == failures < MaxFailures /\ failures' = failures + 1
\* The process is gone, and with it what it has not written.
Down == phase' = "down" /\ mem' = NoSecrets /\ work' = NoRows

-----------------------------------------------------------------------------
\* The secrets, one after the other.
After(s) == [jwt |-> "enc", enc |-> "svc", svc |-> "check"][s]
Given(s) == env[s] # None
Stored(s) == ~Given(s) /\ vol[s] # None
Made(s) == ~Given(s) /\ vol[s] = None

\* The value goes to the volume; that it cannot be written is only logged.
Save(s, v) ==
    \/ vol' = [vol EXCEPT ![s] = v] /\ UNCHANGED <<failures, lostKeys>>
    \/ CountFailure /\ lostKeys' = lostKeys \union {v} /\ UNCHANGED vol

Start ==
    /\ phase = "down" /\ phase' = "jwt"
    /\ UNCHANGED <<box, vol, mem, db, work, side, gen, failures, lostKeys>>

\* Set in the environment; the token is copied for the services beside.
TakeGiven(s) ==
    /\ phase = s /\ Given(s)
    /\ mem' = [mem EXCEPT ![s] = env[s]] /\ phase' = After(s)
    /\ IF s = "svc" THEN Save(s, env[s]) ELSE UNCHANGED <<vol, failures, lostKeys>>
    /\ UNCHANGED <<box, db, work, side, gen>>

TakeStored(s) ==
    /\ phase = s /\ Stored(s)
    /\ mem' = [mem EXCEPT ![s] = vol[s]] /\ phase' = After(s)
    /\ UNCHANGED <<box, vol, db, work, side, gen, failures, lostKeys>>

\* Variant: a key is made on every start.
MakeAlways(s) ==
    /\ phase = s /\ ~Given(s) /\ gen < MaxGen
    /\ gen' = gen + 1 /\ Save(s, gen + 1)
    /\ mem' = [mem EXCEPT ![s] = gen + 1] /\ phase' = After(s)
    /\ UNCHANGED <<box, db, work, side>>
Make(s) ==
    /\ phase = s /\ Made(s) /\ gen < MaxGen
    /\ gen' = gen + 1 /\ Save(s, gen + 1)
    /\ mem' = [mem EXCEPT ![s] = gen + 1] /\ phase' = After(s)
    /\ UNCHANGED <<box, db, work, side>>

\* The process dies with the file open: O_TRUNC has emptied it.
TearFile(s) ==
    /\ phase = s /\ (Made(s) \/ (s = "svc" /\ Given(s))) /\ CountFailure
    /\ vol' = [vol EXCEPT ![s] = None] /\ Down
    /\ UNCHANGED <<box, db, side, gen, lostKeys>>

\* check_security: a weak secret of the environment ends the start, after the
\* service token has been written.
CheckSecurity ==
    /\ phase = "check"
    /\ IF Weak \in {mem["jwt"], mem["enc"]} THEN Down
       ELSE phase' = "db" /\ UNCHANGED <<mem, work>>
    /\ UNCHANGED <<box, vol, db, side, gen, failures, lostKeys>>

-----------------------------------------------------------------------------
\* init_db.
Migrations == {v \in Versions : rev < v /\ v <= code}
Applies == rev <= code /\ Migrations \intersect tables = {}

\* A known revision: the pending migrations run in one transaction.  A revision
\* the code does not know, or a column that is there already, ends the start.
Upgrade ==
    /\ phase = "db" /\ rev # 0
    /\ IF Applies THEN /\ tables' = tables \union Migrations /\ rev' = code
                       /\ phase' = "pass1" /\ work' = creds /\ UNCHANGED mem
       ELSE Down /\ UNCHANGED <<tables, rev>>
    /\ UNCHANGED <<box, vol, creds, side, gen, failures, lostKeys, blind>>

\* Variant: the tables are created and the revision is left to the next start.
CreateAllOnly ==
    /\ phase = "db" /\ rev = 0 /\ tables = {}
    /\ tables' = 1..code /\ phase' = "pass1" /\ work' = creds
    /\ UNCHANGED <<box, vol, mem, rev, creds, side, gen, failures, lostKeys, blind>>
\* create_all commits on its own.
CreateAll ==
    /\ phase = "db" /\ rev = 0 /\ tables = {}
    /\ tables' = 1..code /\ phase' = "stamp"
    /\ UNCHANGED <<box, vol, mem, rev, creds, work, side, gen, failures, lostKeys, blind>>

\* Tables without a revision are taken for those of the code, whatever they are.
Stamp ==
    /\ \/ phase = "stamp"
       \/ phase = "db" /\ rev = 0 /\ tables # {}
    /\ rev' = code /\ phase' = "pass1" /\ work' = creds
    /\ blind' = (blind \/ tables # 1..code)
    /\ UNCHANGED <<box, vol, mem, tables, creds, side, gen, failures, lostKeys>>

-----------------------------------------------------------------------------
\* _migrate_credentials: a credential that does not open at version v is
\* decrypted with whatever opens it and encrypted as today.  The second key
\* follows the first; if it cannot be read, the row keeps what was assigned
\* so far and counts for nothing.
Migrated(row, v) ==
    IF row = None THEN None
    ELSE IF OpensAt(mem["enc"], row.pri, v) \/ ~Readable(mem["enc"], row.pri) THEN row
    ELSE [pri |-> Encrypted(mem["enc"]),
          sec |-> IF row.sec = None \/ ~Readable(mem["enc"], row.sec) THEN row.sec
                  ELSE Encrypted(mem["enc"])]
Counted(row, v) ==
    /\ row # None
    /\ ~OpensAt(mem["enc"], row.pri, v) /\ Readable(mem["enc"], row.pri)
    /\ row.sec # None => Readable(mem["enc"], row.sec)

\* One pass over the session's objects; one commit, if anything counted.
\* Variant: the second key is forgotten.
PassPrimary(p, v, next) ==
    /\ phase = p /\ phase' = next
    /\ work' = [c \in Cred |-> IF work[c] = None THEN None
                               ELSE [Migrated(work[c], v) EXCEPT !.sec = work[c].sec]]
    /\ creds' = IF \E c \in Cred : Counted(work[c], v) THEN work' ELSE creds
    /\ UNCHANGED <<box, vol, mem, tables, rev, blind, side, gen, failures, lostKeys>>
MigratePass(p, v, next) ==
    /\ phase = p /\ phase' = next
    /\ work' = [c \in Cred |-> Migrated(work[c], v)]
    /\ creds' = IF \E c \in Cred : Counted(work[c], v) THEN work' ELSE creds
    /\ UNCHANGED <<box, vol, mem, tables, rev, blind, side, gen, failures, lostKeys>>

\* check_for_v0_credentials, in the same session, counts the rows it takes for
\* weak; nothing but a line in the log comes of it.
TakenForV0 == {c \in Cred : work[c] # None /\ \A v \in {1, 2} : ~OpensAt(mem["enc"], work[c].pri, v)}

Serve ==
    /\ phase = "serve" /\ phase' = "serving" /\ work' = NoRows
    /\ UNCHANGED <<box, vol, mem, db, side, gen, failures, lostKeys>>

\* The row with the fields that were entered.
Entered(row, fields) ==
    LET old == IF row = None THEN [pri |-> None, sec |-> None] ELSE row
        Value(f) == IF f \in fields THEN Encrypted(mem["enc"]) ELSE old[f]
    IN [pri |-> Value("pri"), sec |-> Value("sec")]

\* The user creates a credential, or enters its first or its second key anew.
\* Variant: a new one may have the second key alone.
StoreCredAny(c, fields) ==
    /\ phase = "serving"
    /\ creds' = [creds EXCEPT ![c] = Entered(creds[c], fields)]
    /\ UNCHANGED <<box, vol, mem, tables, rev, blind, work, phase, side, gen, failures, lostKeys>>
StoreCred(c, fields) ==
    /\ phase = "serving"
    /\ creds[c] = None => "pri" \in fields
    /\ creds' = [creds EXCEPT ![c] = Entered(creds[c], fields)]
    /\ UNCHANGED <<box, vol, mem, tables, rev, blind, work, phase, side, gen, failures, lostKeys>>

-----------------------------------------------------------------------------
\* The services beside the backend: _load_service_token, _get_service_token.
Loaded == IF side.env # None THEN side.env ELSE vol["svc"]
\* The token the next request is compared with.
SideToken == IF side.tok = None \/ side.old THEN Loaded ELSE side.tok

Call ==
    /\ phase = "serving"
    /\ side' = [side EXCEPT !.tok = SideToken, !.old = FALSE]
    /\ UNCHANGED <<box, vol, mem, db, work, phase, gen, failures, lostKeys>>

\* The five minutes are over.
\* Variant: the token is kept for good.
ExpireNever == FALSE /\ UNCHANGED vars
Expire ==
    /\ side.tok # None /\ ~side.old
    /\ side' = [side EXCEPT !.old = TRUE]
    /\ UNCHANGED <<box, vol, mem, db, work, phase, gen, failures, lostKeys>>

SideRestarts ==
    /\ side.tok # None
    /\ side' = [side EXCEPT !.tok = None, !.old = FALSE]
    /\ UNCHANGED <<box, vol, mem, db, work, phase, gen, failures, lostKeys>>

\* The operator writes another token into the file.
Rotate ==
    /\ vol["svc"] # None /\ gen < MaxGen
    /\ gen' = gen + 1 /\ vol' = [vol EXCEPT !["svc"] = gen + 1]
    /\ UNCHANGED <<box, mem, db, work, phase, side, failures, lostKeys>>

-----------------------------------------------------------------------------
Crash ==
    /\ phase # "down" /\ CountFailure /\ Down
    /\ UNCHANGED <<box, vol, db, side, gen, lostKeys>>

\* docker compose up with another image or another .env: what changes is
\* started anew.
Deploy(c, e) ==
    /\ deploys < MaxDeploys /\ deploys' = deploys + 1
    /\ <<c, e>> # <<code, env>> /\ code' = c /\ env' = e /\ Down
    /\ lostKeys' = IF e["enc"] = env["enc"] THEN lostKeys
                   ELSE lostKeys \union {env["enc"], vol["enc"], mem["enc"]}
    /\ side' = IF e["svc"] = env["svc"] THEN side ELSE [Fresh EXCEPT !.env = e["svc"]]
    /\ UNCHANGED <<vol, db, gen, failures>>

Next ==
    \/ Start
    \/ \E s \in Secrets : TakeGiven(s) \/ TakeStored(s) \/ Make(s) \/ TearFile(s)
    \/ CheckSecurity
    \/ Upgrade \/ CreateAll \/ Stamp
    \/ MigratePass("pass1", 1, "pass2") \/ MigratePass("pass2", 2, "serve")
    \/ Serve
    \/ \E c \in Cred, fields \in SUBSET {"pri", "sec"} \ {{}} : StoreCred(c, fields)
    \/ Call \/ Expire \/ SideRestarts \/ Rotate
    \/ Crash
    \/ \E c \in Versions, e \in Envs : Deploy(c, e)

\* Time passes.
Spec == Init /\ [][Next]_vars /\ WF_vars(Expire)

-----------------------------------------------------------------------------
Phases == Secrets \union {"down", "check", "db", "stamp", "pass1", "pass2", "serve", "serving"}
TypeOK ==
    /\ code \in Versions /\ env \in Envs
    /\ vol \in [Secrets -> Secret] /\ mem \in [Secrets -> Secret]
    /\ tables \in SUBSET Versions /\ rev \in Versions \union {0}
    /\ creds \in [Cred -> Row \union {None}] /\ work \in [Cred -> Row \union {None}]
    /\ phase \in Phases
    /\ side \in [env : Secret, tok : Secret, old : BOOLEAN]
    /\ gen \in 0..MaxGen /\ deploys \in 0..MaxDeploys /\ failures \in 0..MaxFailures
    /\ lostKeys \in SUBSET Secret /\ blind \in BOOLEAN

\* A backend that serves has the tables of its code and says so in the
\* database, whatever crashed and whichever images ran before, unless tables
\* without a revision were once stamped by an image that had not made them.
SchemaFits ==
    ~blind => /\ rev # 0 => tables = 1..rev
              /\ phase = "serving" => rev = code

\* What is stored can be read by the backend that serves, under a key that was
\* neither lost because the volume did not take it nor taken out of use.
CredentialsReadable ==
    phase = "serving" =>
        \A c \in Cred : creds[c] # None =>
            \A b \in {creds[c].pri, creds[c].sec} \ {None} :
                Readable(mem["enc"], b) \/ b.key \in lostKeys

\* Before the backend serves, both passes have been over every credential: a row
\* that can be read is encrypted as today, whatever mixture of ways it had come
\* to, and the rows check_for_v0_credentials counts as weakly encrypted are those
\* that cannot be read at all.  A row with a second key that is lost may stay
\* weak unnoticed: its first key is encrypted anew in the session alone, and the
\* commit waits for another row to count.
MigratedBeforeServing ==
    phase = "serve" =>
        /\ \A c \in Cred : creds[c] # None =>
              LET blobs == {creds[c].pri, creds[c].sec} \ {None} IN
              (\A b \in blobs : Readable(mem["enc"], b)) => \A b \in blobs : OpensAt(mem["enc"], b, 2)
        /\ TakenForV0 = {c \in Cred : creds[c] # None /\ ~Readable(mem["enc"], creds[c].pri)}

\* A backend that stays up with the token of its environment or of the file is
\* in the end believed by the services beside it, also by one that had read an
\* older file.
TokenSettles ==
    <>[](phase = "serving" /\ (env["svc"] # None \/ vol["svc"] = mem["svc"]))
        => <>[](SideToken = mem["svc"])
=============================================================================
