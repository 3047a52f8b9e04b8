CONSTANTS
    Cred = {c1}
    Pass = {p, q}
    p = p
    q = q
    Weak = Weak
    Envs <- MCEnvs
    MaxVersion = 2
    MaxGen = 4
    MaxDeploys = 2
    MaxFailures = 1
    None = None
SPECIFICATION Spec
INVARIANTS
    TypeOK
    SchemaFits
    CredentialsReadable
    MigratedBeforeServing

CHECK_DEADLOCK FALSE
PROPERTY TokenSettles
