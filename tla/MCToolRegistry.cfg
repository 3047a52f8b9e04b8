CONSTANTS
    Req = {q1, q2}
    Row = {r1, r2, r3}
    Tool = {t1, t2, t3, t4}
    Name = {a, b}
    Code = {c1, c2}
    Kinds = {"create", "propose", "approve", "reject", "update", "delete", "import"}
    MaxImport = 2
    MaxArrivals = 3
    None = None
SPECIFICATION Spec
INVARIANTS
    TypeOK
    RegistryAgrees
    ToolsAccountedFor
PROPERTY ReviewedCodeIsActivated
SYMMETRY Alike
CHECK_DEADLOCK FALSE
