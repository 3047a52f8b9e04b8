----------------------------- MODULE MCStartup -----------------------------
EXTENDS Startup, TLC

CONSTANTS p, q
EnvOf(j, e, s) == "jwt" :> j @@ "enc" :> e @@ "svc" :> s
MCEnvs == {EnvOf(None, None, None), EnvOf(None, p, None), EnvOf(None, None, p), EnvOf(Weak, p, q)}
============================================================================
