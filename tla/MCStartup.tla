------------------------------- MODULE MCStartup -------------------------------
(***************************************************************************)
(* Small instances of Startup: two servers, and what the environment of    *)
(* each sets.                                                              *)
(***************************************************************************)
EXTENDS Startup

BothConfigured == [p \in Processes |-> Variables]

\* What .env.example sets.
Example == {"DATABASE_URL", "postgres://", "JWT_SECRET", "JWT_ISSUER", "JWT_AUDIENCE",
            "ALLOWED_EMAIL_DOMAINS"}
ByTheExample == [p \in Processes |-> Example]

\* README.md:31, "DATABASE_URL, JWT_SECRET, JWT_ISSUER, and JWT_AUDIENCE are
\* expected in the environment. See .env.example": a server whose environment is
\* that of .env.example serves, unless its batch failed or it was lost.
ExampleServes ==
    [][\A p \in Processes :
          Example \subseteq Env[p] /\ pc[p] = "unlock" /\ pc'[p] = "down" =>
              p \in failed \/ faults' # faults]_vars
================================================================================
