-------------------------------- MODULE MCClaws --------------------------------
EXTENDS ClawLifecycle
Faults == [p \in Providers |-> IF p \in {"exedev", "docker", "lambda-microvms"} THEN 0 ELSE 1]
================================================================================
