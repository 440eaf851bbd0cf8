----------------------------- MODULE MCLogging -----------------------------
\* Values of the constants of Logging for TLC.
EXTENDS Logging

CONSTANTS t1, t2, t3, strs, builder, plain, another, nosy, u0, u1, u2

MCThread == {t1, t2, t3}
MCPart == {strs, builder}

\* A handler that keeps to itself, another one, and one that calls the library.
MCHandler == {another, nosy}
MCDefault == [fn |-> plain, user |-> u0]
MCPairs == {[fn |-> another, user |-> u1], [fn |-> nosy, user |-> u2]}
MCCalls == [f \in {plain, another, nosy} |->
              IF f = nosy THEN {"log", "set", "get", strs, builder} ELSE {}]
=============================================================================
