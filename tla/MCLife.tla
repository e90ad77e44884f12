------------------------------- MODULE MCLife -------------------------------
EXTENDS Life
\* TLS on and off, and logs that are named, dropped and named again.
OurConfigs == {[tls |-> TRUE, logs |-> Loggers], [tls |-> FALSE, logs |-> Loggers],
               [tls |-> TRUE, logs |-> {"error"}]}
=============================================================================
