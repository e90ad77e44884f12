------------------------------ MODULE MCReload ------------------------------
(* Reload with two upstreams of one module.  Kept: the limit of u1 is lowered
   and u2 comes, discovered and without a limit.                           *)
EXTENDS Reload
CONSTANTS u1, u2, m

Fixed(max) == [modules |-> {m}, discover |-> FALSE, max |-> max]
Found(max) == [modules |-> {}, discover |-> TRUE, max |-> max]

Kept == <<[u \in {u1} |-> Fixed(2)],
          [u \in {u1, u2} |-> IF u = u1 THEN Fixed(1) ELSE Found(0)]>>
=============================================================================
