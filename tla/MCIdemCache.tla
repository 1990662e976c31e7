---------------------------- MODULE MCIdemCache ----------------------------
(* Instances of IdemCache: three requests of one connection, one supervisor. *)
EXTENDS IdemCache

CONSTANTS k1, k2, h1, h2

\* Keys and params are interchangeable: the first request asks k1 with h1.
SomeAsks ==
    [r \in Async |-> IF r = 1 THEN {<<k1, h1>>} ELSE {<<k1, h1>>, <<k1, h2>>, <<k2, h1>>}]
=============================================================================
