-------------------------- MODULE MCTestConnection --------------------------
EXTENDS TestConnection

\* Two watchers share a key.
MCWatched == [w \in Watchers |-> IF w = "w3" THEN "b" ELSE "a"]
=============================================================================
