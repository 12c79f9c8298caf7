-------------------------- MODULE MCConnectionPool --------------------------
(* Two threads, two hosts, two schemes and three connections.              *)
EXTENDS ConnectionPool, TLC

CONSTANTS t1, t2, h1, h2, k1, k2, k3

TwoThreads  == {t1, t2}
TwoHosts    == {h1, h2}
BothSchemes == {"http", "https"}
ThreeConns  == {k1, k2, k3}

PoolSymmetry == Permutations({t1, t2}) \cup Permutations({h1, h2})
                \cup Permutations({k1, k2, k3})
=============================================================================
