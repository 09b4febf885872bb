---------------------------- MODULE MCResources -----------------------------
(* Three machines on five isolated cores, one of them for VPP.             *)
EXTENDS Resources

M(count, mb, node, pin, normal) ==
    [count |-> count, mb |-> mb, size |-> None, node |-> node, pin |-> pin,
     normal |-> normal, auto |-> TRUE]
One == M(1, 1024, None, TRUE, FALSE)
Two == M(2, 2048, None, TRUE, FALSE)
OnNode == [M(1, 1, 1, TRUE, FALSE) EXCEPT !.size = "2M"]
Loose == [M(2, 4096, None, FALSE, TRUE) EXCEPT !.auto = FALSE]

Conf(a, b, c, workers) ==
    [iso |-> 1 .. 5, numa |-> (1 :> {4, 5}), main |-> {1}, workers |-> workers,
     pages |-> <<[size |-> "1G", count |-> 3], [size |-> "2M", count |-> 1]>>,
     vm |-> [a |-> a, b |-> b, c |-> c]]

Behind == Conf(Undeclared, Two, Undeclared, {})
MCConfigs == {Behind,
              Conf(One, Two, Undeclared, {}),           \* one before it
              Conf(Undeclared, Two, OnNode, {}),        \* one after it, on a node
              Conf(One, Two, OnNode, {}),
              Conf(Loose, One, OnNode, {}),             \* the machine itself changes
              Conf(Undeclared, Two, Undeclared, {2}),   \* VPP takes a core
              Conf(One, Two, One, {}),                  \* refused: pages
              Conf(Undeclared, One, Two, {2, 3})}       \* refused: cores
MCOrder == <<"a", "b", "c">>
=============================================================================
