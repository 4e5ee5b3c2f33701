---------------------------- MODULE MCFindXrefs ----------------------------
(* FindXrefs on modules of three functions: each module on its own, and    *)
(* command lines of up to three files of a smaller pool.                   *)
EXTENDS FindXrefs

MCFuncs == 1..3

CallLists == {<<>>, <<2>>, <<3>>, <<2, 3>>}

Export(f, b) == [rva |-> f, code |-> b]

(* every call graph, for a single file                                     *)
AllModules ==
  [pdata   : {<<>>, <<1>>, <<1, 2>>},
   exports : {<<>>, <<Export(2, TRUE), Export(2, TRUE)>>,
              <<Export(1, FALSE), Export(3, TRUE)>>},
   calls   : [MCFuncs -> CallLists],
   refs    : {{}, {2, 3}}]

(* files after each other                                                  *)
PairModules ==
  [pdata   : {<<>>, <<1>>},
   exports : {<<Export(1, TRUE), Export(2, TRUE), Export(3, FALSE)>>},
   calls   : {[f \in MCFuncs |-> (<<<<2, 3>>, <<2, 3>>, <<1, 2>>>>)[f]],
              [f \in MCFuncs |-> (<<<<2>>, <<3>>, <<2>>>>)[f]]},
   refs    : {{2}, {1, 3}}]

MCModules == AllModules \cup PairModules

MCSessions == {<<mod>> : mod \in AllModules} \cup [1..2 -> PairModules]
                \cup [1..3 -> PairModules]
=============================================================================
