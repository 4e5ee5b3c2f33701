---------------------------- MODULE MCDerivPool ----------------------------
(* DerivPool on small modules over three functions: .pdata that lists none,*)
(* one or two of them, exports that repeat it or each other, call graphs   *)
(* with cycles and with functions that call themselves or one twice.       *)
EXTENDS DerivPool

MCFuncs == 1..3

CallLists == {<<>>, <<1>>, <<2>>, <<3>>, <<2, 3>>, <<3, 3>>}

Export(f, b) == [rva |-> f, code |-> b]

ExportLists ==
  {<<>>,
   <<Export(1, TRUE)>>,
   <<Export(2, TRUE), Export(2, TRUE)>>,
   <<Export(1, FALSE), Export(2, TRUE), Export(3, TRUE)>>}

MCModules ==
  [pdata   : {<<>>, <<1>>, <<1, 2>>},
   exports : ExportLists,
   calls   : [MCFuncs -> CallLists],
   refs    : {{1, 2, 3}}]
=============================================================================
