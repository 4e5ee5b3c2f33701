----------------------------- MODULE MCCodeWalk -----------------------------
(* CodeWalk on every function of an image of four addresses, of which the  *)
(* last can never be decoded.                                              *)
EXTENDS CodeWalk, TLC

I(k, t) == [kind |-> k, to |-> t]

Plain(kinds) == {I(k, 0) : k \in kinds}

Jumping(kinds, targets) == {I(k, t) : k \in kinds, t \in targets}

(* The last address lies behind the sections.                              *)
Program(code, n, s) ==
  [size |-> n, code |-> code @@ (n - 1 :> I("op", 0)),
   sections |-> 0..(n - 2), execs |-> 0..1, exported |-> {1},
   entry |-> 0, gSE |-> s]

SmallPrograms ==
  {Program(c, 4, s) :
     c \in [0..2 -> Plain({"bad", "trap", "ret", "ref", "op"})
                      \cup Jumping({"jcc", "b", "br"}, 0..3)
                      \cup {I("bl", 2)}],
     s \in BOOLEAN}
=============================================================================
