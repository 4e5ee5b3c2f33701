--------------------------- MODULE MCAfsmSession ---------------------------
(* AfsmSession on rule files put together from every choice of up to three *)
(* rules out of a pool.  The pools hold one keyword of every kind; what    *)
(* sets the runs apart is which rules may follow each other.               *)
EXTENDS AfsmSession

L(w, arg, n) == [word |-> w, arg |-> arg, n |-> n, stg |-> 0, wait |-> FALSE,
                 at |-> NoAt]
W(w) == L(w, "", NoNumber)
Stg(s, line) == [line EXCEPT !.stg = s]
Wait(line) == [line EXCEPT !.wait = TRUE]
At(a, line) == [line EXCEPT !.at = a]

MCOrdOf == [f |-> 0, ord5 |-> 5]

Rule(head, items) == <<L("section", ".data", NoNumber)>> \o head \o items

Func == L("func", "f", NoNumber)
Fsection == L("fsection", ".text", NoNumber)
Sfunc == L("sfunc", "", 2)
Yfunc == L("yfunc", "y", NoNumber)
OrdFunc == L("func", "ord5", NoNumber)

(* Files of rules that leave nothing behind in m_symbol.                   *)
PlainRules ==
  {Rule(<<Func>>, <<Stg(1, W("ldrx")), Wait(W("load"))>>),
   Rule(<<Fsection>>, <<L("limp", "i", NoNumber), Stg(2, L("call", "", NoNumber))>>),
   Rule(<<Fsection>>, <<W("call_icall"), L("gload", "", 1)>>),
   Rule(<<Sfunc>>, <<Wait(Stg(3, L("sload", ".data", NoNumber))), L("movx", "", 2)>>),
   Rule(<<L("fpoi", "", 3)>>, <<L("const", "", 7), L("strb", "e", NoNumber)>>),
   Rule(<<W("entry")>>, <<W("load_cookie"), L("call_imp", "c", NoNumber)>>)}

(* A numbered rule and the scan that looks for it come together.           *)
Numbered == Rule(<<L("rule", "", 1), Fsection>>, <<L("guid", "", 8), W("call")>>)
ScanPair ==
  {Numbered \o Rule(<<L("scan", "", 4)>>,
                    <<At(8, L("check", "", 1)), At(0, L("const", "", 9))>>)}

(* Rules that name others, known or not.                                   *)
NamingRules ==
  {Rule(<<Func>>, <<L("call", "", NoNumber), L("check", "", 1)>>),
   Rule(<<Sfunc>>, <<L("sload", ".data", NoNumber), L("check", "", 3)>>),
   Rule(<<L("scan", "", 4)>>, <<At(0, L("guid", "", 9)), At(8, L("check", "", 3))>>)}

(* Rules that need yara.                                                   *)
YaraRules ==
  {Rule(<<Yfunc>>, <<L("yarares", "y", 4), W("load")>>),
   Rule(<<L("scan", "", 4)>>,
        <<At(0, L("ypoi", "y", 0)), At(8, L("yarares", "z", 4))>>)}

(* Lines that are refused, or that stop a rule half read.                  *)
BrokenRules ==
  {Rule(<<Func>>, <<L("limp", "", NoNumber)>>),
   Rule(<<Func, Func>>, <<W("load")>>),
   Rule(<<Func>>, <<W("load"), W("ldr_cookie")>>)}

OrdFunctions == {Rule(<<OrdFunc>>, <<Stg(1, W("load"))>>)}

(* An item that happens to be clear, and one that looks like a rule.       *)
MCStrayItems ==
  {[type |-> "junk", name |-> "", stg |-> 0, reg |-> 0, value |-> 0, at |-> 0,
    wait |-> FALSE],
   [type |-> "rule", name |-> "", stg |-> 9, reg |-> 1, value |-> 6, at |-> 0,
    wait |-> TRUE]}

Joined(S, T, U) == {r \o s \o t : r \in S, s \in T, t \in U}

PlainFiles ==
  Joined(PlainRules \cup ScanPair, PlainRules \cup ScanPair,
         PlainRules \cup ScanPair \cup BrokenRules \cup OrdFunctions \cup {<<>>})
    \cup Joined({Numbered}, NamingRules, NamingRules \cup {<<>>})
    \cup Joined({Rule(<<Func>>, <<W("load")>>)}, YaraRules,
                {Rule(<<Sfunc>>, <<W("store")>>), <<>>})

(* An item after the first that is looked up in what yara found.           *)
LoopFiles == {Rule(<<Fsection>>, <<W("load"), L("yarares", "y", NoNumber)>>)}

(* Rules that are written as they should not be, or disturb each other:    *)
(* without items, without or with two selectors, with offsets that are     *)
(* missing or misplaced, with items that leave fields to each other.       *)
StrangeRules ==
  {<<>>,
   <<W("load"), L("call", "c", NoNumber)>>,
   <<L("section", "", NoNumber)>>,
   Rule(<<Func>>, <<>>),
   Rule(<<L("rule", "", 1)>>, <<>>),
   Rule(<<L("fpoi", "", 3)>>, <<>>),
   Rule(<<L("scan", "", 4)>>, <<>>),
   Rule(<<>>, <<L("call", "c", NoNumber)>>),
   Rule(<<L("fpoi", "", 3), Func>>, <<W("load"), Stg(1, L("poi", "", 2))>>),
   Rule(<<Sfunc>>, <<At(8, W("load")), W("store")>>),
   Rule(<<L("scan", "", 4)>>, <<W("load"), At(8, L("check", "", 1)), W("store")>>),
   Rule(<<Func>>, <<L("check", "", 1), L("poi", "", 2)>>),
   Rule(<<Fsection>>, <<L("poi", "", 2)>>),
   Rule(<<Yfunc>>, <<Stg(1, W("load")), Stg(2, L("call_dimp", "d", NoNumber))>>),
   Rule(<<OrdFunc>>, <<Stg(1, W("load"))>>),
   Rule(<<Fsection>>, <<W("load")>>),
   Rule(<<W("entry")>>, <<W("load")>>),
   Rule(<<L("rule", "", 1), Sfunc>>, <<L("guid", "", 8), W("call")>>),
   Rule(<<L("scan", "", 4)>>, <<At(8, L("check", "", 1)), At(0, L("rdata", "", 9))>>)}

StrangeFiles == Joined(StrangeRules, StrangeRules, StrangeRules)

AllFiles == PlainFiles \cup LoopFiles \cup StrangeFiles
=============================================================================
