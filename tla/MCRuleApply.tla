----------------------------- MODULE MCRuleApply -----------------------------
(* RuleApply on a module of four functions whose code refers to a few      *)
(* data, for rules with a search of every kind.                            *)
EXTENDS RuleApply, TLC

(* Four functions at 0, 2, 4 and 6, data from 8 on.                        *)
MCAddresses == 0..11
MCPdata == <<0, 2, 4, 6>>
MCIndexes == {1, 2}
MCInitial == {Null, 0}

RC == 8     \* a constant in .rdata, a hit of yara
Slot == 9   \* a slot of the IAT
Ptr == 10   \* where a pointer lies
Target == 11

Refs(table) == [a \in MCAddresses |-> IF a \in DOMAIN table THEN table[a] ELSE <<>>]

MCAddRefs == Refs((RC :> <<3, 1>>) @@ (Slot :> <<3, 5, 7>>) @@ (Ptr :> <<2>>))
MCLdrRefs == Refs((Slot :> <<1, 1>>) @@ (Target :> <<5, 3>>))
MCPointer == [a \in MCAddresses |-> CASE a \in {0, Ptr} -> Target [] a = 2 -> 4 [] OTHER -> Null]

Tries(good, writing) ==
  [a \in MCAddresses |-> [ok |-> a \in good,
                          writes |-> IF a \in writing THEN (1 :> a) ELSE <<>>]]

AllTries == {Tries(good, writing) : good \in SUBSET {0, 2, 4}, writing \in {{}, {0, 4}}}

Given0 == [select |-> "fsection", target |-> Null, index |-> 1, hits |-> <<>>,
           consts |-> <<>>, rconsts |-> <<>>, yaras |-> <<>>, limps |-> <<>>, imps |-> <<>>,
           pois |-> <<>>, stg |-> TRUE, lost |-> "none", tries |-> Tries({}, {})]

(* Rules that search, with all kinds of things to look for.                *)
SearchRules ==
  {[Given0 EXCEPT !.consts = c, !.rconsts = rc, !.yaras = y, !.limps = l, !.imps = i,
                  !.pois = p, !.stg = s, !.tries = t] :
     c \in {<<>>, <<3, 1>>}, rc \in {<<>>, <<RC>>}, y \in {<<>>, <<Ptr, RC>>},
     l \in {<<>>, <<Slot, Null>>}, i \in {<<>>, <<Null, Slot>>}, p \in {<<>>, <<2, 1>>},
     s \in BOOLEAN, t \in AllTries}

(* The module has lost its .rdata.                                         *)
CutShort == {[r EXCEPT !.lost = "rdata"] : r \in {q \in SearchRules : q.pois = <<>>}}

(* Rules whose function is given.                                          *)
GivenRules ==
  {[Given0 EXCEPT !.select = sel, !.target = a, !.index = k, !.hits = <<5, 1, 5>>,
                  !.stg = s, !.tries = t] :
     sel \in {"entry", "exported", "sfunc", "fpoi", "yfunc"}, a \in {Null, 2}, k \in {1, 2},
     s \in BOOLEAN, t \in AllTries}

(* A section that is not there.                                            *)
LostRules == {[r EXCEPT !.lost = x, !.consts = <<1>>, !.tries = Tries({0}, {0})] :
                r \in {Given0} \cup {[Given0 EXCEPT !.select = "entry", !.target = 0]},
                x \in {"symbol", "functions"}}

Plain(rule) == [rule |-> rule, n |-> 0, lazy |-> FALSE]
Lazy(rule, n) == [rule |-> rule, n |-> n, lazy |-> TRUE]

(* One number for two rules, one after the other.                          *)
Redefined ==
  {[Given0 EXCEPT !.select = sel, !.target = 2, !.hits = <<5, 1>>, !.limps = <<Slot>>,
                  !.rconsts = <<RC>>, !.lost = x, !.tries = Tries(good, {})] :
     sel \in {"entry", "yfunc", "fsection"}, x \in {"none", "rdata", "functions"},
     good \in {{}, {0, 2, 4}}}

(* Every rule on its own; evaluated for its candidates and asked again;    *)
(* numbers that get another rule in between; and rules on what others have *)
(* left in the storage.                                                    *)
MCSessions ==
  {<<Plain(r)>> : r \in SearchRules \cup CutShort \cup GivenRules \cup LostRules}
    \cup {<<Lazy(r, 1), Lazy(r, 1)>> : r \in SearchRules \cup CutShort \cup GivenRules \cup LostRules}
    \cup {<<Lazy(r, 1), Lazy(q, 1), Lazy(q, 2), Lazy(r, 2)>> : r, q \in Redefined}
    \cup {<<Plain(r), Lazy(q, 1), Plain(r)>> :
            r \in {q \in GivenRules : q.select \in {"sfunc", "fpoi"} /\ q.stg /\ q.index = 1
                                        /\ q.target = 2},
            q \in {q \in SearchRules : q.consts = <<>> /\ q.pois # <<>> /\ q.limps = <<>>
                                        /\ q.yaras = <<>> /\ q.tries = Tries({0, 4}, {0, 4})}}
=============================================================================
