----------------------------- MODULE MCRuleMatch -----------------------------
(* RuleMatch on small functions: all ways through a few instructions with  *)
(* rules of loads; every kind of instruction against every kind of item;   *)
(* and rules that ask for rules.                                           *)
EXTENDS RuleMatch, TLC

(* Code lies at 0 .. Size - 1, where the last can never be decoded; data   *)
(* behind it.                                                              *)
A == Size
B == Size + 1
R == Size + 2

Place(section) == [Nowhere EXCEPT !.section = section]

SmallPlaces ==
  [a \in 0..(Size - 1) |-> IF a = 3 THEN [Place(".text") EXCEPT !.export = "f", !.thunk = "imp"]
                           ELSE Place(".text")]
  @@ (A :> [Place(".data") EXCEPT !.export = "x", !.import = "imp", !.ptr = R])
  @@ (B :> [Place(".data") EXCEPT !.delayed = "dimp"])
  @@ (R :> [Place(".rdata") EXCEPT !.const = 1])

Hits == [y |-> {A - 1}]

I(op, to) == [op |-> op, to |-> to, reg |-> 0, imm |-> 1]

It(type, index) ==
  [type |-> type, name |-> "", reg |-> -1, stg |-> index, wait |-> FALSE,
   value |-> 0, rule |-> 0]

Named(type, name) == [It(type, 0) EXCEPT !.name = name]

Waits(item) == [item EXCEPT !.wait = TRUE]

SearchesOf(codes, rules, guards, gSE) ==
  [code : codes, items : rules, guard : guards, cookie : guards, section : {".data"},
   entry : {0}, stg : {[k \in {1} |-> A]}, gSE : {gSE}]

-----------------------------------------------------------------------------
(* All functions of four instructions that jump, load or stop.             *)
Flowing == {I("jcc", t) : t \in {0, 2, 3}} \cup {I("b", t) : t \in {0, 3}}
  \cup {I("ldr", A), I("ldr", B), I("ret", Null), I("bad", Null)}

TwoLoads == <<It("load", 1), It("load", 2)>>

FlowSearches == SearchesOf([0..3 -> Flowing], {TwoLoads}, {A}, FALSE)

(* Straight code, with everything that is tested against an item.          *)
Tests == {I(op, t) : op \in {"ldr", "str", "add"}, t \in {A, R, Null}}
  \cup {I("bl", 3), I("b", 3), I("br", 3), I("blr", A), I("blr", B), I("blr", Null)}
  \cup {I(op, A) : op \in {"adr", "ldrb", "ldrh", "strb", "strh"}}
  \cup {I(op, Null) : op \in {"lit", "mov", "trap", "other"}}

Items == {It(t, 1) : t \in {"load", "store", "ldrb", "strh", "gload", "gstore", "gcall",
                            "call", "movx", "addx", "ldrx"}}
  \cup {Named("load", "x"), Named("load", "z"), Named("sload", ".rdata"),
        Named("sstrb", ".data"), Named("limp", "imp"), Named("call_imp", "imp"),
        Named("call_dimp", "dimp"), Named("call_exp", "f"), Named("call_exp", "g"),
        Named("call", ".text"), It("ldr_cookie", 0), It("call_icall", 0),
        It("ldr_off", 0), [It("ldr64_off", 0) EXCEPT !.value = 1],
        [It("ldr_rdata", 0) EXCEPT !.value = 1],
        [Named("yarares", "y") EXCEPT !.reg = 1], [It("poi", 2) EXCEPT !.reg = 1]}

Starts == Items \cup {Waits(item) : item \in Items}

Straight ==
  {(0 :> i) @@ (1 :> j) @@ (2 :> I("ret", Null)) @@ (3 :> I("ret", Null)) :
     i \in Tests, j \in {I("ldr", A), I("add", R), I("bl", 3), I("b", 3), I("lit", Null)}}

TestRules ==
  {<<item>> : item \in Items} \cup {<<item, It("load", 3)>> : item \in Starts}

TestSearches == SearchesOf(Straight, TestRules, {A, Null}, TRUE)

(* Calls and loads that have to pass rules of their own, which ask for     *)
(* others, for themselves or for each other.                               *)
Nesting == {I("bl", 0), I("bl", 2), I("ldr", 2), I("ldr", A), I("jcc", 0), I("ret", Null)}

Asking(item, n) == [item EXCEPT !.rule = n]

CodeLoad == Named("sload", ".text")

NumberedRules ==
  <<<<Named("load", "x")>>, <<CodeLoad>>, <<Asking(It("call", 2), 1)>>,
    <<Asking(It("call", 2), 4)>>, <<Asking(Waits(It("call", 2)), 6)>>,
    <<Asking(CodeLoad, 5), It("load", 2)>>>>

Nested == {Asking(item, rule) :
             item \in {It("call", 1), Waits(It("call", 1)), Named("call", ".text"), CodeLoad},
             rule \in DOMAIN NumberedRules}

NestingRules == {<<item, It("load", 3)>> : item \in Nested}

NestedSearches == SearchesOf([0..3 -> Nesting], NestingRules, {A}, FALSE)

AllSearches == FlowSearches \cup TestSearches \cup NestedSearches

AllRules == {TwoLoads} \cup TestRules \cup NestingRules
  \cup {NumberedRules[n] : n \in DOMAIN NumberedRules}
=============================================================================
