------------------------------ MODULE RuleItems ------------------------------
(***************************************************************************)
(* What one instruction does to a rule that waits for one item: the body   *)
(* of the inner loop of deriv_hack::try_apply, ldr/deriv.cpp.              *)
(*                                                                         *)
(* An instruction is a record; what the disassembler and the tracked       *)
(* registers say of it is given, not computed:                             *)
(*   op   its class (see below)                                            *)
(*   to   the address it jumps to, calls, forms, loads from or stores to,  *)
(*        Null when the registers it takes it from are not known           *)
(*   reg  its first register     imm  its immediate operand                *)
(*                                                                         *)
(* An item is a record: type, name, reg (-1: any), stg, wait, value, and   *)
(* rule, the number of the rule apply_rule points to or 0.                 *)
(*                                                                         *)
(* (An) image stands for a record with guard and cookie, the addresses of  *)
(* the load configuration, Null if it has none.                            *)
(***************************************************************************)
EXTENDS Integers, Sequences

CONSTANTS
  Places,   \* what the sections, tables and data say of an address
  YaraHits  \* the addresses every yara rule was found at

Null == -1

(* Names are "" when there is none.                                        *)
Nowhere == [section |-> "", export |-> "", import |-> "", delayed |-> "",
            thunk |-> "", const |-> 0, ptr |-> Null]

At(a) == IF a \in DOMAIN Places THEN Places[a] ELSE Nowhere

Ops == {"bad", "trap", "ret", "jcc", "b", "br", "bl", "blr", "mov", "add",
        "adr", "ldr", "ldrb", "ldrh", "str", "strb", "strh", "lit", "other"}

-----------------------------------------------------------------------------
(* What the handler does: leave the item (none), go to the next item and   *)
(* return 1 if that was the last (step), go to the next item and never     *)
(* return (quiet), or search the nested rule first (rule).  leave is the   *)
(* break that ends the block, keep the value given to store_stg, found     *)
(* whether it is what the search reports: always (now) or if the item was  *)
(* the last (last).                                                        *)
Skip == [move |-> "none", leave |-> FALSE, keep |-> Null, found |-> "no"]

Leave == [Skip EXCEPT !.leave = TRUE]

(* CHECK_WAIT                                                              *)
Differs(item) == IF item.wait THEN Skip ELSE Leave

Step == [Skip EXCEPT !.move = "step"]

Quiet == [Skip EXCEPT !.move = "quiet"]

Keep(v) == [Step EXCEPT !.keep = v]

Load(v) == [Keep(v) EXCEPT !.found = "last"]

Rule(v) == [v EXCEPT !.move = "rule"]

(* The name at an address against the name of the item.                    *)
ByName(item, name) ==
  IF name = "" THEN Skip ELSE IF name = item.name THEN Step ELSE Differs(item)

-----------------------------------------------------------------------------
Matched(item, v) == IF item.rule = 0 THEN v ELSE Rule(v)

(* bl                                                                      *)
AtCall(item, i) ==
  LET there == At(i.to) IN
  CASE item.type = "call_imp" -> IF there.thunk = item.name THEN Step ELSE Skip
    [] item.type = "call_exp" -> ByName(item, there.export)
    [] item.type = "call" /\ item.name = "" ->
         IF there.section = "" THEN Keep(i.to) ELSE Matched(item, Keep(i.to))
    [] item.type = "call" /\ item.name # "" ->
         IF there.section = "" THEN Skip
         ELSE IF there.section = item.name THEN Matched(item, Keep(i.to))
         ELSE Differs(item)
    [] OTHER -> Skip

(* blr                                                                     *)
AtCallReg(image, item, i) ==
  CASE item.type = "call_imp"   -> ByName(item, At(i.to).import)
    [] item.type = "call_dimp"  -> ByName(item, At(i.to).delayed)
    [] item.type = "call_icall" ->
         IF i.to = image.guard THEN Step ELSE Differs(item)
    [] OTHER -> Skip

-----------------------------------------------------------------------------
(* Four families of items that differ in the instruction they wait for.    *)
Plain == [ldr |-> "load", ldrb |-> "ldrb", ldrh |-> "ldrh", str |-> "store",
          strb |-> "strb", strh |-> "strh", add |-> "load", adr |-> "load"]

InSection == [ldr |-> "sload", ldrb |-> "sldrb", ldrh |-> "sldrh",
              str |-> "sstore", strb |-> "sstrb", strh |-> "sstrh"]

InStorage == [ldr |-> "gload", ldrb |-> "gldrb", ldrh |-> "gldrh",
              str |-> "gstore", strb |-> "gstrb", strh |-> "gstrh",
              add |-> "gload", adr |-> "gload", bl |-> "gcall"]

WithImm == [ldr |-> "ldrx", str |-> "strx", add |-> "addx", mov |-> "movx"]

Is(item, i, family) == i.op \in DOMAIN family /\ item.type = family[i.op]

(* Without a name the datum must lie in the section of the rule.  With one *)
(* an export of another name leaves the block, even if the item waits.     *)
AtPlain(item, i, section) ==
  LET there == At(i.to) IN
  IF item.name = ""
  THEN IF there.section # "" /\ there.section = section THEN Load(i.to) ELSE Skip
  ELSE CASE there.export = ""        -> Skip
         [] there.export = item.name -> Load(i.to)
         [] OTHER                    -> Leave

AtSection(item, i) ==
  LET there == At(i.to).section
      hit == Load(i.to)
  IN IF there = "" THEN Skip
     ELSE IF there # item.name THEN Differs(item)
     ELSE IF i.op = "ldr" THEN Matched(item, hit) ELSE hit

AtStorage(item, i, stg) ==
  IF item.stg \in DOMAIN stg /\ stg[item.stg] = i.to THEN Step ELSE Skip

AtImm(item, i) == IF item.reg \in {-1, i.reg} THEN Keep(i.imm) ELSE Skip

-----------------------------------------------------------------------------
(* add and adr, the items only they know; poi comes before (see below)     *)
AtAddress(item, i) ==
  LET there == At(i.to) IN
  CASE item.type = "yarares" ->
         IF i.to # Null /\ \E y \in YaraHits[item.name] : y + item.reg = i.to
         THEN [Keep(i.to) EXCEPT !.found = "now"] ELSE Differs(item)
    [] item.type \in {"ldr_rdata", "ldr_guid"} ->
         IF there.section = ".rdata" /\ there.const = item.value THEN Step ELSE Skip
    [] OTHER -> Skip

(* ldr                                                                     *)
AtLoad(image, item, i) ==
  CASE item.type = "ldr_cookie" -> IF i.to = image.cookie THEN Quiet ELSE Skip
    [] item.type = "limp" -> ByName(item, At(i.to).import)
    [] OTHER -> Skip

(* ldr of a literal                                                        *)
AtLiteral(item, i) ==
  CASE item.type = "ldr_off"   -> IF i.imm = item.value THEN Quiet ELSE Leave
    [] item.type = "ldr64_off" -> IF i.imm = item.value THEN Quiet ELSE Differs(item)
    [] OTHER -> Skip

(* An instruction that is no jump, in a rule for data of a section.        *)
Verdict(image, item, i, stg, section) ==
  CASE Is(item, i, InStorage) -> AtStorage(item, i, stg)
    [] Is(item, i, InSection) -> AtSection(item, i)
    [] Is(item, i, WithImm)   -> AtImm(item, i)
    [] Is(item, i, Plain)     -> AtPlain(item, i, section)
    [] i.op = "bl" /\ item.type # "gcall"      -> AtCall(item, i)
    [] i.op = "blr"                            -> AtCallReg(image, item, i)
    [] i.op \in {"add", "adr"} /\ item.type \notin {"load", "gload", "addx"} ->
         AtAddress(item, i)
    [] i.op = "ldr" /\ item.type \notin {"load", "gload", "sload", "ldrx"} ->
         AtLoad(image, item, i)
    [] i.op = "lit"                            -> AtLiteral(item, i)
    [] OTHER -> Skip

(* poi, tested first at an add or adr: the pointer that lies at an offset  *)
(* from a stored address.  Unless the handler leaves, the tests for the    *)
(* item that is then waited for follow, at the same instruction.           *)
AtPointer(item, i, stg) ==
  IF item.type # "poi" \/ i.op \notin {"add", "adr"} \/ item.reg \notin DOMAIN stg
  THEN Skip
  ELSE IF i.to # Null /\ i.to = At(stg[item.reg] + item.value).ptr
       THEN Keep(i.to) ELSE Differs(item)
=============================================================================
