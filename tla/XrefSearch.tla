----------------------------- MODULE XrefSearch -----------------------------
(***************************************************************************)
(* What find_xrefs of ldr/deriv.cpp promises: which functions of a module  *)
(* are scanned for references to the pattern and which are reported.  The  *)
(* order of the scan, the threads, the work sets and the repeated scans of *)
(* the implementations are left out; FindXrefs and DerivPool refine this.  *)
(*                                                                         *)
(* A module is a record                                                    *)
(*   pdata    sequence of the function addresses listed in .pdata          *)
(*   exports  sequence of export_item, [rva, code]; code is false for a    *)
(*            forwarded export and for one outside executable sections     *)
(*   calls    for every function the sequence of its `bl' targets          *)
(*   refs     the functions that hold a reference to the pattern           *)
(***************************************************************************)
EXTENDS Naturals, Sequences

CONSTANTS
  Modules    \* the modules that may be searched

VARIABLES
  target,    \* the module being searched
  fromExp,   \* whether exported functions are starting points (gCE)
  scanned,   \* functions that have been disassembled
  reported,  \* functions put in out_res
  over       \* the search has returned

xvars == <<target, fromExp, scanned, reported, over>>

Elems(s) == {s[i] : i \in 1..Len(s)}

Pdata(mod) == Elems(mod.pdata)

CodeExports(mod) == {e.rva : e \in {x \in Elems(mod.exports) : x.code}}

Roots(mod, exp) == Pdata(mod) \cup IF exp THEN CodeExports(mod) ELSE {}

(* A callee that .pdata lists needs no work of its own: it is a root.      *)
Discovered(mod, done) ==
  (UNION {Elems(mod.calls[f]) : f \in done}) \ Pdata(mod)

Wanted(mod, exp, done) == Roots(mod, exp) \cup Discovered(mod, done)

Init ==
  /\ target \in Modules
  /\ fromExp \in BOOLEAN
  /\ scanned = {}
  /\ reported = {}
  /\ over = FALSE

(* A hit is reported at once or later.                                     *)
Scan ==
  /\ ~over
  /\ \E f \in Wanted(target, fromExp, scanned) :
       /\ scanned' = scanned \cup {f}
       /\ reported' \in {reported, reported \cup ({f} \cap target.refs)}
  /\ UNCHANGED <<target, fromExp, over>>

Report ==
  /\ ~over
  /\ \E f \in scanned \cap target.refs : reported' = reported \cup {f}
  /\ UNCHANGED <<target, fromExp, scanned, over>>

(* The search may return only when nothing is left to scan or to report.   *)
Finish ==
  /\ ~over
  /\ Wanted(target, fromExp, scanned) \subseteq scanned
  /\ reported = scanned \cap target.refs
  /\ over' = TRUE
  /\ UNCHANGED <<target, fromExp, scanned, reported>>

(* ldr searches the modules of its command line one after the other.       *)
NextModule ==
  /\ over
  /\ target' \in Modules
  /\ fromExp' \in BOOLEAN
  /\ scanned' = {}
  /\ reported' = {}
  /\ over' = FALSE

Next == Scan \/ Report \/ Finish \/ NextModule

Spec == Init /\ [][Next]_xvars
=============================================================================
