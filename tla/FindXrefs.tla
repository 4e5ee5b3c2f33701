------------------------------ MODULE FindXrefs ------------------------------
(***************************************************************************)
(* The derive loop at the end of wmain (ldr/ldr.cpp) without -t: for every *)
(* file given with -der, deriv_hack::find_xrefs of ldr/deriv.cpp with the  *)
(* single-threaded funcs_holder.  gCE is a global: a file without .pdata   *)
(* sets it for the files that follow.                                      *)
(*                                                                         *)
(* Scanning one function (disasm_one_func, see CodeWalk) is one step here. *)
(***************************************************************************)
EXTENDS Naturals, Sequences, FiniteSets

CONSTANTS
  Funcs,      \* the addresses of functions
  Modules,    \* the modules that may be searched, see XrefSearch
  Sessions    \* the command lines: the -der files, in order

ASSUME FindXrefsAssumption ==
  /\ Funcs \subseteq Nat
  /\ Modules \subseteq [pdata : Seq(Funcs),
                        exports : Seq([rva : Funcs, code : BOOLEAN]),
                        calls : [Funcs -> Seq(Funcs)], refs : SUBSET Funcs]
  /\ Sessions \subseteq Seq(Modules) \ {<<>>}

VARIABLES
  gCE,        \* the global
  derives,    \* the modules that have not been searched
  target,     \* the module being searched
  phase,      \* the loop of find_xrefs that runs
  source,     \* the elements this loop has not visited
  current,    \* m_current of the holder
  processed,  \* m_processed of the holder
  scans,      \* history: the functions scanned, [addr, phase], in order
  outRes,     \* out_res
  returned    \* find_xrefs has returned

holder == <<current, processed>>
vars ==
  <<gCE, derives, target, phase, source, holder, scans, outRes, returned>>

ElementsOf(s) == {s[k] : k \in 1..Len(s)}

Search == INSTANCE XrefSearch WITH
  fromExp  <- gCE,
  scanned  <- {s.addr : s \in ElementsOf(scans)},
  reported <- ElementsOf(outRes),
  over     <- returned

Phases == {"pdata", "exports", "rounds"}

Sorted(S) == CHOOSE s \in [1..Cardinality(S) -> S] :
               \A a, b \in 1..Cardinality(S) : a < b => s[a] < s[b]

-----------------------------------------------------------------------------
(* find_xrefs begins: without .pdata the exports are the starting points   *)
Begin(mod, ce) ==
  /\ target' = mod
  /\ gCE' = (ce \/ mod.pdata = <<>>)
  /\ phase' = "pdata"
  /\ source' = mod.pdata
  /\ current' = {}
  /\ processed' = {}
  /\ scans' = <<>>
  /\ outRes' = <<>>
  /\ returned' = FALSE

(* The files in front of the first that can be read are passed over.       *)
Init ==
  /\ \E files \in Sessions : \E k \in DOMAIN files :
       target = files[k] /\ derives = SubSeq(files, k + 1, Len(files))
  /\ gCE \in {b \in BOOLEAN : target.pdata = <<>> => b}
  /\ phase = "pdata"
  /\ source = target.pdata
  /\ current = {}
  /\ processed = {}
  /\ scans = <<>>
  /\ outRes = <<>>
  /\ returned = FALSE

(* The element at the head of the loop; an export may be skipped.          *)
Addr == IF phase = "exports" THEN Head(source).rva ELSE Head(source)

Skipped == phase = "exports" /\ (~Head(source).code \/ Addr \in processed)

SkipExport ==
  /\ ~returned
  /\ source # <<>>
  /\ Skipped
  /\ source' = Tail(source)
  /\ UNCHANGED <<gCE, derives, target, phase, holder, scans, outRes,
                 returned>>

(* funcs_holder::add for every call of f                                   *)
Pushed(f) ==
  {c \in ElementsOf(target.calls[f]) :
     c \notin ElementsOf(target.pdata) /\ c \notin processed}

(* Mutant: add_processed is never called.                                  *)
ScanFunction_Unmarked ==
  /\ ~returned
  /\ source # <<>>
  /\ ~Skipped
  /\ current' = current \cup Pushed(Addr)
  /\ scans' = Append(scans, [addr |-> Addr, phase |-> phase])
  /\ outRes' = IF Addr \in target.refs THEN Append(outRes, Addr) ELSE outRes
  /\ source' = Tail(source)
  /\ UNCHANGED <<gCE, derives, target, phase, processed, returned>>

(* disasm_one_func, the report of a hit and, in the last loop, afterwards, *)
(* f.add_processed(c)                                                      *)
ScanFunction ==
  /\ ~returned
  /\ source # <<>>
  /\ ~Skipped
  /\ current' = current \cup Pushed(Addr)
  /\ scans' = Append(scans, [addr |-> Addr, phase |-> phase])
  /\ outRes' = IF Addr \in target.refs THEN Append(outRes, Addr) ELSE outRes
  /\ processed' = IF phase = "rounds" THEN processed \cup {Addr} ELSE processed
  /\ source' = Tail(source)
  /\ UNCHANGED <<gCE, derives, target, phase, returned>>

(* Mutant: the test of gCE is inverted.                                    *)
ExportsLoop_Inverted ==
  /\ ~returned
  /\ source = <<>>
  /\ phase = "pdata"
  /\ phase' = "exports"
  /\ source' = IF gCE THEN <<>> ELSE target.exports
  /\ UNCHANGED <<gCE, derives, target, holder, scans, outRes,
                 returned>>

ExportsLoop ==
  /\ ~returned
  /\ source = <<>>
  /\ phase = "pdata"
  /\ phase' = "exports"
  /\ source' = IF gCE THEN target.exports ELSE <<>>
  /\ UNCHANGED <<gCE, derives, target, holder, scans, outRes,
                 returned>>

(* Mutant: m_current is not cleared.                                       *)
Exchange_NoClear ==
  /\ ~returned
  /\ source = <<>>
  /\ phase # "pdata"
  /\ current # {}
  /\ phase' = "rounds"
  /\ source' = Sorted(current \ processed)
  /\ UNCHANGED <<gCE, derives, target, current, processed, scans,
                 outRes, returned>>

(* exchange hands out everything that was pushed.                          *)
Exchange ==
  /\ ~returned
  /\ source = <<>>
  /\ phase # "pdata"
  /\ current # {}
  /\ phase' = "rounds"
  /\ source' = Sorted(current)
  /\ current' = {}
  /\ UNCHANGED <<gCE, derives, target, processed, scans, outRes,
                 returned>>

Return ==
  /\ ~returned
  /\ source = <<>>
  /\ phase # "pdata"
  /\ current = {}
  /\ returned' = TRUE
  /\ UNCHANGED <<gCE, derives, target, phase, source, holder, scans,
                 outRes>>

(* The next file; gCE keeps the value the last one left.                   *)
NextFile ==
  /\ returned
  /\ derives # <<>>
  /\ Begin(Head(derives), gCE)
  /\ derives' = Tail(derives)

(* A file that cannot be read or mapped is passed over.                    *)
SkipFile ==
  /\ returned
  /\ derives # <<>>
  /\ derives' = Tail(derives)
  /\ UNCHANGED <<gCE, target, phase, source, holder, scans, outRes,
                 returned>>

Step ==
  \/ SkipExport \/ ScanFunction \/ ExportsLoop \/ Exchange \/ Return
  \/ NextFile \/ SkipFile

Done == returned /\ derives = <<>> /\ UNCHANGED vars

Next == Step \/ Done

Spec == Init /\ [][Next]_vars /\ WF_vars(Step)

-----------------------------------------------------------------------------
(* A function is marked as processed only after its own scan, and exchange *)
(* does not filter, so a function that calls itself is scanned again - but *)
(* once more at most: the rounds cannot go on for ever.                    *)
DiscoveredScannedTwiceAtMost ==
  \A f \in {s.addr : s \in ElementsOf(scans)} :
    Cardinality({k \in 1..Len(scans) : scans[k] = [addr |-> f, phase |-> "rounds"]})
      <= 2

(* The sequential search scans and reports what find_xrefs promises.       *)
ImplementsXrefSearch == Search!Spec

(* Every search of the command line comes to its end.                      *)
SessionTerminates == <>(returned /\ derives = <<>>)
=============================================================================
