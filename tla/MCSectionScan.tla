---------------------------- MODULE MCSectionScan ----------------------------
(***************************************************************************)
(* Images of 14 cells: two of headers, a section of data of nine or ten    *)
(* cells, code behind it.  Pointers have two cells, the image is linked    *)
(* for address 16, which is <<0, 1>>.                                      *)
(***************************************************************************)
EXTENDS SectionScan

Base == 16
Header == <<0, 0>>
PtrTo(a) == <<a, 1>>

MCSects == {[name |-> ".data", va |-> 2, size |-> 9, code |-> FALSE],
            [name |-> ".text", va |-> 11, size |-> 4, code |-> TRUE]}
MCFids == [from |-> 6, to |-> 8]
MCStubs == [a \in {11} |-> [slot |-> 3, name |-> "imp"]]
MCSlots == [n \in {"imp", "other"} |-> IF n = "imp" THEN 3 ELSE 5]
MCExports == [n \in {"exp"} |-> 12]
MCHits == [n \in {"one", "two", "zero"} |->
             CASE n = "one" -> {12} [] n = "two" -> {2, 11} [] OTHER -> {}]
MCAnswers == [n \in 1..3 |->
                CASE n = 1 -> [res |-> TRUE, found |-> {12}]
                  [] n = 2 -> [res |-> TRUE, found |-> {11, 12}]
                  [] n = 3 -> [res |-> FALSE, found |-> {12}]]
MCInitial == [n \in {7} |-> 12]

Blank == [type |-> "sload", at |-> 0, name |-> "", index |-> 0, offset |-> 0,
          value |-> <<>>]
Const(at, value) ==
  [Blank EXCEPT !.type = CASE Len(value) = 1 -> "ldr_off"
                           [] Len(value) = 2 -> "ldr64_off"
                           [] OTHER -> "ldr_guid",
                !.at = at, !.value = value]
Named(type, at, name, offset) ==
  [Blank EXCEPT !.type = type, !.at = at, !.name = name, !.offset = offset]
Indexed(type, at, index) == [Blank EXCEPT !.type = type, !.at = at, !.index = index]
ScanOf(section, items) == [rule |-> 8, section |-> section, items |-> items]

\* All data of zeros and ones, behind it a zero or a one
BitImages == {Header \o data \o <<0, 1, b, 1>> :
                data \in [1..9 -> {0, 1}], b \in {0, 1}}
Guids == {<<0, 0, 1>>, <<0, 1, 0>>, <<0, 1, 1>>, <<1, 1, 1>>, <<1, 0, 1>>}
BitSessions ==
  {<<ScanOf(".data", <<Const(at, guid)>>)>> : at \in {0, 1}, guid \in Guids}
  \cup {<<ScanOf(".data", <<Const(1, guid), Const(0, <<1>>)>>)>> : guid \in Guids}
  \cup {<<ScanOf(".data", <<Const(0, v), Const(2, <<1>>), Const(3, <<0>>)>>)>> :
          v \in {<<0>>, <<1>>, <<0, 1>>, <<1, 1>>}}

\* Pointers to code, to an import's slot, to data, to nothing, and one whose
\* upper half is wrong
Pairs == {PtrTo(11), PtrTo(12), PtrTo(3), <<0, 0>>, <<12, 2>>}
PointerImages ==
  {Header \o a \o b \o c \o d \o <<1, 12, 1, 12, 1>> :
     a \in Pairs, b \in Pairs, c \in Pairs, d \in {PtrTo(12), <<0, 0>>}}
  \cup {Header \o <<1>> \o a \o b \o c \o d \o <<12, 1, 12, 1>> :
     a \in {PtrTo(11), PtrTo(12)}, b \in Pairs, c \in Pairs, d \in {PtrTo(12)}}

Firsts == {Indexed("rule", 0, 1), Indexed("rule", 0, 2), Indexed("rule", 0, 3),
           Indexed("gload", 0, 7), Indexed("gload", 2, 7), Indexed("gload", 0, 6),
           Indexed("poi", 0, 7), Named("call_exp", 0, "exp", 0),
           Named("call_exp", 0, "none", 0), Named("call_imp", 0, "imp", 0),
           Named("call_imp", 0, "other", 0), Named("yarares", 0, "one", 0),
           Named("yarares", 0, "two", 1), Named("yarares", 0, "zero", 0),
           Named("ypoi", 0, "two", 0), Named("ypoi", 0, "one", 2),
           Named("sload", 0, ".text", 0)}
Seconds == {Indexed("rule", 2, 2), Indexed("rule", 0, 3), Indexed("gload", 2, 7),
            Indexed("poi", 2, 7), Named("call_imp", 2, "imp", 0),
            Named("yarares", 2, "two", 0), Named("yarares", 2, "two", 1),
            Named("ypoi", 2, "two", 2), Named("sload", 2, ".text", 0)}
Thirds == {Indexed("rule", 4, 1), Named("yarares", 4, "one", 0),
           Named("call_imp", 4, "imp", 0)}
PointerSessions ==
  {<<ScanOf(".data", <<a>>)>> : a \in Firsts}
  \cup {<<[ScanOf(".data", <<Indexed("gload", 0, 7)>>) EXCEPT !.rule = 0]>>}
  \cup {<<ScanOf(".data", <<a, b>>)>> : b \in Seconds,
          a \in {Indexed("rule", 0, 2), Indexed("gload", 0, 7), Indexed("poi", 0, 7),
                 Named("call_imp", 0, "imp", 0), Named("yarares", 0, "two", 1),
                 Named("ypoi", 0, "two", 0)}}
  \cup {<<ScanOf(".data", <<Indexed("gload", 0, 7), b, c>>)>> :
          b \in Seconds, c \in Thirds}
  \cup {<<ScanOf(".data", <<a>>), ScanOf(".data", <<b>>)>> :
          a \in {Named("call_imp", 0, "imp", 0), Indexed("rule", 0, 3)},
          b \in {Named("call_imp", 0, "imp", 0), Indexed("rule", 0, 3),
                 Indexed("gload", 0, 8)}}
  \cup {<<ScanOf(".bss", <<a>>)>> : a \in {Indexed("gload", 0, 7),
                                           Named("call_imp", 0, "imp", 0)}}

Group(mapped, images, sessions) ==
  [mapped |-> mapped, images |-> images, sessions |-> sessions]
MCCases ==
  {Group({Base}, BitImages, BitSessions),
   Group({Base}, PointerImages, PointerSessions),
   Group({Base + 4}, PointerImages, {s \in PointerSessions : Len(s) = 2})}

\* Mapped elsewhere, with a pointer to the thunk at the start of the section
ImportImages == {i \in PointerImages : i[3] = 11}
ImportSessions == {<<ScanOf(".data", <<Named("call_imp", 0, "imp", 0)>>)>>}
ImportCases == {Group({Base, Base + 4}, ImportImages, ImportSessions)}
=============================================================================
