------------------------------ MODULE XrefFinder ------------------------------
(***************************************************************************)
(* xref_finder of ldr/hack.h and ldr/hack.cpp: a search of a whole section *)
(* for the instructions that form an address, without regard to functions. *)
(* The words of the section are decoded one after the other; of each       *)
(* register the finder keeps what the last adrp (or adr) put there, for    *)
(* ten instructions.                                                       *)
(*                                                                         *)
(* find and find_ldr come twice: with a list of all places as the answer,  *)
(* and with the first place only.  One object may serve several searches,  *)
(* as in krnl_etw.cpp; its registers stay as they are between them.        *)
(***************************************************************************)
EXTENDS Disassembler

CONSTANTS Sections,   \* Records of a base address and a sequence of words
          Sessions    \* Sequences of searches, made of one object

ListSearches == {"find_list", "find_ldr_list", "find_bl"}
SingleSearches == {"find", "find_ldr"}

SearchesAssumption ==
  /\ \A s \in Sections : s.base % 4 = 0 /\ s.base > 40
  /\ \A s \in Sessions : \A i \in 1..Len(s) :
       s[i].method \in ListSearches \cup SingleSearches /\ s[i].what > 0
ASSUME SearchesAssumption

AD_REG_SP == 30
Null == 0
\* Stands for the 2^32 by which the address of a backward adr is wrong
Beyond == 2^30

VARIABLES section,   \* What is searched
          session,   \* The searches, the running one first
          fresh,     \* Whether it is the first one of the object
          m_regs,    \* Of each register the address, and where it was set
          i,         \* The index of the next word, 0 when no search runs
          out_list   \* The places found

vars == <<section, session, fresh, m_regs, i, out_list>>

Method == session[1].method
What == session[1].what
Place(k) == section.base + 4 * (k - 1)
Word == section.words[i]
\* What the decoder makes of the next word, if there is one
Decoded == {Disassemble(section.words[k]) : k \in {i} \cap DOMAIN section.words}

(***************************************************************************)
(* The words are told by masks before they are decoded                     *)
(***************************************************************************)
LooksLikeAdr(w) == Bits(w, 24, 28) = 16 /\ Bit(w, 31) = 0
LooksLikeAdrp(w) == Bits(w, 24, 28) = 16 /\ Bit(w, 31) = 1
LooksLikeAdd(w) == Bits(w, 24, 30) = 17
LooksLikeLdr(w) == Bit(w, 31) = 1 /\ Bits(w, 22, 29) = 229
LooksLikeBranch(w) == Bits(w, 26, 31) \in {5, 37}

Finds == Method \in {"find", "find_list"}
SetsAddress(dis) ==
  /\ \/ LooksLikeAdrp(Word) /\ Method # "find_bl"
     \/ LooksLikeAdr(Word) /\ Finds
  /\ dis.id \in {"ADR", "ADRP"}
UsesAddress(dis) ==
  \/ Finds /\ LooksLikeAdd(Word) /\ dis.id = "ADD"
  \/ /\ Method \in {"find_ldr", "find_ldr_list"}
     /\ LooksLikeLdr(Word) /\ dis.id = "LDR"
SeesBranch(dis) ==
  /\ Method = "find_bl" /\ LooksLikeBranch(Word)
  /\ is_bl_jimm(dis) \/ dis.id = "B"

\* The address an operand stands for in the record of a word at a place
Address_InPage(op, at) == at + (IF op.k = "page" THEN 4096 ELSE 1) * op.n
Address(op, at) ==
  CASE op.k = "pc" -> at + op.n
    [] op.k = "pc32" -> at + op.n + Beyond
    [] op.k = "page" -> 4096 * (at \div 4096 + op.n)

\* The third operand is read without asking whether it is there
ThirdOperand(dis) == IF Len(dis.ops) < 3 THEN 0 ELSE dis.ops[3].n

\* A register is forgotten when it was set ten instructions ago
Kept_Short(reg, at) == m_regs[reg].where # Null /\ m_regs[reg].where > at - 36
Kept(reg, at) == m_regs[reg].where # Null /\ m_regs[reg].where > at - 40

(***************************************************************************)
(* The steps                                                               *)
(***************************************************************************)
Blank == [reg \in 0..(AD_REG_SP - 1) |-> [addr |-> Null, where |-> Null]]

Init == /\ section \in Sections
        /\ session \in Sessions
        /\ fresh = TRUE
        /\ m_regs = Blank
        /\ i = 1
        /\ out_list = <<>>

\* A hit goes to the list; the searches for one place return with it
Continue(hit) ==
  /\ out_list' = IF hit THEN Append(out_list, Place(i)) ELSE out_list
  /\ i' = IF hit /\ Method \in SingleSearches THEN 0 ELSE i + 1

\* adrp and adr: find compares the address itself, and so does find_ldr for
\* one place; when it returns with it, only half of the entry is written
ScanAddress(dis) ==
  LET reg == dis.ops[1].n
      addr == Address(dis.ops[2], Place(i))
      hit == addr = What /\ Method # "find_ldr_list"
      where == IF hit /\ Method \in SingleSearches
               THEN m_regs[reg].where ELSE Place(i)
  IN /\ SetsAddress(dis)
     /\ IF reg >= AD_REG_SP THEN m_regs' = m_regs /\ Continue(FALSE)
        ELSE /\ m_regs' = [m_regs EXCEPT ![reg] = [addr |-> addr, where |-> where]]
             /\ Continue(hit)
     /\ UNCHANGED <<section, session, fresh>>

\* add or ldr with a register that is still known
ScanUse(dis) ==
  LET reg == dis.ops[2].n
      kept == Kept(reg, Place(i))
  IN /\ UsesAddress(dis)
     /\ IF reg >= AD_REG_SP THEN m_regs' = m_regs /\ Continue(FALSE)
        ELSE /\ m_regs' = IF kept THEN m_regs
                          ELSE [m_regs EXCEPT ![reg] = Blank[reg]]
             /\ Continue(kept /\ m_regs[reg].addr # Null /\
                         m_regs[reg].addr + ThirdOperand(dis) = What)
     /\ UNCHANGED <<section, session, fresh>>

ScanBranch(dis) ==
  /\ SeesBranch(dis)
  /\ Continue(Address(JmpAddr(dis), Place(i)) = What)
  /\ UNCHANGED <<section, session, fresh, m_regs>>

ScanOther(dis) ==
  /\ ~SetsAddress(dis) /\ ~UsesAddress(dis) /\ ~SeesBranch(dis)
  /\ Continue(FALSE)
  /\ UNCHANGED <<section, session, fresh, m_regs>>

Return ==
  /\ i > Len(section.words) /\ i' = 0
  /\ UNCHANGED <<section, session, fresh, m_regs, out_list>>

\* The next search with the same object
SearchAgain ==
  /\ i = 0 /\ Len(session) > 1
  /\ session' = Tail(session) /\ fresh' = FALSE
  /\ i' = 1 /\ out_list' = <<>>
  /\ UNCHANGED <<section, m_regs>>

Finished == i = 0 /\ Len(session) = 1 /\ UNCHANGED vars

Next == \/ \E dis \in Decoded : \/ ScanAddress(dis) \/ ScanUse(dis)
                                \/ ScanBranch(dis) \/ ScanOther(dis)
        \/ Return \/ SearchAgain \/ Finished

Spec == Init /\ [][Next]_vars

(***************************************************************************)
(* What the words mean, from their fields                                  *)
(***************************************************************************)
At(k) == section.words[k]
Destination(k) == Bits(At(k), 0, 4)
Base(k) == Bits(At(k), 5, 9)

IsAdr(k) == Class(At(k)) = "adr"
IsAdrp(k) == Class(At(k)) = "adrp"
IsAdd(k) == Class(At(k)) = "arithmetic" /\ Bits(At(k), 29, 30) = 0
IsLdr(k) == /\ Class(At(k)) = "transfer" /\ Bit(At(k), 26) = 0
            /\ Bits(At(k), 22, 23) = 1 /\ Bit(At(k), 31) = 1
Writes(k, reg) ==
  (IsAdr(k) \/ IsAdrp(k) \/ IsAdd(k) \/ IsLdr(k)) /\ Destination(k) = reg

Formed(k) ==
  LET imm == SignExtend(4 * Bits(At(k), 5, 23) + Bits(At(k), 29, 30), 21)
  IN IF IsAdr(k) THEN Place(k) + imm
     ELSE 4096 * (Place(k) \div 4096 + imm)

\* The last word before k that has written a register, 0 if none has
Writer(k, reg) ==
  LET before == {j \in 1..(k - 1) : Writes(j, reg)}
  IN IF before = {} THEN 0 ELSE CHOOSE j \in before : \A l \in before : l <= j

\* The kinds of words a method asks for
Sought(k) ==
  CASE Method \in {"find", "find_list"} -> IsAdd(k)
    [] Method \in {"find_ldr", "find_ldr_list"} -> IsLdr(k)
    [] Method = "find_bl" -> FALSE
Watched(k) == IsAdrp(k) \/ (IsAdr(k) /\ Finds)
Compared(k) == Watched(k) /\ Method \in {"find", "find_list", "find_ldr"}

\* Word k forms What: alone, from a register just set, or as a target
Points(k) ==
  \/ Compared(k) /\ Formed(k) = What
  \/ LET j == Writer(k, Base(k))
         imm == Bits(At(k), 10, 21)
         offset == IF IsLdr(k) THEN imm * 2^Bits(At(k), 30, 31)
                   ELSE imm * 4096^Bit(At(k), 22)
     IN Sought(k) /\ j # 0 /\ Watched(j) /\ Formed(j) + offset = What
  \/ /\ Method = "find_bl" /\ Class(At(k)) \in {"b", "bl"}
     /\ Place(k) + Distance(At(k)) = What

\* An add of all 64 bits whose number is not shifted
Plain(k) == IsAdd(k) => Bit(At(k), 31) = 1 /\ Bit(At(k), 22) = 0
\* The section has put an address into the register before, but the last word
\* that wrote it is one that the finder does not look at
Overwritten(k) ==
  /\ \E j \in 1..(k - 1) : Watched(j) /\ Destination(j) = Base(k)
  /\ ~Watched(Writer(k, Base(k)))

\* What may be reported: the finder knows no shift and no 32-bit sum, and does
\* not see a register change hands
Accountable(k) == Points(k) \/ (Sought(k) /\ (~Plain(k) \/ Overwritten(k)))

\* Within the reach of the finder: not x30, which is AD_REG_SP, set at most
\* nine words before, and not by an adr backwards
InReach(k) ==
  LET j == IF Compared(k) THEN k ELSE Writer(k, Base(k))
  IN Method # "find_bl" =>
       /\ Plain(k) /\ k - j < 10 /\ Destination(j) < AD_REG_SP
       /\ IsAdr(j) => Formed(j) >= Place(j)

Hits == {k \in 1..Len(section.words) : Points(k) /\ InReach(k)}
Reported == {(out_list[j] - section.base) \div 4 + 1 : j \in 1..Len(out_list)}

(***************************************************************************)
(* Properties                                                              *)
(***************************************************************************)
\* Unless the register has been written by something else in between, or the
\* number is taken wrongly, what a search with a new object reports forms the
\* address: the registers are those of the section, the masks accept nothing
\* else, offsets are in bytes (hack.h:126 and the bodies of the searches)
ReportsPointAtWhat ==
  fresh => \A k \in Reported : Accountable(k)

\* Every word within reach that forms the address is in the list, also when
\* the object was used before
NoReferenceMissed ==
  i = 0 /\ Method \in ListSearches => Hits \subseteq Reported

\* The search for one place is not behind the first of them.  With an object
\* that was used before it may be before it, with a reference that is none
FirstReferenceFound ==
  i = 0 /\ Method \in SingleSearches /\ Hits # {} =>
    \E k \in Reported : \A h \in Hits : k <= h

\* What a search is made for it finds, up to the reach of the finder
ReferencesAreFound == NoReferenceMissed /\ FirstReferenceFound
=============================================================================
