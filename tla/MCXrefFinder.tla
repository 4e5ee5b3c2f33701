---------------------------- MODULE MCXrefFinder ----------------------------
(***************************************************************************)
(* Sections of three words out of a pool, with nothing or eight words      *)
(* between the first two: the second is then the last one to find the      *)
(* register kept.  The second page begins at the fifth word.               *)
(***************************************************************************)
EXTENDS XrefFinder

Halfwords(hi, lo) == [hi |-> hi, lo |-> lo]
Nop == Halfwords(54531, 8223)

Pool ==
  { Halfwords(36864, 0),               \* adrp x0, this page
    Halfwords(45056, 0),               \* adrp x0, the next page
    Halfwords(45056, 30),              \* adrp x30, the next page
    Halfwords(4096, 128),              \* adr x0, 16 bytes ahead
    Halfwords(4351, 65408),            \* adr x0, 16 bytes back
    Halfwords(37120, 16385),           \* add x1, x0, 16
    Halfwords(4352, 16385),            \* add w1, w0, 16
    Halfwords(37184, 4097),            \* add x1, x0, 4 shifted by 12
    Halfwords(37120, 17345),           \* add x1, x30, 16
    Halfwords(37120, 0),               \* add x0, x0, 0
    Halfwords(63808, 2049),            \* ldr x1, [x0, 16]
    Halfwords(63808, 0),               \* ldr x0, [x0]
    Halfwords(37888, 4),               \* bl 16 bytes ahead
    Halfwords(5120, 2),                \* b 8 bytes ahead
    Nop }

Apart == {0, 8}
PoolSections ==
  {[base |-> 12272, words |-> <<a>> \o [n \in 1..gap |-> Nop] \o <<b, c>>] :
     a \in Pool, b \in Pool, c \in Pool, gap \in Apart}

Asked == {12288, 12304}
Search(method, what) == [method |-> method, what |-> what]
PoolSessions ==
  {<<Search(method, what)>> : method \in ListSearches \cup SingleSearches,
                              what \in Asked}
  \cup {<<Search("find", what), Search("find", other)>> : what \in Asked,
                                                          other \in Asked}
=============================================================================
