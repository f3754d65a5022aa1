-------------------------------- MODULE RMap --------------------------------
(***************************************************************************)
(* The resource map of util/malloc.c: a table of runs of free units,       *)
(* sorted by address, that ends with an entry of size 0.  rmalloc and      *)
(* rmfree run at splhi, so each is one step.  mapsize counts the entries   *)
(* that are left; mapwant says that somebody sleeps on the map, as msgsnd  *)
(* does when rmalloc has nothing for it.                                   *)
(*                                                                         *)
(* A definition named Faulty... is not part of the model: it is what a     *)
(* likely bug would make of the definition after it.                       *)
(***************************************************************************)
EXTENDS KSleep, FreeMap

CONSTANTS
    MAPSIZ,     \* structures in the map's array: mapsize, mapwant, the entries
                \* and the entry of size 0
    Units,      \* units of the resource, numbered from 1
    Map         \* the map's address, which is slept on

ASSUME MapAssumption ==
    /\ MAPSIZ \in Nat \ {0, 1, 2} /\ Units \in Nat \ {0}
    /\ Map # NoChan

VARIABLES
    X,          \* the entries, from mapstart on
    mapsize,    \* empty entries left
    mapwant,    \* somebody wants units
    held,       \* units that rmalloc has given out
    need        \* what each process wants

vars == <<X, mapsize, mapwant, held, need, wchan>>

Entry == 1 .. MAPSIZ - 1
Empty == [m_size |-> 0, m_addr |-> 0]

Smallest(S) == CHOOSE i \in S : \A j \in S : i <= j

\* mapinit, and the rmfree that gives the map its units
Init ==
    /\ X = [i \in Entry |-> IF i = 1 THEN [m_size |-> Units, m_addr |-> 1] ELSE Empty]
    /\ mapsize = MAPSIZ - 3
    /\ mapwant = FALSE
    /\ held = {}
    /\ need = [p \in Proc |-> 0]
    /\ wchan = [p \in Proc |-> NoChan]
-----------------------------------------------------------------------------
\* The entry of size 0 is not copied
FaultyShiftUp(e, i) ==
    LET last == Smallest({j \in i .. MAPSIZ - 2 : e[j + 1].m_size = 0})
    IN  [j \in Entry |-> IF j \in i .. last - 1 THEN e[j + 1] ELSE e[j]]

\* Entries behind i move up one place, the entry of size 0 with them
ShiftUp(e, i) ==
    LET last == Smallest({j \in i .. MAPSIZ - 2 : e[j + 1].m_size = 0})
    IN  [j \in Entry |-> IF j \in i .. last THEN e[j + 1] ELSE e[j]]

\* A new entry at i; those from i on move down into the entry of size 0
ShiftDown(e, i, new) ==
    LET last == Smallest({j \in i .. MAPSIZ - 1 : e[j].m_size = 0})
    IN  [j \in Entry |-> IF j = i THEN new
                         ELSE IF j \in i + 1 .. last THEN e[j - 1] ELSE e[j]]

\* The entries whose size is not 0, as the loops go through them
Used == {i \in Entry : \A j \in 1 .. i : X[j].m_size # 0}

Enough(n) == {i \in Used : X[i].m_size >= n}

\* rmalloc, when it finds n units: they start at a
Rmalloc(n, a) ==
    /\ Enough(n) # {}
    /\ LET bp  == Smallest(Enough(n))
           cut == [m_size |-> X[bp].m_size - n, m_addr |-> X[bp].m_addr + n]
       IN  /\ a = X[bp].m_addr
           /\ IF cut.m_size = 0
              THEN X' = ShiftUp([X EXCEPT ![bp] = cut], bp) /\ mapsize' = mapsize + 1
              ELSE X' = [X EXCEPT ![bp] = cut] /\ UNCHANGED mapsize

\* rmfree's wakeup leaves mapwant zeroed and the sleepers asleep
FaultyWakeWanting == mapwant' = FALSE /\ UNCHANGED wchan

WakeWanting ==
    /\ mapwant' = FALSE
    /\ IF mapwant THEN Wakeprocs({Map}) ELSE UNCHANGED wchan

\* The entry behind is not looked at
FaultyRmfreeJoin(bp, n) ==
    X' = [X EXCEPT ![bp - 1].m_size = @ + n] /\ UNCHANGED mapsize

\* The units join the entry before bp, and that joins bp when they meet
RmfreeJoin(bp, n) ==
    LET grown == [X EXCEPT ![bp - 1].m_size = @ + n]
        end   == X[bp - 1].m_addr + X[bp - 1].m_size + n
    IN  IF X[bp].m_addr # 0 /\ end = X[bp].m_addr
        THEN /\ X' = ShiftUp([grown EXCEPT ![bp - 1].m_size = @ + X[bp].m_size], bp)
             /\ mapsize' = mapsize + 1
        ELSE X' = grown /\ UNCHANGED mapsize

\* rmfree of the n units from a
Rmfree(n, a) ==
    LET bp == Smallest({i \in Entry : i \notin Used \/ X[i].m_addr > a}) IN
    \/ /\ bp > 1 /\ X[bp - 1].m_addr + X[bp - 1].m_size = a
       /\ RmfreeJoin(bp, n)
       /\ WakeWanting
    \/ /\ ~ (bp > 1 /\ X[bp - 1].m_addr + X[bp - 1].m_size = a)
       /\ a + n = X[bp].m_addr /\ X[bp].m_size # 0
       /\ X' = [X EXCEPT ![bp] = [m_size |-> @.m_size + n, m_addr |-> a]]
       /\ UNCHANGED mapsize
       /\ WakeWanting
    \/ /\ ~ (bp > 1 /\ X[bp - 1].m_addr + X[bp - 1].m_size = a)
       /\ ~ (a + n = X[bp].m_addr /\ X[bp].m_size # 0)
       /\ IF mapsize = 0
          THEN UNCHANGED <<X, mapsize, mapwant, wchan>>
          ELSE /\ X' = ShiftDown(X, bp, [m_size |-> n, m_addr |-> a])
               /\ mapsize' = mapsize - 1
               /\ WakeWanting
-----------------------------------------------------------------------------
(* The callers *)

\* rmalloc, and when there are no units: mapwant(mp)++, sleep(mp)
Take(p, n) ==
    /\ ~ Asleep(p)
    /\ \/ \E a \in 1 .. Units :
            /\ Rmalloc(n, a)
            /\ held' = held \cup (a .. a + n - 1)
            /\ UNCHANGED <<mapwant, need, wchan>>
       \/ /\ Enough(n) = {}
          /\ mapwant' = TRUE
          /\ need' = [need EXCEPT ![p] = n]
          /\ GoToSleep(p, Map)
          /\ UNCHANGED <<X, mapsize, held>>

\* Some units that were taken are given back, not always those of one rmalloc
Give(n, a) ==
    /\ a .. a + n - 1 \subseteq held
    /\ Rmfree(n, a)
    /\ held' = held \ (a .. a + n - 1)
    /\ UNCHANGED need

\* A signal
Leave(p) == Setrun(p) /\ UNCHANGED <<X, mapsize, mapwant, held, need>>

Next ==
    \/ \E n \in 1 .. Units :
         \/ \E p \in Proc : Take(p, n)
         \/ \E a \in 1 .. Units : Give(n, a)
    \/ \E p \in Proc : Leave(p)

Spec == Init /\ [][Next]_vars
-----------------------------------------------------------------------------
(* Properties *)

Run(i) == X[i].m_addr .. X[i].m_addr + X[i].m_size - 1

Free == UNION {Run(i) : i \in Used}

\* The table keeps the form its loops rely on: runs in the order of their
\* addresses with units between them, nothing but zeros behind the last, room
\* for the entry of size 0, and mapsize the number of entries that are left.
\* No unit is both free and given out.
TableSorted ==
    /\ \A i \in Entry \ Used : X[i] = Empty
    /\ MAPSIZ - 1 \notin Used
    /\ \A i \in Used : i + 1 \in Used => X[i].m_addr + X[i].m_size < X[i + 1].m_addr
    /\ mapsize + Cardinality(Used) = MAPSIZ - 2
    /\ Free \subseteq (1 .. Units) \ held

\* rmalloc and rmfree do to the set of free units what FreeMap says: the first
\* run that is long enough is taken from its start, and units are lost only
\* when they need an entry of their own and there is none.
ImplementsFreeMap ==
    /\ Free = 1 .. Units
    /\ [][\E n, a \in 1 .. Units :
            \/ /\ Fits(Free, n, a)
               /\ Free' = Free \ (a .. a + n - 1) /\ held' = held \cup (a .. a + n - 1)
            \/ /\ Free' = Freed(Free, a .. a + n - 1, MAPSIZ - 2)
               /\ held' = held \ (a .. a + n - 1)
         ]_<<Free, held>>

\* Nobody sleeps on the map for units that are there, and mapwant is set for
\* whoever sleeps: rmfree wakes all, and none of its returns forgets to.
WantersStarved ==
    \A p \in Proc : Asleep(p) => mapwant /\ Windows(Free, need[p]) = {}
=============================================================================
