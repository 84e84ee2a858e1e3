-------------------------- MODULE FileSystemProofs --------------------------
(***************************************************************************)
(* With merges that end on old data, calls that fail and loss of power at  *)
(* every moment, open, unlink, clearFS and what programs write are the     *)
(* steps of a directory, for every number of files, sectors and sizes: of  *)
(* the files that end before the first damage.                             *)
(*                                                                         *)
(* A list is the least set of cells that has the first and, for each, the  *)
(* next.  It leads upwards, so that nothing in the list lies between a     *)
(* header and its next (Chain): files are apart, what is in a hole is no   *)
(* header, and one header in place of several leaves the others in the     *)
(* list (SplicedList).  What is damaged leads upwards too, so that two     *)
(* flashes that agree before an address have the same files before it      *)
(* (Prefix), and a list that is whole before an address remains so when    *)
(* something is damaged behind it (PrefixGood): Good(flash, intact) is     *)
(* what each step keeps.                                                   *)
(*                                                                         *)
(* Inv says of every step of open what the flash is to become: Target is   *)
(* what the flash and the buffer hold with the headers of the call in it,  *)
(* and it is a list with all files of before (Keeps).  What is behind the  *)
(* new headers, up to the end of the holes, may be anything (Dead): the    *)
(* code copies some of it and leaves out some, as sectors fall.  A step    *)
(* that damages nothing either leaves the files as they were or adds the   *)
(* new one (Created); one that does takes away those that end behind it    *)
(* (LostStep).                                                             *)
(***************************************************************************)
EXTENDS FileSystem, WellFoundedInduction, TLAPS

Address == Cells \cup {Wild, Nil}

\* What may be at c: something that leads upwards, and a file fits before
\* what its header leads to.
Sound(c, v) ==
    /\ v \in Cell
    /\ v.next # Last /\ v.next > c
    /\ v.next = Nil => v = Erased
    /\ v.name \in Names => v.next < Last /\ v.next >= c + v.size + 2

Image(fl) == fl \in [Cells -> Cell] /\ \A c \in Cells : Sound(c, fl[c])

\* A flash in which the list is whole before p: names differ, and behind an end
\* there is nothing.
Good(fl, p) ==
    /\ Image(fl)
    /\ \A a, b \in InList(fl) :
          a < p /\ b < p /\ fl[a].name = fl[b].name /\ fl[a].name \in Names => a = b
    /\ \A a \in InList(fl) : a < p /\ fl[a].next = Nil =>
          \A c \in Cells : a <= c /\ c < p => fl[c] = Erased

AppendPlaces == {"low", "high", "name"}
RewritePlaces == {"erase buffer", "fill", "erase", "copy"}

\* What open is to write.
JobOK(j) ==
    /\ j.address \in Cells
    /\ j.header \in Cell /\ j.header.name \in Names
    /\ j.header.next \in Cells /\ j.header.next < Last
    /\ j.header.next >= j.address + j.header.size + 2
    /\ \/ j.false = Nil
       \/ j.false \in Cells /\ j.header.next <= j.false /\ j.false < Last

To(j) == IF j.false = Nil THEN j.header.next ELSE j.false

\* The cells that a rewriting may leave as it likes.
Dead(j) == {c \in Cells : j.address < c /\ c < To(j) /\ c # j.header.next}

\* Whether there is a false header to write.  One that leads to itself never is.
Rest(j) == j.false \notin {Nil, j.header.next}

\* fl with the headers of the job in it.
Written(fl, j) ==
    [c \in Cells |->
        IF c = j.address THEN j.header
        ELSE IF c = j.header.next /\ Rest(j) THEN FalseHeader(j.false)
        ELSE fl[c]]

\* What a rewriting has to end with, but for the dead cells.
Now    == [c \in Cells |-> Held(c)]
Target == Written(Now, job)

\* What adding a file starts with.
Base == [flash EXCEPT ![job.address] = Erased]

\* fl has the files that there were when open was called, before p, and none
\* with the name of the new one but what is at its address.
Keeps(fl) ==
    /\ Good(fl, intact) /\ job.address \in InList(fl)
    /\ \A a \in InList(fl) : a < intact /\ fl[a].name = job.header.name => a = job.address
    /\ \A g \in Names : g # job.header.name =>
          Before(intact, Listing(fl))[g] = Before(intact, seen)[g]

\* Nothing is written at c.
Outside(c) == c \in Cells /\ (c < job.address \/ c >= To(job))

\* Every file there was is there, and not where something is written.
AllThere ==
    \A g \in Names : seen[g] # Absent =>
        LET a == seen[g].start
        IN  /\ Outside(a) /\ Now[a].name = g /\ Len(seen[g].data) \in Nat
            /\ \A i \in DOMAIN seen[g].data :
                  Outside(a + i) /\ Now[a + i].name = seen[g].data[i]

\* While a file is added at the end of the list ...
Appending ==
    /\ Image(flash) /\ Keeps(Base)
    /\ flash[job.address] =
          HeaderCell(IF at = "low" THEN Nil ELSE IF at = "high" THEN Wild ELSE job.header.next,
                     0, Unnamed)

\* ... and while one is put into holes.
Rewriting ==
    /\ job.sector \in SectorOf(job.address) .. SectorOf(To(job))
    /\ Image(flash) /\ Keeps(Target)
    /\ at # "copy" /\ job.sector = SectorOf(job.address) =>
          Good(flash, intact) /\ Before(intact, Listing(flash)) = Before(intact, seen)
    /\ \A c \in Cells \ Dead(job) : SectorOf(c) < job.sector => flash[c] = Target[c]
    /\ at \in {"erase", "copy"} =>
          \A c \in Cells : SectorOf(c) = job.sector =>
             /\ Sound(c, buffer[c % SectorCells])
             /\ c \notin Dead(job) => buffer[c % SectorCells] = Target[c]

\* While clearFS erases: the list is at most its first cell where it is whole
\* up to the next sector.
Clearing ==
    LET start == job.sector * SectorCells
    IN  /\ job.sector \in 0 .. Sectors - 1 /\ Good(flash, intact)
        /\ job.sector > 0 => /\ intact <= start
                             /\ intact = start => \A c \in Cells : c < start => flash[c] = Erased

\* job has a sector at all times, so that EXCEPT changes it.
Inv ==
    /\ buffer \in [0 .. SectorCells - 1 -> Cell] /\ intact \in Cells \cup {Wild}
    /\ seen = [f \in Names |-> seen[f]] /\ "sector" \in DOMAIN job
    /\ at \in {"idle", "clear"} \cup AppendPlaces \cup RewritePlaces
    /\ at = "idle" => Good(flash, intact)
    /\ at = "clear" => Clearing
    /\ at \in AppendPlaces \cup RewritePlaces =>
          JobOK(job) /\ seen[job.header.name] = Absent /\ AllThere
    /\ at \in AppendPlaces => Appending
    /\ at \in RewritePlaces => Rewriting

-----------------------------------------------------------------------------
(***************************************************************************)
(* Cells and sectors.                                                      *)
(***************************************************************************)
LEMMA SizesOf ==
    /\ SectorCells \in Nat \ {0} /\ Sectors \in Nat \ {0}
    /\ \A s \in Sizes \cup {0} : s \in Nat
BY FileSystemAssumption

LEMMA LastIs == Last \in Nat /\ Wild = Last + 1 /\ Nil = Last + 2 /\ Cells = 0 .. Last
<1>1. Sectors * SectorCells \in Nat \ {0}
  BY SizesOf
<1>2. QED BY <1>1 DEF Last, Wild, Nil, Cells

\* A cell is the one at its place in its sector.
LEMMA Divided ==
    ASSUME NEW c \in Cells
    PROVE  /\ SectorOf(c) \in 0 .. Sectors - 1
           /\ c % SectorCells \in 0 .. SectorCells - 1
           /\ c = SectorOf(c) * SectorCells + (c % SectorCells)
<1>1. c \in Nat /\ c <= Sectors * SectorCells - 1 /\ SectorCells \in Nat \ {0} /\ Sectors \in Nat
  BY SizesOf, LastIs DEF Last
<1>2. QED BY <1>1 DEF SectorOf

LEMMA InSector ==
    ASSUME NEW s \in 0 .. Sectors - 1, NEW i \in 0 .. SectorCells - 1
    PROVE  /\ s * SectorCells + i \in Cells
           /\ SectorOf(s * SectorCells + i) = s
           /\ (s * SectorCells + i) % SectorCells = i
<1>1. s \in Nat /\ i \in Nat /\ i < SectorCells /\ SectorCells \in Nat \ {0} /\ Sectors \in Nat
  BY SizesOf
<1>2. QED BY <1>1, LastIs DEF SectorOf, Last

LEMMA SectorsInOrder ==
    ASSUME NEW c \in Cells, NEW d \in Cells, c <= d
    PROVE  SectorOf(c) <= SectorOf(d)
BY SizesOf, LastIs DEF SectorOf

-----------------------------------------------------------------------------
\* From p on along nx, as long as the way leads through go.
Closed(S, go, nx, T) == T \subseteq S /\ \A c \in T : c \in go => nx[c] \in T
Reach(S, go, nx, p)  == {q \in S : \A T \in SUBSET S : Closed(S, go, nx, T) /\ p \in T => q \in T}

LEMMA ReachStep ==
    ASSUME NEW S, NEW go, NEW nx, \A c \in S : c \in go => nx[c] \in S,
           NEW p \in S
    PROVE  Reach(S, go, nx, p) = IF p \in go THEN {p} \cup Reach(S, go, nx, nx[p]) ELSE {p}
<1>1. p \in Reach(S, go, nx, p)
  BY DEF Reach
<1>2. CASE p \notin go
  <2>1. Closed(S, go, nx, {p})
    BY <1>2 DEF Closed
  <2>2. Reach(S, go, nx, p) \subseteq {p}
    BY <2>1 DEF Reach
  <2>3. QED BY <1>1, <1>2, <2>2
<1>3. CASE p \in go
  <2>1. nx[p] \in S
    BY <1>3
  <2>2. ASSUME NEW q \in Reach(S, go, nx, nx[p])
        PROVE  q \in Reach(S, go, nx, p)
    BY <1>3, <2>2 DEF Reach, Closed
  <2>3. ASSUME NEW q \in Reach(S, go, nx, p), q # p
        PROVE  q \in Reach(S, go, nx, nx[p])
    <3>1. q \in S
      BY <2>3 DEF Reach
    <3>2. ASSUME NEW T \in SUBSET S, Closed(S, go, nx, T), nx[p] \in T
          PROVE  q \in T
      <4>1. Closed(S, go, nx, T \cup {p}) /\ p \in T \cup {p} /\ T \cup {p} \in SUBSET S
        BY <3>2 DEF Closed
      <4>2. q \in T \cup {p}
        BY <2>3, <4>1 DEF Reach
      <4>3. QED BY <2>3, <4>2
    <3>3. QED BY <3>1, <3>2 DEF Reach
  <2>4. QED BY <1>1, <1>3, <2>2, <2>3
<1>4. QED BY <1>2, <1>3

\* A function that looks on along the way is one.
Following(f, S, go, nx, val) == f = [p \in S |-> IF p \in go THEN f[nx[p]] ELSE val[p]]
LEMMA Follows ==
    ASSUME NEW S, NEW go, NEW nx, NEW val, \A c \in S : c \in go => nx[c] \in S
    PROVE  \E f : Following(f, S, go, nx, val)
<1> DEFINE R(p) == Reach(S, go, nx, p)
           E(p) == {q \in R(p) : q \notin go}
           f == [p \in S |-> val[CHOOSE q \in S : q \in E(p)]]
<1>1. ASSUME NEW p \in S PROVE E(p) = IF p \in go THEN E(nx[p]) ELSE {p}
  BY ReachStep
<1>2. ASSUME NEW p \in S, p \in go PROVE f[p] = f[nx[p]]
  <2>1. E(p) = E(nx[p]) /\ nx[p] \in S
    BY <1>1, <1>2
  <2> HIDE DEF E
  <2>2. QED BY <2>1
<1>3. ASSUME NEW p \in S, p \notin go PROVE f[p] = val[p]
  <2>1. E(p) = {p}
    BY <1>1, <1>3
  <2> HIDE DEF E
  <2>2. (CHOOSE q \in S : q \in E(p)) = p
    BY <2>1
  <2>3. QED BY <2>2
<1>4. f = [p \in S |-> f[p]]
  OBVIOUS
<1> HIDE DEF f
<1>5. f = [p \in S |-> IF p \in go THEN f[nx[p]] ELSE val[p]]
  BY <1>2, <1>3, <1>4
<1>6. QED BY <1>5 DEF Following

\* So is one that gathers what there is on the way.
Gathering(f, S, go, nx, own) ==
    f = [p \in S |-> IF p \in go THEN own[p] \cup f[nx[p]] ELSE {}]
LEMMA Gathers ==
    ASSUME NEW S, NEW go, NEW nx, NEW own, \A c \in S : c \in go => nx[c] \in S
    PROVE  \E f : Gathering(f, S, go, nx, own)
<1> DEFINE R(p) == Reach(S, go, nx, p)
           f == [p \in S |-> UNION {own[q] : q \in R(p) \cap go}]
<1>1. ASSUME NEW p \in S, p \notin go PROVE f[p] = {}
  <2>1. R(p) = {p}
    BY <1>1, ReachStep
  <2>2. R(p) \cap go = {}
    BY <1>1, <2>1
  <2> HIDE DEF R
  <2>3. QED BY <2>2
<1>2. ASSUME NEW p \in S, p \in go PROVE f[p] = own[p] \cup f[nx[p]]
  <2>1. R(p) = {p} \cup R(nx[p]) /\ nx[p] \in S
    BY <1>2, ReachStep
  <2> HIDE DEF R
  <2>2. f[p] = UNION {own[q] : q \in ({p} \cup R(nx[p])) \cap go}
    BY <2>1
  <2>3. f[nx[p]] = UNION {own[q] : q \in R(nx[p]) \cap go}
    BY <2>1
  <2>4. UNION {own[q] : q \in ({p} \cup R(nx[p])) \cap go}
          = own[p] \cup UNION {own[q] : q \in R(nx[p]) \cap go}
    BY <1>2
  <2>5. QED BY <2>2, <2>3, <2>4
<1>3. f = [p \in S |-> f[p]]
  OBVIOUS
<1> HIDE DEF f
<1>4. f = [p \in S |-> IF p \in go THEN own[p] \cup f[nx[p]] ELSE {}]
  BY <1>1, <1>2, <1>3
<1>5. QED BY <1>4 DEF Gathering

-----------------------------------------------------------------------------
\* What holds of an address when it holds of all that are higher, holds.
LEMMA Downwards ==
    ASSUME NEW T,
           \A a \in Address : (\A b \in Address : b > a => b \in T) => a \in T
    PROVE  Address \subseteq T
<1> DEFINE R == OpToRel(<, Nat)
           K == {k \in Nat : Nil - k \in Address \ T}
<1>1. IsWellFoundedOn(R, Nat)
  BY NatLessThanWellFounded DEF OpToRel
<1>2. Nil \in Nat /\ \A a \in Address : a \in Nat /\ a <= Nil
  BY LastIs DEF Address
<1>3. K \subseteq Nat
  OBVIOUS
<1>4. SUFFICES K = {}
  <2>1. ASSUME NEW a \in Address, a \notin T PROVE FALSE
    <3>1. Nil - a \in Nat /\ Nil - (Nil - a) = a
      BY <1>2
    <3>2. Nil - a \in K
      BY <2>1, <3>1
    <3>3. QED BY <1>4, <3>2
  <2>2. QED BY <2>1
<1>5. SUFFICES ASSUME K # {} PROVE FALSE
  OBVIOUS
<1> HIDE DEF K, R
<1>6. PICK k \in K : \A j \in K : ~(<<j, k>> \in R)
  BY <1>1, <1>3, <1>5, WFMin
<1> DEFINE a == Nil - k
<1>7. a \in Address /\ a \notin T /\ k \in Nat /\ a \in Nat /\ k = Nil - a
  BY <1>2, <1>6 DEF K
<1>8. ASSUME NEW b \in Address, b > a PROVE b \in T
  <2>1. Nil - b \in Nat /\ Nil - (Nil - b) = b /\ Nil - b < k
    BY <1>2, <1>7, <1>8
  <2>2. <<Nil - b, k>> \in R
    BY <1>7, <2>1 DEF R, OpToRel
  <2>3. Nil - b \notin K
    BY <1>6, <2>2
  <2>4. QED BY <1>8, <2>1, <2>3 DEF K
<1>9. QED BY <1>7, <1>8

Upward(fl) == /\ fl \in [Cells -> Cell]
              /\ \A c \in Cells : fl[c].next > c

\* The list of fl: the smallest set that has the first address and is closed.
IsList(fl, L) ==
    /\ L \subseteq {c \in Cells : c < Last}
    /\ 0 < Last => 0 \in L
    /\ \A c \in L : fl[c].next < Last => fl[c].next \in L
    /\ \A T \in SUBSET Cells :
          /\ 0 < Last => 0 \in T
          /\ \A c \in L : c \in T => (fl[c].next < Last => fl[c].next \in T)
          => L \subseteq T

LEMMA NextAddress ==
    ASSUME NEW fl \in [Cells -> Cell], NEW c \in Cells
    PROVE  /\ fl[c].next \in Address /\ fl[c].next \in Nat
           /\ fl[c].next < Last => fl[c].next \in Cells
BY LastIs DEF Cell, Address

LEMMA ListIs ==
    ASSUME NEW fl, Upward(fl)
    PROVE  IsList(fl, InList(fl))
<1> DEFINE S  == Address
           go == {a \in Address : a < Last}
           nx == [a \in go |-> fl[a].next]
           own == [a \in S |-> {a}]
           F(f) == f = [a \in Cells \cup {Wild, Nil} |->
                           IF a < Last THEN {a} \cup f[fl[a].next] ELSE {}]
<1>1. \A c \in go : c \in Cells /\ c \in Nat /\ nx[c] \in S /\ nx[c] = fl[c].next /\ nx[c] > c
  BY LastIs, NextAddress DEF Address, Upward
<1>2. \E f : F(f)
  <2>1. PICK f : Gathering(f, S, go, nx, own)
    <3>1. \A c \in S : c \in go => nx[c] \in S
      BY <1>1
    <3> HIDE DEF S, go, nx, own
    <3>2. QED BY <3>1, Gathers
  <2>2. ASSUME NEW a \in S
        PROVE  (IF a \in go THEN own[a] \cup f[nx[a]] ELSE {})
                 = (IF a < Last THEN {a} \cup f[fl[a].next] ELSE {})
    BY <1>1, <2>2
  <2>3. F(f)
    <3> HIDE DEF nx, go, own
    <3>1. [a \in S |-> IF a \in go THEN own[a] \cup f[nx[a]] ELSE {}]
            = [a \in S |-> IF a < Last THEN {a} \cup f[fl[a].next] ELSE {}]
      BY <2>2
    <3>2. f = [a \in S |-> IF a < Last THEN {a} \cup f[fl[a].next] ELSE {}]
      BY <2>1, <3>1 DEF Gathering
    <3>3. QED BY <3>2 DEF Address
  <2>4. QED BY <2>3
<1> DEFINE f == CHOOSE f : F(f)
<1>3. F(f)
  BY <1>2
<1>4. InList(fl) = f[0]
  BY DEF InList
<1> HIDE DEF f
<1>5. /\ \A a \in S : a \in go => f[a] = {a} \cup f[nx[a]]
      /\ \A a \in S : a \notin go => f[a] = {}
  BY <1>1, <1>3 DEF Address
<1> HIDE DEF F
<1> DEFINE R(a) == Reach(S, go, nx, a) \cap go
<1>6. \A a \in S : f[a] = R(a)
  <2> DEFINE T == {a \in S : f[a] = R(a)}
  <2>1. ASSUME NEW a \in Address, \A b \in Address : b > a => b \in T
        PROVE  a \in T
    <3> HIDE DEF go, nx
    <3>1. Reach(S, go, nx, a) = IF a \in go THEN {a} \cup Reach(S, go, nx, nx[a]) ELSE {a}
      BY <1>1, ReachStep
    <3>2. CASE a \in go
      <4>1. nx[a] \in S /\ f[nx[a]] = R(nx[a])
        BY <1>1, <2>1, <3>2
      <4>2. QED BY <1>5, <3>1, <3>2, <4>1
    <3>3. CASE a \notin go
      BY <1>5, <3>1, <3>3
    <3>4. QED BY <3>2, <3>3
  <2> HIDE DEF T
  <2>2. Address \subseteq T
    BY <2>1, Downwards
  <2>3. QED BY <2>2 DEF T
<1> DEFINE L == R(0)
<1>7. 0 \in S /\ InList(fl) = L
  <2>1. 0 \in S
    BY LastIs DEF Address
  <2> HIDE DEF S, R
  <2>2. QED BY <1>4, <1>6, <2>1
<1>8. L \subseteq go /\ \A c \in go : c \in Cells /\ c < Last
  BY <1>1
<1>9. 0 < Last => 0 \in L
  BY <1>7 DEF Reach
<1>10. ASSUME NEW c \in L, fl[c].next < Last PROVE fl[c].next \in L
  <2>1. nx[c] \in go /\ c \in go /\ nx[c] = fl[c].next
    BY <1>1, <1>10
  <2>2. nx[c] \in Reach(S, go, nx, 0)
    <3> HIDE DEF go, nx
    <3>1. QED BY <1>1, <1>10, <2>1 DEF Reach, Closed
  <2>3. QED BY <2>1, <2>2
<1>11. ASSUME NEW T \in SUBSET Cells, 0 < Last => 0 \in T,
              \A c \in L : c \in T => (fl[c].next < Last => fl[c].next \in T)
       PROVE  L \subseteq T
  <2> DEFINE U == {x \in S : x \in go => x \in L /\ x \in T}
  <2>1. 0 \in U
    BY <1>7, <1>9, <1>11
  <2>2. Closed(S, go, nx, U)
    <3>1. ASSUME NEW c \in U, c \in go PROVE nx[c] \in U
      <4>1. c \in L /\ c \in T /\ nx[c] = fl[c].next /\ nx[c] \in S
        BY <1>1, <3>1
      <4>2. nx[c] \in go => nx[c] \in L /\ nx[c] \in T
        <5>1. nx[c] \in go => fl[c].next < Last
          BY <4>1
        <5> HIDE DEF L, go, nx
        <5>2. QED BY <1>10, <1>11, <4>1, <5>1
      <4>3. QED BY <4>1, <4>2
    <3> HIDE DEF go, nx
    <3>2. QED BY <3>1 DEF Closed
  <2> HIDE DEF U
  <2>3. U \in SUBSET S
    BY <2>2 DEF Closed
  <2>4. Reach(S, go, nx, 0) \subseteq U
    BY <2>1, <2>2, <2>3 DEF Reach
  <2>5. QED BY <2>4 DEF U
<1> HIDE DEF L, go
<1>12. QED BY <1>7, <1>8, <1>9, <1>10, <1>11 DEF IsList

LEMMA OneList ==
    ASSUME NEW fl, NEW L, NEW M, IsList(fl, L), IsList(fl, M)
    PROVE  L \subseteq M
<1>1. M \in SUBSET Cells /\ L \in SUBSET Cells
  BY DEF IsList
<1>2. \A c \in L : c \in M => (fl[c].next < Last => fl[c].next \in M)
  BY DEF IsList
<1>3. QED BY <1>1, <1>2 DEF IsList

\* Where a header is changed but not its next, the list stays the same.
LEMMA SameList ==
    ASSUME NEW fl, NEW gl, Upward(fl), Upward(gl),
           \A c \in InList(fl) :
              gl[c].next = fl[c].next \/ (fl[c].next >= Last /\ gl[c].next >= Last)
    PROVE  InList(gl) = InList(fl)
<1> DEFINE L == InList(fl)
<1>1. IsList(fl, L) /\ IsList(gl, InList(gl))
  BY ListIs
<1> HIDE DEF L
<1>2. \A c \in L : /\ c \in Cells /\ fl[c].next \in Nat /\ gl[c].next \in Nat
                   /\ fl[c].next < Last <=> gl[c].next < Last
                   /\ fl[c].next < Last => fl[c].next = gl[c].next
  <2>1. \A c \in L : c \in Cells
    BY <1>1 DEF IsList
  <2>2. \A c \in L : fl[c].next \in Nat /\ gl[c].next \in Nat
    BY <2>1, NextAddress DEF Upward
  <2>3. QED BY <2>1, <2>2, LastIs DEF L
<1>3. IsList(gl, L)
  <2>1. L \subseteq {c \in Cells : c < Last} /\ (0 < Last => 0 \in L)
    BY <1>1 DEF IsList
  <2>2. \A c \in L : gl[c].next < Last => gl[c].next \in L
    BY <1>1, <1>2 DEF IsList
  <2>3. ASSUME NEW T \in SUBSET Cells, 0 < Last => 0 \in T,
               \A c \in L : c \in T => (gl[c].next < Last => gl[c].next \in T)
        PROVE  L \subseteq T
    <3>1. \A c \in L : c \in T => (fl[c].next < Last => fl[c].next \in T)
      BY <1>2, <2>3
    <3>2. QED BY <1>1, <2>3, <3>1 DEF IsList
  <2>4. QED BY <2>1, <2>2, <2>3 DEF IsList
<1>4. QED BY <1>1, <1>3, OneList DEF L

\* Between a header and its next there is none.
LEMMA Chain ==
    ASSUME NEW fl, Upward(fl), NEW a \in InList(fl), NEW b \in InList(fl), a < b
    PROVE  fl[a].next <= b
<1> DEFINE L == InList(fl)
           Front(c) == \A x \in L : x < c => fl[x].next <= c
           Behind(c)  == \A x \in L : x > c => x >= fl[c].next
           T == {c \in Cells : Front(c)}
<1>1. IsList(fl, L)
  BY ListIs
<1> HIDE DEF L
<1>2. \A c \in L : /\ c \in Cells /\ c \in Nat /\ c < Last /\ fl[c].next \in Nat /\ fl[c].next > c
                   /\ fl[c].next < Last => fl[c].next \in L
  BY <1>1, LastIs, NextAddress DEF IsList, Upward
<1>3. ASSUME NEW c \in L, Front(c) PROVE Behind(c)
  <2> DEFINE U == {x \in Cells : x <= c \/ x >= fl[c].next}
  <2>1. U \in SUBSET Cells /\ (0 < Last => 0 \in U)
    BY <1>2, LastIs
  <2>2. ASSUME NEW x \in L, x \in U, fl[x].next < Last
        PROVE  fl[x].next \in U
    <3>1. fl[x].next \in Cells
      BY <1>2, <2>2
    <3>2. CASE x < c
      BY <1>2, <1>3, <3>1, <3>2
    <3>3. CASE x = c
      BY <1>2, <3>1, <3>3
    <3>4. CASE x >= fl[c].next
      BY <1>2, <3>1, <3>4
    <3>5. QED BY <1>2, <2>2, <3>2, <3>3, <3>4
  <2>3. L \subseteq U
    <3> HIDE DEF U
    <3>1. QED BY <1>1, <2>1, <2>2 DEF IsList
  <2>4. QED BY <1>2, <2>3
<1>4. T \in SUBSET Cells /\ (0 < Last => 0 \in T)
  BY <1>2, LastIs
<1>5. ASSUME NEW c \in L, c \in T, fl[c].next < Last
      PROVE  fl[c].next \in T
  <2>1. Front(c) /\ Behind(c)
    BY <1>3, <1>5
  <2>2. ASSUME NEW x \in L, x < fl[c].next PROVE fl[x].next <= fl[c].next
    BY <1>2, <2>1, <2>2
  <2>3. QED BY <1>2, <1>5, <2>2
<1>6. L \subseteq T
  <2> HIDE DEF T
  <2>1. QED BY <1>1, <1>4, <1>5 DEF IsList
<1>7. QED BY <1>6 DEF L

-----------------------------------------------------------------------------
(***************************************************************************)
(* Files in a flash that is as it should be.                               *)
(***************************************************************************)
LEMMA ImageIs ==
    ASSUME NEW fl, Image(fl)
    PROVE  /\ Upward(fl) /\ IsList(fl, InList(fl))
           /\ \A a \in InList(fl) :
                 /\ a \in Cells /\ a \in Nat /\ a < Last
                 /\ fl[a].next \in Nat /\ fl[a].next > a /\ fl[a].next # Last
                 /\ fl[a].next < Last => fl[a].next \in InList(fl)
<1>1. Upward(fl)
  BY DEF Image, Sound, Upward
<1>2. IsList(fl, InList(fl))
  BY <1>1, ListIs
<1>3. \A a \in InList(fl) : a \in Cells /\ a \in Nat /\ a < Last
  BY <1>2, LastIs DEF IsList
<1>4. \A a \in InList(fl) : fl[a].next \in Nat
  BY <1>1, <1>3, NextAddress DEF Upward
<1>5. QED BY <1>1, <1>2, <1>3, <1>4 DEF Image, Sound, IsList

FileAt(fl, a) == [start |-> a, data |-> [i \in 1 .. fl[a].size |-> fl[a + i].name]]

\* A set of numbers has a smallest.
LEMMA Lowest ==
    ASSUME NEW S \in SUBSET Nat, S # {}
    PROVE  \E a \in S : \A b \in S : a <= b
<1> DEFINE R == OpToRel(<, Nat)
<1>1. IsWellFoundedOn(R, Nat)
  BY NatLessThanWellFounded DEF OpToRel
<1> HIDE DEF R
<1>2. PICK a \in S : \A b \in S : ~(<<b, a>> \in R)
  BY <1>1, WFMin
<1>3. ASSUME NEW b \in S PROVE a <= b
  <2>1. a \in Nat /\ b \in Nat
    OBVIOUS
  <2>2. ~(b < a)
    BY <1>2, <2>1 DEF R, OpToRel
  <2>3. QED BY <2>1, <2>2
<1>4. QED BY <1>3

LEMMA Listed ==
    ASSUME NEW fl, Image(fl), NEW f \in Names
    PROVE  /\ Named(fl, f) = {} => Listing(fl)[f] = Absent
           /\ Named(fl, f) # {} => /\ getAddress(fl, f) \in Named(fl, f)
                                   /\ \A b \in Named(fl, f) : getAddress(fl, f) <= b
                                   /\ Listing(fl)[f] = FileAt(fl, getAddress(fl, f))
<1>1. Named(fl, f) \in SUBSET Nat
  BY ImageIs DEF Named
<1>2. Named(fl, f) = {} => Listing(fl)[f] = Absent
  BY DEF Listing
<1>3. ASSUME Named(fl, f) # {}
      PROVE  /\ getAddress(fl, f) \in Named(fl, f)
             /\ \A b \in Named(fl, f) : getAddress(fl, f) <= b
             /\ Listing(fl)[f] = FileAt(fl, getAddress(fl, f))
  <2>1. \E a \in Named(fl, f) : \A b \in Named(fl, f) : a <= b
    BY <1>1, <1>3, Lowest
  <2>2. /\ getAddress(fl, f) \in Named(fl, f)
        /\ \A b \in Named(fl, f) : getAddress(fl, f) <= b
    BY <2>1 DEF getAddress
  <2>3. QED BY <1>3, <2>2 DEF Listing, FileAt
<1>4. QED BY <1>2, <1>3

\* A file ends before the next header.
LEMMA FileInside ==
    ASSUME NEW fl, Image(fl), NEW a \in InList(fl), fl[a].name \in Names
    PROVE  /\ fl[a].size \in Nat /\ fl[a].next < Last /\ fl[a].next \in InList(fl)
           /\ \A i \in 1 .. fl[a].size :
                 a + i \in Cells /\ a + i < fl[a].next /\ a + i \notin InList(fl)
<1>1. a \in Nat /\ a \in Cells /\ Sound(a, fl[a]) /\ fl[a].next \in Nat
  BY ImageIs DEF Image
<1>2. /\ fl[a].size \in Nat /\ fl[a].next < Last /\ fl[a].next \in InList(fl)
      /\ fl[a].next >= a + fl[a].size + 2
  <2>1. fl[a].size \in Nat
    <3>1. fl[a] \in Cell
      BY <1>1 DEF Sound
    <3>2. fl[a].size \in Sizes \cup {0}
      BY <3>1 DEF Cell
    <3>3. QED BY <3>2, SizesOf
  <2>2. fl[a].next < Last /\ fl[a].next >= a + fl[a].size + 2
    BY <1>1 DEF Sound
  <2>3. QED BY <2>1, <2>2, ImageIs
<1>3. \A i \in 1 .. fl[a].size : i \in Nat /\ a + i > a /\ a + i \in Cells /\ a + i < fl[a].next
  BY <1>1, <1>2, LastIs
<1>4. ASSUME NEW i \in 1 .. fl[a].size, a + i \in InList(fl) PROVE FALSE
  <2>1. fl[a].next <= a + i
    BY <1>3, <1>4, Chain, ImageIs
  <2>2. QED BY <1>1, <1>3, <2>1
<1>5. QED BY <1>2, <1>3, <1>4

\* No place belongs to two files.
LEMMA FilesApart ==
    ASSUME NEW fl, Image(fl), NEW a \in InList(fl), NEW b \in InList(fl), a # b,
           fl[a].name \in Names, fl[b].name \in Names,
           NEW i \in 0 .. fl[a].size, NEW j \in 0 .. fl[b].size
    PROVE  a + i # b + j
<1>1. /\ a \in Nat /\ b \in Nat /\ i \in Nat /\ j \in Nat
      /\ fl[a].next \in Nat /\ fl[b].next \in Nat
  BY ImageIs, FileInside
<1>2. a + i < fl[a].next /\ b + j < fl[b].next
  BY <1>1, ImageIs, FileInside
<1>3. a < b => fl[a].next <= b
  BY ImageIs, Chain
<1>4. b < a => fl[b].next <= a
  BY ImageIs, Chain
<1>5. QED BY <1>1, <1>2, <1>3, <1>4

\* A file is not nothing.
LEMMA FileIsFile ==
    ASSUME NEW fl, Image(fl), NEW a \in InList(fl), fl[a].name \in Names
    PROVE  /\ FileAt(fl, a) # Absent
           /\ FileAt(fl, a).start = a /\ Len(FileAt(fl, a).data) = fl[a].size
           /\ a \in Nat /\ fl[a].size \in Nat
<1> DEFINE n == fl[a].size
           d == [i \in 1 .. n |-> fl[a + i].name]
<1>1. n \in Nat /\ a \in Nat /\ a \in Cells /\ \A i \in 1 .. n : a + i \in Cells
  BY FileInside, ImageIs
<1>2. \A c \in Cells : fl[c].name \in Names \cup Contents
  BY DEF Image, Sound, Cell
<1> HIDE DEF n
<1>3. d \in Seq(Names \cup Contents) /\ Len(d) = n
  BY <1>1, <1>2
<1> HIDE DEF d
<1>4. [start |-> a, data |-> d] \in [start : Cells, data : Seq(Names \cup Contents)]
  BY <1>1, <1>3
<1>5. QED BY <1>1, <1>3, <1>4, AbsenceAssumption DEF FileAt, d, n

\* What is listed is a file, and ends somewhere.
LEMMA ListedIsFile ==
    ASSUME NEW fl, Image(fl), NEW f \in Names, Listing(fl)[f] # Absent
    PROVE  /\ Listing(fl)[f].start \in Nat /\ Len(Listing(fl)[f].data) \in Nat
           /\ \E a \in InList(fl) : fl[a].name = f /\ Listing(fl)[f] = FileAt(fl, a)
<1> DEFINE a == getAddress(fl, f)
<1>1. a \in Named(fl, f) /\ Listing(fl)[f] = FileAt(fl, a)
  BY Listed
<1> HIDE DEF a
<1>2. a \in InList(fl) /\ fl[a].name = f
  BY <1>1 DEF Named
<1>3. QED BY <1>1, <1>2, FileIsFile

\* The file before p of this name, where the list is whole before p.
LEMMA Shown ==
    ASSUME NEW fl, NEW p \in Nat, Good(fl, p), NEW f \in Names
    PROVE  /\ (\A a \in InList(fl) : a < p => fl[a].name # f) => Before(p, Listing(fl))[f] = Absent
           /\ \A a \in InList(fl) : a < p /\ fl[a].name = f =>
                 /\ getAddress(fl, f) = a
                 /\ Before(p, Listing(fl))[f]
                      = IF a + fl[a].size < p THEN FileAt(fl, a) ELSE Absent
<1>1. Image(fl)
  BY DEF Good
<1> DEFINE F == Listing(fl)[f]
<1>2. Before(p, Listing(fl))[f]
        = IF F # Absent /\ F.start + Len(F.data) < p THEN F ELSE Absent
  BY DEF Before
<1>3. ASSUME NEW a \in InList(fl), fl[a].name = f, F = FileAt(fl, a)
       PROVE  /\ F # Absent /\ F.start = a /\ Len(F.data) = fl[a].size
              /\ a \in Nat /\ fl[a].size \in Nat
  BY <1>1, <1>3, FileIsFile
<1>4. ASSUME \A a \in InList(fl) : a < p => fl[a].name # f, F # Absent
      PROVE  ~(F.start + Len(F.data) < p)
  <2>1. PICK a \in InList(fl) : fl[a].name = f /\ F = FileAt(fl, a)
    BY <1>1, <1>4, ListedIsFile
  <2>2. F.start = a /\ Len(F.data) = fl[a].size /\ a \in Nat /\ fl[a].size \in Nat
    BY <1>3, <2>1
  <2>3. ~(a < p)
    BY <1>4, <2>1
  <2> HIDE DEF F
  <2>4. QED BY <2>2, <2>3
<1>5. ASSUME NEW a \in InList(fl), a < p, fl[a].name = f
      PROVE  getAddress(fl, f) = a
  <2> DEFINE m == getAddress(fl, f)
  <2>1. a \in Named(fl, f)
    BY <1>5 DEF Named
  <2>2. m \in Named(fl, f) /\ m <= a
    BY <1>1, <2>1, Listed
  <2> HIDE DEF m
  <2>3. m \in InList(fl) /\ fl[m].name = f /\ m \in Nat /\ a \in Nat
    BY <1>1, <2>2, ImageIs DEF Named
  <2>4. m < p
    BY <1>5, <2>2, <2>3
  <2>5. m = a
    BY <1>5, <2>3, <2>4 DEF Good
  <2>6. QED BY <2>5 DEF m
<1>6. ASSUME NEW a \in InList(fl), a < p, fl[a].name = f
      PROVE  Before(p, Listing(fl))[f] = IF a + fl[a].size < p THEN FileAt(fl, a) ELSE Absent
  <2>1. a \in Named(fl, f)
    BY <1>6 DEF Named
  <2>2. F = FileAt(fl, a)
    BY <1>1, <1>5, <1>6, <2>1, Listed
  <2>3. F # Absent /\ F.start = a /\ Len(F.data) = fl[a].size
    BY <1>3, <1>6, <2>2
  <2> HIDE DEF F
  <2>4. QED BY <1>2, <2>2, <2>3
<1> HIDE DEF F
<1>7. QED BY <1>2, <1>4, <1>5, <1>6

LEMMA BeforeIs ==
    ASSUME NEW p, NEW F
    PROVE  Before(p, F) = [f \in Names |-> Before(p, F)[f]]
BY DEF Before

\* A file that two flashes have at the same place.
LEMMA SameFile ==
    ASSUME NEW fl, NEW gl, NEW p \in Nat, Good(fl, p), Good(gl, p), NEW g \in Names,
           \A a \in InList(gl) : a < p /\ gl[a].name = g => a \in InList(fl) /\ fl[a].name = g,
           \A a \in InList(fl) : a < p /\ fl[a].name = g =>
              /\ a \in InList(gl) /\ gl[a].name = g /\ gl[a].size = fl[a].size
              /\ a + fl[a].size < p =>
                    \A i \in 1 .. fl[a].size : gl[a + i].name = fl[a + i].name
    PROVE  Before(p, Listing(gl))[g] = Before(p, Listing(fl))[g]
<1>1. CASE \A a \in InList(fl) : a < p => fl[a].name # g
  <2>1. \A a \in InList(gl) : a < p => gl[a].name # g
    BY <1>1
  <2>2. QED BY <1>1, <2>1, Shown
<1>2. ASSUME NEW a \in InList(fl), a < p, fl[a].name = g
      PROVE  Before(p, Listing(gl))[g] = Before(p, Listing(fl))[g]
  <2>1. a \in InList(gl) /\ gl[a].name = g /\ gl[a].size = fl[a].size
    BY <1>2
  <2>2. Before(p, Listing(fl))[g] = IF a + fl[a].size < p THEN FileAt(fl, a) ELSE Absent
    BY <1>2, Shown
  <2>3. Before(p, Listing(gl))[g] = IF a + gl[a].size < p THEN FileAt(gl, a) ELSE Absent
    BY <1>2, <2>1, Shown
  <2>4. a + fl[a].size < p => FileAt(gl, a) = FileAt(fl, a)
    BY <1>2, <2>1 DEF FileAt
  <2>5. QED BY <2>1, <2>2, <2>3, <2>4
<1>3. QED BY <1>1, <1>2

\* The newest header is the last in the list.
LEMMA NewestIsLast ==
    ASSUME NEW fl, Image(fl), NEW a \in InList(fl), fl[a].next = Nil, NEW b \in InList(fl)
    PROVE  b <= a
<1>1. a \in Nat /\ b \in Nat /\ b < Last
  BY ImageIs
<1>2. a < b => Nil <= b
  BY ImageIs, Chain
<1>3. QED BY <1>1, <1>2, LastIs

\* What is before an address decides what is in the list up to it.
LEMMA Prefix ==
    ASSUME NEW fl, NEW gl, Image(fl), Image(gl), NEW q \in Nat,
           \A c \in Cells : c < q => gl[c] = fl[c],
           NEW a \in InList(fl), a <= q
    PROVE  a \in InList(gl)
<1> DEFINE T == {c \in Cells : c \in InList(gl) \/ c > q}
<1>1. IsList(fl, InList(fl)) /\ IsList(gl, InList(gl))
  BY ImageIs
<1>2. \A c \in InList(gl) : c \in Cells /\ (gl[c].next < Last => gl[c].next \in InList(gl))
  BY ImageIs
<1>3. T \in SUBSET Cells /\ (0 < Last => 0 \in T)
  BY <1>1, LastIs DEF IsList
<1>4. ASSUME NEW c \in InList(fl), c \in T, fl[c].next < Last
      PROVE  fl[c].next \in T
  <2>1. /\ c \in Cells /\ c \in Nat /\ fl[c].next \in Nat /\ fl[c].next > c
        /\ fl[c].next \in InList(fl) /\ fl[c].next \in Cells
    BY <1>4, ImageIs
  <2>2. CASE c < q
    <3>1. c \in InList(gl) /\ gl[c] = fl[c]
      BY <1>4, <2>1, <2>2
    <3>2. QED BY <1>2, <1>4, <2>1, <3>1
  <2>3. CASE c >= q
    BY <2>1, <2>3
  <2>4. QED BY <2>1, <2>2, <2>3
<1>5. InList(fl) \subseteq T
  <2> HIDE DEF T
  <2>1. QED BY <1>1, <1>3, <1>4 DEF IsList
<1>6. a \in Nat
  BY ImageIs
<1>7. QED BY <1>5, <1>6

\* And what files are before it.
LEMMA PrefixGood ==
    ASSUME NEW fl, NEW gl, NEW q \in Nat, Good(fl, q), Image(gl),
           \A c \in Cells : c < q => gl[c] = fl[c]
    PROVE  Good(gl, q) /\ Before(q, Listing(gl)) = Before(q, Listing(fl))
<1>1. Image(fl) /\ Image(gl)
  BY DEF Good
<1>2. \A a \in InList(fl) : a < q => a \in InList(gl) /\ gl[a] = fl[a]
  <2>1. ASSUME NEW a \in InList(fl), a < q PROVE a \in InList(gl) /\ gl[a] = fl[a]
    <3>1. a \in Cells /\ a \in Nat /\ a <= q
      BY <1>1, <2>1, ImageIs
    <3>2. QED BY <1>1, <2>1, <3>1, Prefix
  <2>2. QED BY <2>1
<1>3. \A a \in InList(gl) : a < q => a \in InList(fl) /\ gl[a] = fl[a]
  <2>1. ASSUME NEW a \in InList(gl), a < q PROVE a \in InList(fl) /\ gl[a] = fl[a]
    <3>1. a \in Cells /\ a \in Nat /\ a <= q
      BY <1>1, <2>1, ImageIs
    <3>2. \A c \in Cells : c < q => fl[c] = gl[c]
      OBVIOUS
    <3>3. QED BY <1>1, <2>1, <3>1, <3>2, Prefix
  <2>2. QED BY <2>1
<1>4. Good(gl, q)
  <2>1. ASSUME NEW a \in InList(gl), NEW b \in InList(gl), a < q, b < q,
               gl[a].name = gl[b].name, gl[a].name \in Names
        PROVE  a = b
    BY <1>3, <2>1 DEF Good
  <2>2. ASSUME NEW a \in InList(gl), a < q, gl[a].next = Nil, NEW c \in Cells, a <= c, c < q
        PROVE  gl[c] = Erased
    BY <1>3, <2>2 DEF Good
  <2>3. QED BY <1>1, <2>1, <2>2 DEF Good
<1>5. ASSUME NEW g \in Names PROVE Before(q, Listing(gl))[g] = Before(q, Listing(fl))[g]
  <2>1. ASSUME NEW a \in InList(fl), a < q, fl[a].name = g
        PROVE  /\ a \in InList(gl) /\ gl[a].name = g /\ gl[a].size = fl[a].size
               /\ a + fl[a].size < q => \A i \in 1 .. fl[a].size : gl[a + i].name = fl[a + i].name
    <3>1. a \in Nat /\ fl[a].size \in Nat /\ \A i \in 1 .. fl[a].size : a + i \in Cells
      BY <1>1, <2>1, ImageIs, FileInside
    <3>2. a + fl[a].size < q => \A i \in 1 .. fl[a].size : a + i < q
      BY <3>1
    <3>3. QED BY <1>2, <2>1, <3>1, <3>2
  <2>2. \A a \in InList(gl) : a < q /\ gl[a].name = g => a \in InList(fl) /\ fl[a].name = g
    BY <1>3
  <2>3. QED BY <1>4, <2>1, <2>2, SameFile
<1>6. Before(q, Listing(gl)) = Before(q, Listing(fl))
  BY <1>5, BeforeIs
<1>7. QED BY <1>4, <1>6

\* A list that is whole before p is whole before what is lower.
LEMMA Lower ==
    ASSUME NEW fl, NEW p \in Nat, Good(fl, p), NEW q \in Nat, q <= p
    PROVE  Good(fl, q)
<1>1. \A a \in InList(fl) : a \in Nat
  BY ImageIs DEF Good
<1>2. \A a \in InList(fl) : a < q => a < p
  BY <1>1
<1>3. \A c \in Cells : c < q => c < p
  BY LastIs
<1>4. QED BY <1>2, <1>3 DEF Good

\* Cells that are neither headers nor of a file may hold anything.
LEMMA Patched ==
    ASSUME NEW fl, NEW gl, NEW p \in Nat, Good(fl, p), Image(gl), NEW Gone \in SUBSET Cells,
           Gone \cap InList(fl) = {}, NEW b \in InList(fl), \A c \in Gone : c < b,
           \A c \in Cells \ Gone : gl[c] = fl[c]
    PROVE  /\ InList(gl) = InList(fl) /\ Good(gl, p)
           /\ \A g \in Names :
                 (\A a \in Named(fl, g) : \A i \in 1 .. fl[a].size : a + i \notin Gone)
                    => Before(p, Listing(gl))[g] = Before(p, Listing(fl))[g]
<1>1. Image(fl) /\ Upward(fl) /\ Upward(gl)
  BY ImageIs DEF Good
<1>2. \A a \in InList(fl) : a \in Cells /\ a \notin Gone /\ gl[a] = fl[a] /\ a \in Nat
  BY <1>1, ImageIs
<1>3. InList(gl) = InList(fl)
  BY <1>1, <1>2, SameList
<1>4. Good(gl, p)
  <2>1. \A x, y \in InList(gl) :
           x < p /\ y < p /\ gl[x].name = gl[y].name /\ gl[x].name \in Names => x = y
    BY <1>2, <1>3 DEF Good
  <2>2. ASSUME NEW a \in InList(gl), a < p, gl[a].next = Nil, NEW c \in Cells, a <= c, c < p
        PROVE  gl[c] = Erased
    <3>1. a \in InList(fl) /\ fl[a].next = Nil
      BY <1>2, <1>3, <2>2
    <3>2. b <= a
      BY <1>1, <3>1, NewestIsLast
    <3>3. b \in Nat /\ a \in Nat /\ c \in Nat
      BY <1>2, <3>1, LastIs
    <3>4. c \notin Gone
      BY <2>2, <3>2, <3>3
    <3>5. QED BY <2>2, <3>1, <3>4 DEF Good
  <2>3. QED BY <2>1, <2>2 DEF Good
<1>5. ASSUME NEW g \in Names,
             \A a \in Named(fl, g) : \A i \in 1 .. fl[a].size : a + i \notin Gone
      PROVE  Before(p, Listing(gl))[g] = Before(p, Listing(fl))[g]
  <2>1. ASSUME NEW a \in InList(fl), a < p, fl[a].name = g
        PROVE  /\ a \in InList(gl) /\ gl[a].name = g /\ gl[a].size = fl[a].size
               /\ a + fl[a].size < p => \A i \in 1 .. fl[a].size : gl[a + i].name = fl[a + i].name
    <3>1. a \in Named(fl, g)
      BY <2>1 DEF Named
    <3>2. \A i \in 1 .. fl[a].size : a + i \in Cells /\ a + i \notin Gone
      BY <1>1, <1>5, <2>1, <3>1, FileInside
    <3>3. QED BY <1>2, <1>3, <2>1, <3>2
  <2>2. \A a \in InList(gl) : a < p /\ gl[a].name = g => a \in InList(fl) /\ fl[a].name = g
    BY <1>2, <1>3
  <2>3. QED BY <1>4, <2>1, <2>2, SameFile
<1>6. QED BY <1>3, <1>4, <1>5

\* A header at the end, or a part of one: behind it nothing is, as far as the
\* list was whole.
LEMMA Appended ==
    ASSUME NEW fl, NEW gl, NEW p \in Nat, Good(fl, p), NEW a \in InList(fl), fl[a] = Erased,
           Image(gl), \A c \in Cells : c # a => gl[c] = fl[c],
           \A b \in InList(fl) : b < p => fl[b].name # gl[a].name \/ gl[a].name \notin Names
    PROVE  /\ Good(gl, p) /\ a \in InList(gl)
           /\ \A b \in InList(gl) : b < p /\ gl[b].name \in Names =>
                 b = a \/ (b \in InList(fl) /\ gl[b] = fl[b])
           /\ \A g \in Names : g # gl[a].name =>
                 Before(p, Listing(gl))[g] = Before(p, Listing(fl))[g]
<1> DEFINE v == gl[a]
<1>1. Image(fl) /\ fl \in [Cells -> Cell] /\ a \in Cells /\ a \in Nat
  BY ImageIs DEF Good, Image
<1>2. gl[a] = v /\ Sound(a, v) /\ \A c \in Cells : c # a => gl[c] = fl[c]
  BY <1>1 DEF Image
<1>3. Image(gl)
  OBVIOUS
<1>4. Erased.next = Nil /\ Erased.name \notin Names
  BY FileSystemAssumption DEF Erased
<1>5. \A b \in InList(fl) : b \in Cells /\ b \in Nat /\ b <= a
  BY <1>1, <1>4, ImageIs, NewestIsLast
<1>6. \A b \in InList(gl) : b \in Cells /\ b \in Nat
  BY <1>3, ImageIs
<1>7. /\ \A c \in Cells : c < a => gl[c] = fl[c]
      /\ \A c \in Cells : c < a => fl[c] = gl[c]
  BY <1>1, <1>2, LastIs
<1>8. /\ \A b \in InList(fl) : b <= a => b \in InList(gl)
      /\ \A b \in InList(gl) : b <= a => b \in InList(fl)
  BY <1>1, <1>3, <1>7, Prefix
<1>9. a \in InList(gl)
  BY <1>5, <1>8
<1>10. CASE a >= p
  <2>1. \A c \in Cells : c < p => gl[c] = fl[c]
    BY <1>1, <1>2, <1>10, LastIs
  <2>2. Good(gl, p) /\ Before(p, Listing(gl)) = Before(p, Listing(fl))
    BY <1>3, <2>1, PrefixGood
  <2>3. ASSUME NEW b \in InList(gl), b < p PROVE b \in InList(fl) /\ gl[b] = fl[b]
    <3>1. b \in Cells /\ b \in Nat /\ b <= a
      <4>1. b \in Cells /\ b \in Nat /\ a \in Nat
        BY <1>1, <1>6
      <4>2. QED BY <1>10, <2>3, <4>1
    <3>2. QED BY <1>8, <2>1, <2>3, <3>1
  <2>4. QED BY <1>2, <1>9, <2>2, <2>3
<1>11. CASE a < p
  <2>1. \A c \in Cells : a <= c /\ c < p => fl[c] = Erased
    BY <1>4, <1>11 DEF Good
  <2>2. ASSUME NEW b \in InList(gl), b < p
        PROVE  \/ b = a
               \/ b \in InList(fl) /\ b < a /\ gl[b] = fl[b]
               \/ b > a /\ gl[b] = Erased /\ fl[b] = Erased
    <3>1. b \in Cells /\ b \in Nat
      BY <1>6
    <3>2. CASE b = a
      BY <3>2
    <3>3. CASE b < a
      <4>1. b <= a /\ b # a
        BY <1>1, <3>1, <3>3
      <4>2. QED BY <1>2, <1>8, <3>1, <3>3, <4>1
    <3>4. CASE b > a
      <4>1. a <= b /\ b # a
        BY <1>1, <3>1, <3>4
      <4>2. QED BY <1>2, <2>1, <2>2, <3>1, <3>4, <4>1
    <3>5. b = a \/ b < a \/ b > a
      BY <1>1, <3>1
    <3>6. QED BY <3>2, <3>3, <3>4, <3>5
  <2>3. \A b \in InList(gl) : b < p /\ gl[b].name \in Names =>
           b = a \/ (b \in InList(fl) /\ gl[b] = fl[b])
    BY <1>4, <2>2
  <2>4. ASSUME NEW x \in InList(gl), NEW y \in InList(gl), x < p, y < p,
               gl[x].name = gl[y].name, gl[x].name \in Names
        PROVE  x = y
    BY <1>2, <2>3, <2>4 DEF Good
  <2>5. ASSUME NEW x \in InList(gl), x < p, gl[x].next = Nil, NEW c \in Cells, x <= c, c < p
        PROVE  gl[c] = Erased
    <3>1. CASE x = a
      <4>1. v = Erased
        BY <1>2, <2>5, <3>1 DEF Sound
      <4>2. QED BY <1>2, <2>1, <2>5, <3>1, <4>1
    <3>2. CASE x < a
      <4>1. x \in InList(fl) /\ fl[x].next = Nil
        <5>1. x <= a /\ x # a /\ x \in Cells
          <6>1. x \in Cells /\ x \in Nat /\ a \in Nat
            BY <1>1, <1>6
          <6>2. QED BY <3>2, <6>1
        <5>2. QED BY <1>2, <1>8, <2>5, <5>1
      <4>2. a <= x
        BY <1>1, <4>1, NewestIsLast
      <4>3. x \in Nat
        BY <1>6
      <4>4. QED BY <1>1, <3>2, <4>2, <4>3
    <3>3. CASE x > a
      <4>1. c # a /\ a <= c /\ c \in Nat
        BY <1>1, <1>6, <2>5, <3>3, LastIs
      <4>2. QED BY <1>2, <2>1, <2>5, <4>1
    <3>4. x = a \/ x < a \/ x > a
      BY <1>1, <1>6
    <3>5. QED BY <3>1, <3>2, <3>3, <3>4
  <2>6. Good(gl, p)
    BY <1>3, <2>4, <2>5 DEF Good
  <2>7. ASSUME NEW g \in Names, g # v.name
        PROVE  Before(p, Listing(gl))[g] = Before(p, Listing(fl))[g]
    <3>1. \A b \in InList(gl) : b < p /\ gl[b].name = g => b \in InList(fl) /\ fl[b].name = g
      BY <1>2, <2>3, <2>7
    <3>2. ASSUME NEW b \in InList(fl), fl[b].name = g
          PROVE  /\ b \in InList(gl) /\ gl[b] = fl[b]
                 /\ \A i \in 1 .. fl[b].size : gl[b + i] = fl[b + i]
      <4>1. b # a /\ b \in Cells /\ b \in Nat /\ b <= a
        BY <1>4, <1>5, <3>2
      <4>2. fl[b].next <= a
        BY <1>1, <3>2, <4>1, Chain, ImageIs
      <4>3. \A i \in 1 .. fl[b].size : b + i \in Cells /\ b + i # a
        BY <1>1, <3>2, FileInside
      <4>4. QED BY <1>2, <1>8, <3>2, <4>1, <4>3
    <3>3. \A b \in InList(fl) : b < p /\ fl[b].name = g =>
             /\ b \in InList(gl) /\ gl[b].name = g /\ gl[b].size = fl[b].size
             /\ b + fl[b].size < p => \A i \in 1 .. fl[b].size : gl[b + i].name = fl[b + i].name
      BY <3>2
    <3>4. \A b \in InList(gl) : b < p /\ gl[b].name = g => b \in InList(fl) /\ fl[b].name = g
      BY <3>1
    <3>5. Good(fl, p) /\ p \in Nat
      OBVIOUS
    <3>6. QED BY ONLY <2>6, <2>7, <3>3, <3>4, <3>5, SameFile
  <2>8. QED BY <1>2, <1>9, <2>3, <2>6, <2>7
<1>12. a >= p \/ a < p
  BY <1>1
<1>13. QED BY <1>10, <1>11, <1>12

-----------------------------------------------------------------------------
(***************************************************************************)
(* Holes.                                                                  *)
(***************************************************************************)
\* The function in HoleSize, which adds up holes behind the one at a.
Grown(f, a, need) ==
    f = [p \in Cells \cup {Wild, Nil} |->
            LET size == IF p = a THEN flash[a].next - a ELSE p - a
            IN  IF p < Last /\ ~isValid(p) /\ size < need THEN f[flash[p].next]
                ELSE size]

LEMMA GrownIs ==
    ASSUME Image(flash), NEW a \in Cells, NEW need \in Nat
    PROVE  \E f : Grown(f, a, need) /\ HoleSize(a, need) = f[a]
<1> DEFINE size(p) == IF p = a THEN flash[a].next - a ELSE p - a
           goes(p) == p < Last /\ ~isValid(p) /\ size(p) < need
           S == Address
           go == {p \in S : goes(p)}
           nx == [p \in go |-> flash[p].next]
           val == [p \in S |-> size(p)]
<1>1. \A p \in go : p \in Cells /\ nx[p] \in S /\ nx[p] = flash[p].next
  <2>1. \A p \in go : p \in Cells /\ p \in Address
    BY LastIs DEF Address
  <2> HIDE DEF goes
  <2>2. QED BY <2>1, NextAddress DEF Image
<1>2. PICK f : Following(f, S, go, nx, val)
  <2>1. \A p \in S : p \in go => nx[p] \in S
    BY <1>1
  <2> HIDE DEF S, go, nx, val
  <2>2. QED BY <2>1, Follows
<1>3. f = [p \in S |-> IF goes(p) THEN f[flash[p].next] ELSE size(p)]
  <2>1. ASSUME NEW p \in S
        PROVE  (IF p \in go THEN f[nx[p]] ELSE val[p])
                 = (IF goes(p) THEN f[flash[p].next] ELSE size(p))
    <3> HIDE DEF goes, size
    <3>1. QED BY <1>1
  <2> HIDE DEF goes, size, go, nx, val
  <2>2. f = [p \in S |-> IF p \in go THEN f[nx[p]] ELSE val[p]]
    BY <1>2 DEF Following
  <2>3. QED BY <2>1, <2>2
<1>4. Grown(f, a, need)
  BY <1>3 DEF Grown, Address
<1>5. HoleSize(a, need) = (CHOOSE g : Grown(g, a, need))[a]
  BY DEF HoleSize, Grown
<1>6. Grown(CHOOSE g : Grown(g, a, need), a, need)
  BY <1>4
<1>7. QED BY <1>5, <1>6

EndOf(f, a, need) ==
    f = [p \in Cells \cup {Wild, Nil} |->
            IF p < Last /\ p - a < need THEN f[flash[p].next] ELSE p]

LEMMA EndIs ==
    ASSUME Image(flash), NEW a \in Cells, NEW need \in Nat
    PROVE  \E f : EndOf(f, a, need) /\ HoleEnd(a, need) = f[flash[a].next]
<1> DEFINE S == Address
           go == {p \in S : p < Last /\ p - a < need}
           nx == [p \in go |-> flash[p].next]
           val == [p \in S |-> p]
<1>1. \A p \in go : p \in Cells /\ nx[p] \in S /\ nx[p] = flash[p].next
  BY LastIs, NextAddress DEF Address, Image
<1>2. PICK f : Following(f, S, go, nx, val)
  <2>1. \A p \in S : p \in go => nx[p] \in S
    BY <1>1
  <2> HIDE DEF S, go, nx, val
  <2>2. QED BY <2>1, Follows
<1>3. f = [p \in S |-> IF p < Last /\ p - a < need THEN f[flash[p].next] ELSE p]
  <2>1. ASSUME NEW p \in S
        PROVE  (IF p \in go THEN f[nx[p]] ELSE val[p])
                 = (IF p < Last /\ p - a < need THEN f[flash[p].next] ELSE p)
    BY <1>1
  <2> HIDE DEF go, nx, val
  <2>2. f = [p \in S |-> IF p \in go THEN f[nx[p]] ELSE val[p]]
    BY <1>2 DEF Following
  <2>3. QED BY <2>1, <2>2
<1>4. EndOf(f, a, need)
  BY <1>3 DEF EndOf, Address
<1>5. HoleEnd(a, need) = (CHOOSE g : EndOf(g, a, need))[flash[a].next]
  BY DEF HoleEnd, EndOf
<1>6. EndOf(CHOOSE g : EndOf(g, a, need), a, need)
  BY <1>4
<1>7. QED BY <1>5, <1>6

\* Holes that are large enough together reach from one header to another,
\* with nothing but holes between; and they are measured the same twice.
Spans(a, e) ==
    /\ e \in InList(flash) /\ flash[a].next <= e
    /\ \A c \in InList(flash) : a <= c /\ c < e => ~isValid(c)

LEMMA HoleSpan ==
    ASSUME Image(flash), NEW a \in InList(flash), ~isValid(a), NEW need \in Nat
    PROVE  /\ HoleSize(a, need) \in Nat
           /\ HoleSize(a, need) >= need /\ a + HoleSize(a, need) < Last =>
                 /\ Spans(a, a + HoleSize(a, need))
                 /\ HoleEnd(a, need) = a + HoleSize(a, need)
                 /\ flash[a].next - a >= need => a + HoleSize(a, need) = flash[a].next
<1> DEFINE L == InList(flash)
           nx(p) == flash[p].next
<1>1. \A p \in L : /\ p \in Cells /\ p \in Nat /\ p < Last /\ nx(p) \in Nat /\ nx(p) > p
                   /\ nx(p) < Last => nx(p) \in L
  BY ImageIs
<1>2. \A p \in L, c \in L : p < c => nx(p) <= c
  BY Chain, ImageIs
<1>3. a \in L /\ a \in Cells
  BY <1>1
<1>4. PICK f : Grown(f, a, need) /\ HoleSize(a, need) = f[a]
  BY <1>3, GrownIs
<1>5. PICK g : EndOf(g, a, need) /\ HoleEnd(a, need) = g[nx(a)]
  BY <1>3, EndIs
<1>6. \A p \in Address : p \in Nat /\ (p < Last => p \in Cells)
  BY LastIs DEF Address
<1>7. \A p \in Cells : nx(p) \in Address /\ nx(p) > p /\ nx(p) \in Nat
  BY NextAddress, ImageIs DEF Upward
<1>8. \A p \in Address : p # a =>
         f[p] = IF p < Last /\ ~isValid(p) /\ p - a < need THEN f[nx(p)] ELSE p - a
  BY <1>4 DEF Grown, Address
<1>9. \A p \in Address : g[p] = IF p < Last /\ p - a < need THEN g[nx(p)] ELSE p
  BY <1>5 DEF EndOf, Address
<1>10. f[a] = IF nx(a) - a < need THEN f[nx(a)] ELSE nx(a) - a
  <2>1. a \in Address /\ a < Last
    BY <1>1, <1>3 DEF Address
  <2>2. QED BY <1>4, <2>1 DEF Grown, Address
<1> DEFINE From(p) == \A c \in L : p <= c /\ c < a + f[p] => ~isValid(c)
           Right(p) == /\ a + f[p] \in L
                       /\ From(p)
                       /\ g[p] = a + f[p]
           T == {p \in Address : p > a =>
                    /\ f[p] \in Nat /\ a + f[p] >= p
                    /\ (p \in L \/ p >= Last) /\ f[p] >= need /\ a + f[p] < Last => Right(p)}
<1> HIDE DEF L, nx
<1>11. Address \subseteq T
  <2>1. ASSUME NEW p \in Address, \A b \in Address : b > p => b \in T, p > a
        PROVE  /\ f[p] \in Nat /\ a + f[p] >= p
               /\ (p \in L \/ p >= Last) /\ f[p] >= need /\ a + f[p] < Last => Right(p)
    <3>1. CASE p < Last /\ ~isValid(p) /\ p - a < need
      <4> DEFINE q == nx(p)
      <4>1. p \in Cells /\ q \in Address /\ q > p /\ q \in Nat /\ p \in Nat /\ a \in Nat
        BY <1>1, <1>3, <1>6, <1>7, <3>1
      <4>2. q \in T /\ q > a
        BY <2>1, <4>1
      <4>3. f[p] = f[q] /\ g[p] = g[q]
        BY <1>8, <1>9, <2>1, <3>1, <4>1
      <4> HIDE DEF q
      <4>4. f[q] \in Nat /\ a + f[q] >= q
        BY <4>2
      <4>5. ASSUME p \in L, f[p] >= need, a + f[p] < Last
            PROVE  Right(p)
        <5>1. q \in L \/ q >= Last
          BY <1>1, <4>1, <4>5, LastIs DEF q
        <5>2. Right(q)
          BY <4>2, <4>3, <4>5, <5>1
        <5>3. ASSUME NEW c \in L, p <= c, c < a + f[p] PROVE ~isValid(c)
          <6>1. c = p \/ q <= c
            BY <1>1, <1>2, <4>5, <5>3 DEF q
          <6>2. QED BY <3>1, <4>3, <5>2, <5>3, <6>1
        <5>4. QED BY <4>3, <5>2, <5>3
      <4>6. QED BY <3>1, <4>1, <4>3, <4>4, <4>5, LastIs
    <3>2. CASE ~(p < Last /\ ~isValid(p) /\ p - a < need)
      <4>1. p \in Nat /\ a \in Nat /\ f[p] = p - a /\ a + f[p] = p
        BY <1>1, <1>3, <1>6, <1>8, <2>1, <3>2
      <4>2. ASSUME p \in L \/ p >= Last, f[p] >= need, p < Last PROVE Right(p)
        <5>1. p \in L
          BY <4>1, <4>2, LastIs
        <5>2. g[p] = p
          BY <1>9, <4>1, <4>2
        <5>3. From(p)
          BY <1>1, <4>1
        <5>4. QED BY <4>1, <5>1, <5>2, <5>3
      <4>3. QED BY <2>1, <4>1, <4>2
    <3>3. QED BY <3>1, <3>2
  <2> HIDE DEF Right
  <2>2. ASSUME NEW p \in Address, \A b \in Address : b > p => b \in T
        PROVE  p \in T
    BY <2>1, <2>2
  <2> HIDE DEF T
  <2>3. QED BY <2>2, Downwards
<1> DEFINE q == nx(a)
           h == HoleSize(a, need)
<1>12. q \in Address /\ q \in Nat /\ q > a /\ q \in T /\ (q \in L \/ q >= Last) /\ a \in Nat
  BY <1>1, <1>3, <1>7, <1>11, LastIs
<1>13. \A c \in L : a <= c => c = a \/ q <= c
  BY <1>1, <1>2, <1>3
<1> HIDE DEF q
<1>14. CASE q - a >= need
  <2>1. h = q - a /\ a + h = q /\ h \in Nat
    BY <1>4, <1>10, <1>12, <1>14 DEF q
  <2>2. ASSUME q < Last
        PROVE  Spans(a, q) /\ HoleEnd(a, need) = q
    <3>1. q \in L
      BY <1>12, <2>2, LastIs
    <3>2. g[q] = q
      BY <1>9, <1>12, <1>14
    <3>3. \A c \in L : a <= c /\ c < q => ~isValid(c)
      BY <1>1, <1>12, <1>13
    <3>4. QED BY <1>5, <1>12, <3>1, <3>2, <3>3 DEF Spans, q, L, nx
  <2> HIDE DEF h
  <2>3. QED BY <2>1, <2>2 DEF h, q, nx
<1>15. CASE q - a < need
  <2>1. h = f[q]
    BY <1>4, <1>10, <1>15 DEF q
  <2>2. h \in Nat /\ a + h >= q
    BY <1>12, <2>1
  <2>3. ASSUME h >= need, a + h < Last
        PROVE  Spans(a, a + h) /\ HoleEnd(a, need) = a + h
    <3>1. Right(q)
      BY <1>12, <2>1, <2>3
    <3>2. \A c \in L : a <= c /\ c < a + h => ~isValid(c)
      BY <1>13, <2>1, <3>1
    <3>3. a + h \in L /\ HoleEnd(a, need) = a + h
      BY <1>5, <2>1, <3>1 DEF q
    <3>4. QED BY <2>2, <3>2, <3>3 DEF Spans, q, L, nx
  <2>4. ~(q - a >= need)
    BY <1>12, <1>15
  <2> HIDE DEF h
  <2>5. QED BY <2>2, <2>3, <2>4 DEF h, q, nx
<1>16. QED BY <1>12, <1>14, <1>15

\* The function in Holes.
Scan(f, need) ==
    f = [a \in Cells \cup {Wild, Nil} |->
            LET size == HoleSize(a, need)
                next == flash[a].next
            IN  IF a >= Last THEN {}
                ELSE IF isValid(a) THEN f[next]
                ELSE IF size >= need /\ a + size < Last
                THEN {a} \cup f[flash[a + size].next]
                ELSE IF next < Last THEN f[flash[next].next] ELSE {}]

LEMMA HoleSizeType ==
    ASSUME Image(flash), NEW a \in Cells, NEW need \in Nat
    PROVE  HoleSize(a, need) \in Nat
<1>1. PICK f : Grown(f, a, need) /\ HoleSize(a, need) = f[a]
  BY GrownIs
<1>2. /\ \A p \in Address : p \in Nat /\ (p < Last => p \in Cells)
      /\ \A p \in Cells : flash[p].next \in Address /\ flash[p].next > p
      /\ a \in Address /\ a \in Nat
  BY LastIs, NextAddress, ImageIs DEF Address, Upward
<1>3. \A p \in Address : p # a =>
         f[p] = IF p < Last /\ ~isValid(p) /\ p - a < need THEN f[flash[p].next] ELSE p - a
  BY <1>1 DEF Grown, Address
<1>4. f[a] = f[flash[a].next] \/ f[a] = flash[a].next - a
  BY <1>1, <1>2 DEF Grown, Address
<1> DEFINE T == {p \in Address : p > a => f[p] \in Nat}
<1>5. ASSUME NEW p \in Address, \A b \in Address : b > p => b \in T
      PROVE  p \in T
  <2>1. p > a => p - a \in Nat
    BY <1>2
  <2>2. CASE p > a /\ f[p] = f[flash[p].next] /\ p < Last
    <3>1. flash[p].next \in Address /\ flash[p].next > p /\ p \in Nat
      BY <1>2, <2>2
    <3>2. flash[p].next > a
      BY <1>2, <2>2, <3>1, LastIs DEF Address
    <3>3. QED BY <1>5, <2>2, <3>1, <3>2
  <2>3. QED BY <1>2, <1>3, <2>1, <2>2
<1>6. Address \subseteq T
  <2> HIDE DEF T
  <2>1. QED BY <1>5, Downwards
<1>7. f[flash[a].next] \in Nat /\ flash[a].next - a \in Nat
  BY <1>2, <1>6
<1>8. QED BY <1>1, <1>4, <1>7

LEMMA ScanIs ==
    ASSUME Image(flash), NEW need \in Nat
    PROVE  \E f : Scan(f, need) /\ Holes(need) = f[0]
<1> DEFINE size(a) == HoleSize(a, need)
           next(a) == flash[a].next
           large(a) == size(a) >= need /\ a + size(a) < Last
           on(a) == IF isValid(a) THEN next(a)
                    ELSE IF large(a) THEN flash[a + size(a)].next
                    ELSE IF next(a) < Last THEN flash[next(a)].next ELSE Nil
           S == Address
           go == {a \in S : a < Last}
           nx == [a \in go |-> on(a)]
           own == [a \in S |-> IF ~isValid(a) /\ large(a) THEN {a} ELSE {}]
           body(f, a) == IF a >= Last THEN {}
                         ELSE IF isValid(a) THEN f[next(a)]
                         ELSE IF large(a) THEN {a} \cup f[flash[a + size(a)].next]
                         ELSE IF next(a) < Last THEN f[flash[next(a)].next] ELSE {}
<1>1. ASSUME NEW a \in go PROVE a \in Cells /\ nx[a] \in S /\ nx[a] = on(a)
  <2>1. a \in Cells /\ a \in Nat
    BY LastIs DEF Address
  <2>2. size(a) \in Nat
    BY <2>1, HoleSizeType
  <2> HIDE DEF size
  <2>3. large(a) => a + size(a) \in Cells
    BY <2>1, <2>2, LastIs
  <2>4. Nil \in Address /\ next(a) \in Address /\ (next(a) < Last => next(a) \in Cells)
    BY <2>1, NextAddress DEF Address, Image
  <2> HIDE DEF large
  <2>5. on(a) \in S
    BY <2>3, <2>4, NextAddress DEF Image
  <2> HIDE DEF on
  <2>6. QED BY <2>1, <2>5
<1>2. PICK f : Gathering(f, S, go, nx, own)
  <2>1. \A a \in S : a \in go => nx[a] \in S
    BY <1>1
  <2> HIDE DEF S, go, nx, own
  <2>2. QED BY <2>1, Gathers
<1>3. Nil \in S /\ Nil \notin go
  BY LastIs DEF Address
<1>4. f[Nil] = {}
  <2> HIDE DEF S, go, nx, own
  <2>1. QED BY <1>2, <1>3 DEF Gathering
<1>5. ASSUME NEW a \in S
      PROVE  (IF a \in go THEN own[a] \cup f[nx[a]] ELSE {}) = body(f, a)
  <2>1. a \in go <=> ~(a >= Last)
    BY LastIs DEF Address
  <2>2. a \in go => nx[a] = on(a)
    BY <1>1
  <2>3. own[a] = IF ~isValid(a) /\ large(a) THEN {a} ELSE {}
    OBVIOUS
  <2> HIDE DEF go, nx, own, large
  <2>4. QED BY <1>4, <2>1, <2>2, <2>3
<1>6. f = [a \in S |-> body(f, a)]
  <2> HIDE DEF go, nx, own, body
  <2>1. f = [a \in S |-> IF a \in go THEN own[a] \cup f[nx[a]] ELSE {}]
    BY <1>2 DEF Gathering
  <2>2. QED BY <1>5, <2>1
<1>7. Scan(f, need)
  BY <1>6 DEF Scan, Address
<1>8. Holes(need) = (CHOOSE g : Scan(g, need))[0]
  BY DEF Holes, Scan
<1>9. Scan(CHOOSE g : Scan(g, need), need)
  BY <1>7
<1>10. QED BY <1>8, <1>9

LEMMA HolesAre ==
    ASSUME Image(flash), NEW need \in Nat, NEW b \in Holes(need)
    PROVE  /\ b \in InList(flash) /\ ~isValid(b)
           /\ HoleSize(b, need) >= need /\ b + HoleSize(b, need) < Last
<1> DEFINE L == InList(flash)
           Fits(a) == HoleSize(a, need) >= need /\ a + HoleSize(a, need) < Last
           On(p) == p \in Address /\ (p \in L \/ p >= Last)
<1>1. PICK f : Scan(f, need) /\ Holes(need) = f[0]
  BY ScanIs
<1>2. \A p \in L : /\ p \in Cells /\ p \in Nat /\ p < Last /\ p \in Address
                   /\ flash[p].next \in Nat /\ flash[p].next > p
  BY ImageIs DEF Address
<1>3. \A p \in L : On(flash[p].next)
  <2>1. \A p \in Cells : flash[p].next \in Address /\ flash[p].next \in Nat
    BY NextAddress DEF Image
  <2>2. \A p \in L : flash[p].next < Last => flash[p].next \in L
    BY ImageIs
  <2>3. QED BY <1>2, <2>1, <2>2, LastIs
<1>4. \A a \in L :
         Fits(a) /\ ~isValid(a) => a + HoleSize(a, need) \in L /\ a + HoleSize(a, need) > a
  <2>1. ASSUME NEW a \in L, Fits(a), ~isValid(a)
        PROVE  a + HoleSize(a, need) \in L /\ a + HoleSize(a, need) > a
    <3>1. Spans(a, a + HoleSize(a, need)) /\ HoleSize(a, need) \in Nat
      BY <2>1, HoleSpan
    <3>2. QED BY <1>2, <2>1, <3>1 DEF Spans
  <2>2. QED BY <2>1
<1> HIDE DEF L
<1> DEFINE T == {p \in Address : On(p) => \A c \in f[p] : c \in L /\ ~isValid(c) /\ Fits(c)}
<1>5. \A a \in Address :
         f[a] = IF a >= Last THEN {}
                ELSE IF isValid(a) THEN f[flash[a].next]
                ELSE IF Fits(a) THEN {a} \cup f[flash[a + HoleSize(a, need)].next]
                ELSE IF flash[a].next < Last THEN f[flash[flash[a].next].next] ELSE {}
  BY <1>1 DEF Scan, Address
<1> HIDE DEF Fits
<1>6. \A a \in L : /\ isValid(a) => f[a] = f[flash[a].next]
                   /\ ~isValid(a) /\ Fits(a) =>
                         f[a] = {a} \cup f[flash[a + HoleSize(a, need)].next]
                   /\ ~isValid(a) /\ ~Fits(a) =>
                         f[a] = IF flash[a].next < Last
                                THEN f[flash[flash[a].next].next] ELSE {}
  <2>1. \A a \in L : a \in Address /\ ~(a >= Last)
    BY <1>2, LastIs
  <2> HIDE DEF T, On
  <2>2. QED BY <1>5, <2>1
<1>7. ASSUME NEW p \in Address, \A q \in Address : q > p => q \in T
      PROVE  p \in T
  <2>1. CASE p >= Last
    BY <1>5, <2>1
  <2>2. ASSUME p \in L, isValid(p) PROVE p \in T
    <3>1. flash[p].next \in T /\ On(flash[p].next)
      BY <1>2, <1>3, <1>7, <2>2
    <3>2. f[p] = f[flash[p].next]
      BY <1>6, <2>2
    <3>3. QED BY <3>1, <3>2
  <2>3. ASSUME p \in L, ~isValid(p), Fits(p) PROVE p \in T
    <3> DEFINE e == p + HoleSize(p, need)
               r == flash[e].next
    <3>1. e \in L /\ e > p
      BY <1>4, <2>3
    <3>2. On(r) /\ r > p
      BY <1>2, <1>3, <2>3, <3>1
    <3>3. f[p] = {p} \cup f[r]
      BY <1>6, <2>3
    <3> HIDE DEF e, r
    <3>4. r \in T
      BY <1>7, <3>2
    <3>5. QED BY <2>3, <3>2, <3>3, <3>4
  <2>4. ASSUME p \in L, ~isValid(p), ~Fits(p) PROVE p \in T
    <3> DEFINE e == flash[p].next
               r == flash[e].next
    <3>1. CASE ~(e < Last)
      <4>1. f[p] = {}
        BY <1>6, <2>4, <3>1
      <4>2. QED BY <4>1
    <3>2. CASE e < Last
      <4>1. e \in L /\ e > p
        <5>1. e \in L \/ e >= Last
          BY <1>3, <2>4
        <5>2. QED BY <1>2, <2>4, <3>2, <5>1, LastIs
      <4>2. On(r) /\ r > p
        BY <1>2, <1>3, <2>4, <4>1
      <4>3. f[p] = f[r]
        BY <1>6, <2>4, <3>2
      <4> HIDE DEF e, r
      <4>4. r \in T
        BY <1>7, <4>2
      <4>5. QED BY <4>2, <4>3, <4>4
    <3>3. QED BY <3>1, <3>2
  <2>5. QED BY <2>1, <2>2, <2>3, <2>4
<1>8. Address \subseteq T
  <2> HIDE DEF T
  <2>1. QED BY <1>7, Downwards
<1>9. On(0)
  BY LastIs, ImageIs DEF L, IsList, Address
<1>10. QED BY <1>1, <1>8, <1>9 DEF L, Fits

-----------------------------------------------------------------------------
\* A header over holes, and one for the rest of them: gl has them in place.
Spliced(fl, gl, a, e, h) ==
    /\ a \in InList(fl) /\ e \in InList(fl) /\ fl[a].next <= e
    /\ \A c \in InList(fl) : a <= c /\ c < e => fl[c].name \notin Names
    /\ h.name \in Names /\ Named(fl, h.name) = {}
    /\ a < h.next /\ h.next <= e
    /\ gl[a] = h
    /\ h.next < e => gl[h.next].next = e /\ gl[h.next].name \notin Names
    /\ \A c \in Cells : c < a \/ c >= e => gl[c] = fl[c]

LEMMA SplicedList ==
    ASSUME NEW fl, NEW gl, NEW a, NEW e, NEW h,
           Image(fl), Image(gl), Spliced(fl, gl, a, e, h)
    PROVE  InList(gl) = {c \in InList(fl) : c < a \/ c >= e} \cup {a, h.next}
<1> DEFINE L == InList(fl)
           M == InList(gl)
           n == h.next
           K == {c \in L : c < a \/ c >= e} \cup {a, n}
<1>1. IsList(fl, L) /\ IsList(gl, M)
  BY ImageIs
<1>2. \A p \in L : /\ p \in Cells /\ p \in Nat /\ p < Last
                   /\ fl[p].next \in Nat /\ fl[p].next > p
                   /\ fl[p].next < Last => fl[p].next \in L
  BY ImageIs
<1>3. \A p \in L, c \in L : p < c => fl[p].next <= c
  BY Chain, ImageIs
<1>4. /\ a \in L /\ e \in L /\ fl[a].next <= e /\ a < n /\ n <= e
      /\ gl[a].next = n /\ (n < e => gl[n].next = e)
      /\ \A c \in L : c < a \/ c >= e => gl[c] = fl[c]
  BY <1>2 DEF Spliced
<1>5. n \in Cells /\ n \in Nat /\ n < Last /\ a < e
  <2>1. gl[a].next \in Nat
    BY <1>2, <1>4, NextAddress, ImageIs DEF Upward
  <2>2. n \in Nat /\ a \in Nat /\ e \in Nat /\ e < Last /\ a < n /\ n <= e
    BY <1>2, <1>4, <2>1
  <2> HIDE DEF n
  <2>3. QED BY <2>2, LastIs
<1>6. \A c \in M : gl[c].next < Last => gl[c].next \in M
  BY <1>1 DEF IsList
<1> HIDE DEF L, M, n
<1>7. M \subseteq K
  <2>1. K \in SUBSET Cells
    BY <1>2, <1>4, <1>5
  <2>2. 0 < Last => 0 \in K
    <3>1. 0 < Last => 0 \in L
      BY <1>1 DEF IsList
    <3>2. 0 \in L /\ ~(0 < a) => a = 0
      BY <1>2, <1>4
    <3>3. QED BY <3>1, <3>2, <1>2, <1>4
  <2>3. ASSUME NEW c \in M, c \in K, gl[c].next < Last
        PROVE  gl[c].next \in K
    <3>1. CASE c \in L /\ c < a
      <4>1. gl[c].next = fl[c].next /\ fl[c].next <= a
        BY <1>3, <1>4, <3>1
      <4>2. fl[c].next \in L
        BY <1>2, <2>3, <3>1, <4>1
      <4>3. fl[c].next = a \/ fl[c].next < a
        BY <1>2, <1>4, <4>1, <4>2
      <4>4. QED BY <4>1, <4>2, <4>3
    <3>2. CASE c = a
      BY <1>4, <3>2
    <3>3. CASE c = n /\ n < e
      <4>1. gl[c].next = e /\ e >= e
        BY <1>2, <1>4, <3>3
      <4>2. QED BY <1>4, <4>1
    <3>4. CASE c \in L /\ c >= e
      <4>1. gl[c].next = fl[c].next /\ fl[c].next \in L /\ fl[c].next >= e
        BY <1>2, <1>4, <2>3, <3>4
      <4>2. QED BY <4>1
    <3>5. c = n => (n < e \/ (c \in L /\ c >= e))
      BY <1>2, <1>4, <1>5
    <3>6. QED BY <2>3, <3>1, <3>2, <3>3, <3>4, <3>5
  <2> HIDE DEF K
  <2>4. QED BY <1>1, <2>1, <2>2, <2>3 DEF IsList
<1>8. a \in M
  <2> DEFINE T == {c \in Cells : c <= a => c \in M}
  <2>1. T \in SUBSET Cells
    OBVIOUS
  <2>2. 0 < Last => 0 \in T
    BY <1>1, LastIs DEF IsList
  <2>3. ASSUME NEW c \in L, c \in T, fl[c].next < Last
        PROVE  fl[c].next \in T
    <3>1. fl[c].next \in Cells /\ fl[c].next \in Nat /\ c \in Nat /\ fl[c].next > c /\ a \in Nat
      BY <1>2, <1>4, <2>3
    <3>2. ASSUME fl[c].next <= a PROVE fl[c].next \in M
      <4>1. c < a /\ c \in M
        BY <2>3, <3>1, <3>2
      <4>2. gl[c].next = fl[c].next
        BY <1>4, <4>1
      <4>3. QED BY <1>6, <2>3, <4>1, <4>2
    <3>3. QED BY <3>1, <3>2
  <2> HIDE DEF T
  <2>4. L \subseteq T
    BY <1>1, <2>1, <2>2, <2>3 DEF IsList
  <2>5. QED BY <1>2, <1>4, <2>4 DEF T
<1>9. n \in M /\ e \in M
  <2>1. n \in M
    BY <1>4, <1>5, <1>6, <1>8
  <2>2. n < e => e \in M
    BY <1>2, <1>4, <1>6, <2>1
  <2>3. n = e \/ n < e
    BY <1>2, <1>4, <1>5
  <2>4. QED BY <2>1, <2>2, <2>3
<1>10. K \subseteq M
  <2> DEFINE T == {c \in Cells : c < a \/ c >= e => c \in M}
  <2>1. T \in SUBSET Cells
    OBVIOUS
  <2>2. 0 < Last => 0 \in T
    BY <1>1, LastIs DEF IsList
  <2>3. ASSUME NEW c \in L, c \in T, fl[c].next < Last
        PROVE  fl[c].next \in T
    <3> DEFINE d == fl[c].next
    <3>1. /\ d \in L /\ d \in Cells /\ d \in Nat /\ c \in Nat /\ d > c /\ a \in Nat /\ e \in Nat
      BY <1>2, <1>4, <2>3
    <3>2. CASE c < a \/ c >= e
      <4>1. c \in M /\ gl[c].next = d
        BY <1>4, <2>3, <3>2
      <4>2. d \in M
        BY <1>6, <2>3, <4>1
      <4>3. QED BY <3>1, <4>2
    <3>3. CASE ~(c < a \/ c >= e)
      <4>1. d <= e
        BY <1>3, <1>4, <3>1, <3>3
      <4>2. d < a \/ d >= e => d = e
        BY <3>1, <3>3, <4>1
      <4>3. QED BY <1>9, <3>1, <4>2
    <3>4. QED BY <3>2, <3>3
  <2> HIDE DEF T
  <2>4. L \subseteq T
    BY <1>1, <2>1, <2>2, <2>3 DEF IsList
  <2>5. {c \in L : c < a \/ c >= e} \subseteq M
    BY <2>4 DEF T
  <2>6. QED BY <1>8, <1>9, <2>5
<1>11. QED BY <1>7, <1>10 DEF L, M, n

LEMMA SplicedGood ==
    ASSUME NEW fl, NEW gl, NEW a, NEW e, NEW h,
           NEW p \in Nat, Good(fl, p), Image(gl), Spliced(fl, gl, a, e, h)
    PROVE  /\ Good(gl, p) /\ Named(gl, h.name) = {a} /\ {a, h.next, e} \subseteq InList(gl)
           /\ \A g \in Names : g # h.name =>
                 Before(p, Listing(gl))[g] = Before(p, Listing(fl))[g]
<1> DEFINE L == InList(fl)
           n == h.next
<1>1. Image(fl)
  BY DEF Good
<1>2. InList(gl) = {c \in L : c < a \/ c >= e} \cup {a, n}
  BY <1>1, SplicedList
<1>3. /\ a \in L /\ e \in L /\ a < n /\ n <= e /\ gl[a] = h /\ h.name \in Names
      /\ \A c \in L : a <= c /\ c < e => fl[c].name \notin Names
      /\ \A c \in L : fl[c].name # h.name
      /\ n < e => gl[n].next = e /\ gl[n].name \notin Names
      /\ \A c \in Cells : c < a \/ c >= e => gl[c] = fl[c]
  BY DEF Spliced, Named
<1>4. \A c \in L : /\ c \in Cells /\ c \in Nat /\ c < Last
                   /\ fl[c].next \in Nat /\ fl[c].next > c
  BY <1>1, ImageIs
<1>5. n \in Nat /\ a < e /\ n < Last
  <2>1. gl[a].next \in Nat
    BY <1>3, <1>4, NextAddress, ImageIs DEF Upward
  <2>2. n \in Nat /\ a \in Nat /\ e \in Nat /\ e < Last /\ a < n /\ n <= e
    BY <1>3, <1>4, <2>1
  <2> HIDE DEF n
  <2>3. QED BY <2>2, LastIs
<1>6. {a, n, e} \subseteq InList(gl)
  BY <1>2, <1>3, <1>4
<1>7. \A x \in InList(gl) : gl[x].name \in Names =>
          \/ x = a
          \/ x \in L /\ (x < a \/ x >= e) /\ gl[x] = fl[x]
  <2>1. n = e \/ n < e
    BY <1>3, <1>4, <1>5
  <2>2. n = e => n \in L /\ n >= e
    BY <1>3, <1>4
  <2>3. QED BY <1>2, <1>3, <1>4, <2>1, <2>2
<1>8. ASSUME NEW x \in L, fl[x].name \in Names
      PROVE  x \in InList(gl) /\ gl[x] = fl[x] /\ (x < a \/ x >= e)
  <2>1. x < a \/ x >= e
    BY <1>3, <1>4, <1>8
  <2>2. QED BY <1>2, <1>3, <1>4, <2>1
<1> HIDE DEF L, n
<1>9. Good(gl, p)
  <2>1. ASSUME NEW x \in InList(gl), NEW y \in InList(gl), x < p, y < p,
               gl[x].name = gl[y].name, gl[x].name \in Names
        PROVE  x = y
    <3>1. CASE x = a \/ y = a
      BY <1>3, <1>7, <2>1, <3>1
    <3>2. CASE x # a /\ y # a
      <4>1. x \in L /\ y \in L /\ fl[x].name = fl[y].name /\ fl[x].name \in Names
        BY <1>7, <2>1, <3>2
      <4>2. QED BY <2>1, <4>1 DEF Good, L
    <3>3. QED BY <3>1, <3>2
  <2>2. ASSUME NEW x \in InList(gl), x < p, gl[x].next = Nil,
               NEW c \in Cells, x <= c, c < p
        PROVE  gl[c] = Erased
    <3>1. x # a
      BY <1>3, <1>5, <2>2, LastIs DEF n
    <3>2. ~(x = n /\ n < e)
      BY <1>3, <1>4, <2>2, LastIs
    <3>3. x \in L /\ (x < a \/ x >= e)
      BY <1>2, <1>3, <1>4, <1>5, <2>2, <3>1, <3>2
    <3>4. gl[x] = fl[x] /\ fl[x].next = Nil /\ x \in Nat
      BY <1>3, <1>4, <2>2, <3>3
    <3>5. a <= x
      BY <1>1, <1>3, <3>3, <3>4, NewestIsLast DEF L
    <3>6. x >= e /\ c >= e
      <4>1. a \in Nat /\ e \in Nat /\ c \in Nat
        BY <1>3, <1>4, LastIs
      <4>2. QED BY <2>2, <3>3, <3>4, <3>5, <4>1
    <3>7. fl[c] = Erased
      BY <2>2, <3>3, <3>4 DEF Good, L
    <3>8. QED BY <1>3, <3>6, <3>7
  <2>3. QED BY <2>1, <2>2 DEF Good
<1>10. Named(gl, h.name) = {a}
  <2>1. a \in Named(gl, h.name)
    BY <1>3, <1>6 DEF Named
  <2>2. \A x \in Named(gl, h.name) : x = a
    BY <1>3, <1>7 DEF Named
  <2>3. QED BY <2>1, <2>2
<1>11. ASSUME NEW g \in Names, g # h.name
       PROVE  Before(p, Listing(gl))[g] = Before(p, Listing(fl))[g]
  <2>1. \A x \in InList(gl) : x < p /\ gl[x].name = g => x \in InList(fl) /\ fl[x].name = g
    BY <1>3, <1>7, <1>11 DEF L
  <2>2. ASSUME NEW x \in InList(fl), fl[x].name = g
        PROVE  /\ x \in InList(gl) /\ gl[x].name = g /\ gl[x].size = fl[x].size
               /\ \A i \in 1 .. fl[x].size : gl[x + i].name = fl[x + i].name
    <3>1. x \in L /\ fl[x].name \in Names
      BY <2>2 DEF L
    <3>2. x \in InList(gl) /\ gl[x] = fl[x] /\ (x < a \/ x >= e) /\ x \in Nat
      BY <1>4, <1>8, <3>1
    <3>3. ASSUME NEW i \in 1 .. fl[x].size PROVE gl[x + i] = fl[x + i]
      <4>1. /\ x + i \in Cells /\ x + i < fl[x].next /\ fl[x].size \in Nat
        BY <1>1, <3>1, FileInside DEF L
      <4>2. x < a => fl[x].next <= a
        BY <1>1, <1>3, <3>1, Chain, ImageIs DEF L
      <4>3. i \in Nat /\ fl[x].next \in Nat /\ a \in Nat /\ e \in Nat
        BY <1>3, <1>4, <3>1, <4>1
      <4>4. x + i < a \/ x + i >= e
        BY <3>2, <4>1, <4>2, <4>3
      <4>5. QED BY <1>3, <4>1, <4>4
    <3>4. QED BY <2>2, <3>2, <3>3
  <2>3. \A x \in InList(fl) : x < p /\ fl[x].name = g =>
           /\ x \in InList(gl) /\ gl[x].name = g /\ gl[x].size = fl[x].size
           /\ x + fl[x].size < p => \A i \in 1 .. fl[x].size : gl[x + i].name = fl[x + i].name
    BY <2>2
  <2>4. Good(fl, p) /\ p \in Nat
    OBVIOUS
  <2>5. QED BY ONLY <1>9, <1>11, <2>1, <2>3, <2>4, SameFile
<1>12. QED BY <1>6, <1>9, <1>10, <1>11 DEF n

-----------------------------------------------------------------------------
(***************************************************************************)
(* The steps.                                                              *)
(***************************************************************************)
Files == Before(intact, IF at \in {"idle", "clear"} THEN Listing(flash) ELSE seen)

DirectoryStep == D!Next \/ Files' = Files

\* It is known where a file ends, if it is one.
Ended(file) == file # Absent => file.start + Len(file.data) \in Nat

LEMMA BeforeLower ==
    ASSUME NEW p \in Nat, NEW q \in Nat, q <= p, NEW F, NEW G, NEW g \in Names,
           Ended(F[g]), Ended(G[g]), Before(p, F)[g] = Before(p, G)[g]
    PROVE  Before(q, F)[g] = Before(q, G)[g]
<1> DEFINE x == F[g]
           y == G[g]
           m == x.start + Len(x.data)
           n == y.start + Len(y.data)
<1>1. \A r : /\ Before(r, F)[g] = IF x # Absent /\ m < r THEN x ELSE Absent
             /\ Before(r, G)[g] = IF y # Absent /\ n < r THEN y ELSE Absent
  BY DEF Before
<1>2. /\ x # Absent => m \in Nat
      /\ y # Absent => n \in Nat
      /\ x = y => m = n
  BY DEF Ended
<1> HIDE DEF x, y, m, n
<1>3. /\ x # Absent /\ m < q => m < p
      /\ y # Absent /\ n < q => n < p
  BY <1>2
<1>4. (IF x # Absent /\ m < p THEN x ELSE Absent) = (IF y # Absent /\ n < p THEN y ELSE Absent)
  BY <1>1
<1>5. CASE x # Absent /\ m < p
  BY <1>1, <1>2, <1>4, <1>5
<1>6. CASE ~(x # Absent /\ m < p)
  BY <1>1, <1>3, <1>4, <1>6
<1>7. QED BY <1>5, <1>6

LEMMA BeforeTwice ==
    ASSUME NEW p \in Nat, NEW q \in Nat, q <= p, NEW F, \A g \in Names : Ended(F[g])
    PROVE  Before(q, Before(p, F)) = Before(q, F)
<1>1. ASSUME NEW g \in Names PROVE Before(q, Before(p, F))[g] = Before(q, F)[g]
  <2> DEFINE x == F[g]
             m == x.start + Len(x.data)
             B == Before(p, F)
  <2>1. B[g] = IF x # Absent /\ m < p THEN x ELSE Absent
    BY DEF Before
  <2>2. Before(q, F)[g] = IF x # Absent /\ m < q THEN x ELSE Absent
    BY DEF Before
  <2>3. Before(q, B)[g] = IF B[g] # Absent /\ B[g].start + Len(B[g].data) < q THEN B[g] ELSE Absent
    BY DEF Before
  <2>4. x # Absent => m \in Nat
    BY DEF Ended
  <2>5. B[g] = x => B[g].start + Len(B[g].data) = m
    OBVIOUS
  <2> HIDE DEF x, m, B
  <2>6. x # Absent /\ m < q => m < p
    BY <2>4
  <2>7. CASE x # Absent /\ m < p
    BY <2>1, <2>2, <2>3, <2>5, <2>7 DEF B
  <2>8. CASE ~(x # Absent /\ m < p)
    BY <2>1, <2>2, <2>3, <2>6, <2>8 DEF B
  <2>9. QED BY <2>7, <2>8
<1> DEFINE B == Before(p, F)
<1>2. /\ Before(q, B) = [g \in Names |-> Before(q, B)[g]]
      /\ Before(q, F) = [g \in Names |-> Before(q, F)[g]]
  BY BeforeIs
<1>3. \A g \in Names : Before(q, B)[g] = Before(q, F)[g]
  BY <1>1
<1> HIDE DEF B
<1>4. Before(q, B) = Before(q, F)
  BY <1>2, <1>3
<1>5. QED BY <1>4 DEF B

LEMMA ListedEnds ==
    ASSUME NEW fl, Image(fl)
    PROVE  \A g \in Names : Ended(Listing(fl)[g])
BY ListedIsFile DEF Ended

LEMMA SeenEnds ==
    ASSUME AllThere
    PROVE  \A g \in Names : Ended(seen[g])
<1> SUFFICES ASSUME NEW g \in Names, seen[g] # Absent
             PROVE  seen[g].start + Len(seen[g].data) \in Nat
  BY DEF Ended
<1>1. seen[g].start \in Cells /\ Len(seen[g].data) \in Nat
  BY DEF AllThere, Outside
<1>2. QED BY <1>1, LastIs

\* An address that is a number.
LEMMA IntactIs == Inv => intact \in Nat /\ intact <= Wild
BY LastIs DEF Inv

LEMMA FilesEnd ==
    ASSUME Inv
    PROVE  \A g \in Names : Ended((IF at \in {"idle", "clear"} THEN Listing(flash) ELSE seen)[g])
<1>1. CASE at \in {"idle", "clear"}
  <2>1. Image(flash)
    BY <1>1 DEF Inv, Clearing, Good
  <2>2. QED BY <1>1, <2>1, ListedEnds
<1>2. CASE at \notin {"idle", "clear"}
  <2>1. AllThere
    BY <1>2 DEF Inv
  <2>2. QED BY <1>2, <2>1, SeenEnds
<1>3. QED BY <1>1, <1>2

\* Damage takes what is behind it.
LEMMA LoseStep ==
    ASSUME Inv, intact' \in Nat, intact' <= intact, Files' = Before(intact', Files)
    PROVE  DirectoryStep
<1> DEFINE X == IF at \in {"idle", "clear"} THEN Listing(flash) ELSE seen
<1>1. intact \in Nat
  BY IntactIs
<1>2. CASE intact' = intact
  <2>1. \A g \in Names : Ended(X[g])
    BY FilesEnd
  <2>2. Files = Before(intact, X)
    BY DEF Files
  <2> HIDE DEF X
  <2>3. Before(intact, Before(intact, X)) = Before(intact, X)
    BY <1>1, <2>1, BeforeTwice
  <2>4. Files' = Files
    BY <1>2, <2>2, <2>3
  <2>5. QED BY <2>4 DEF DirectoryStep
<1>3. CASE intact' < intact
  <2>1. D!Lose
    BY <1>3 DEF D!Lose, D!End, Before, Files
  <2>2. QED BY <2>1 DEF DirectoryStep, D!Next
<1>4. QED BY <1>1, <1>2, <1>3

LEMMA ErasedIsSound == Erased \in Cell /\ \A c \in Cells : Sound(c, Erased)
BY LastIs, FileSystemAssumption DEF Erased, Cell, Contents, Sound

\* A flash that starts with an erased cell has no files.
LEMMA BlankList ==
    ASSUME NEW fl, Image(fl), fl[0] = Erased
    PROVE  InList(fl) \subseteq {0} /\ Listing(fl) = [f \in Names |-> Absent]
<1>1. IsList(fl, InList(fl))
  BY ImageIs
<1>2. ~(Erased.next < Last) /\ Erased.name \notin Names
  BY LastIs, FileSystemAssumption DEF Erased
<1>3. InList(fl) \subseteq {0}
  <2>1. {0} \in SUBSET Cells
    BY LastIs
  <2>2. \A c \in InList(fl) : c \in {0} => (fl[c].next < Last => fl[c].next \in {0})
    BY <1>2
  <2>3. QED BY <1>1, <2>1, <2>2 DEF IsList
<1>4. \A f \in Names : Named(fl, f) = {}
  BY <1>2, <1>3 DEF Named
<1>5. QED BY <1>3, <1>4 DEF Listing

LEMMA NoFiles == Before(intact, [f \in Names |-> Absent]) = [f \in Names |-> Absent]
BY DEF Before

LEMMA BlankIsGood ==
    ASSUME NEW fl, Image(fl), NEW p \in Nat, \A c \in Cells : c < p => fl[c] = Erased
    PROVE  /\ Good(fl, p)
           /\ p > 0 => InList(fl) \subseteq {0} /\ Listing(fl) = [f \in Names |-> Absent]
<1>1. CASE p > 0
  <2>1. fl[0] = Erased
    BY <1>1, LastIs
  <2>2. InList(fl) \subseteq {0} /\ Listing(fl) = [f \in Names |-> Absent]
    BY <2>1, BlankList
  <2>3. Good(fl, p)
    BY <2>2 DEF Good
  <2>4. QED BY <2>2, <2>3
<1>2. CASE ~(p > 0)
  <2>1. \A a \in InList(fl) : ~(a < p)
    BY <1>2, ImageIs
  <2>2. QED BY <1>2, <2>1 DEF Good
<1>3. QED BY <1>1, <1>2

\* A job has a sector.
LEMMA SomeJob ==
    ASSUME NEW a, NEW header, NEW false, NEW s, NEW j,
           j = [address |-> a, header |-> header, false |-> false, sector |-> s]
    PROVE  "sector" \in DOMAIN j
OBVIOUS

LEMMA JobBegun ==
    ASSUME NEW place, NEW a, NEW header, NEW false, Begins(place, a, header, false)
    PROVE  "sector" \in DOMAIN job'
BY SomeJob DEF Begins

LEMMA NextSector ==
    ASSUME NEW j, NEW k, "sector" \in DOMAIN j, k = [j EXCEPT !.sector = j.sector + 1]
    PROVE  /\ k.address = j.address /\ k.header = j.header /\ k.false = j.false
           /\ k.sector = j.sector + 1 /\ "sector" \in DOMAIN k
OBVIOUS

LEMMA InitInv == Init => Inv
<1> SUFFICES ASSUME Init PROVE Inv
  OBVIOUS
<1>1. flash \in [Cells -> Cell] /\ \A c \in Cells : flash[c] = Erased
  BY ErasedIsSound DEF Init
<1>2. Image(flash)
  BY <1>1, ErasedIsSound DEF Image
<1>3. intact \in Nat /\ intact \in Cells \cup {Wild}
  BY LastIs DEF Init
<1>4. Good(flash, intact)
  BY <1>1, <1>2, <1>3, BlankIsGood
<1>5. buffer \in [0 .. SectorCells - 1 -> Cell]
  BY ErasedIsSound DEF Init, ErasedSector
<1>6. "sector" \in DOMAIN job
  BY DEF Init, NoJob
<1>7. QED BY <1>3, <1>4, <1>5, <1>6 DEF Init, Inv, AppendPlaces, RewritePlaces

LEMMA EndsInv ==
    ASSUME Inv, Ends, Good(flash', intact'), intact' \in Cells \cup {Wild}
    PROVE  Inv'
<1>1. buffer' \in [0 .. SectorCells - 1 -> Cell]
  BY ErasedIsSound DEF Ends, ErasedSector
<1>2. "sector" \in DOMAIN job'
  BY DEF Ends, NoJob
<1>3. QED BY <1>1, <1>2 DEF Ends, Inv, AppendPlaces, RewritePlaces

\* A new file is in the list, if all of it is before p, and the others are what
\* they were.
LEMMA Created ==
    ASSUME NEW fl, NEW p \in Nat, Good(fl, p), NEW f \in Names,
           NEW old, old[f] = Absent,
           NEW was, was = Before(p, old), NEW is, is = Before(p, Listing(fl)),
           \A g \in Names : g # f => is[g] = was[g]
    PROVE  /\ is = [was EXCEPT ![f] = is[f]]
           /\ is[f] = Absent => is = was
           /\ is[f] # Absent => \A g \in Names : was[g] # Absent =>
                 D!Extent(is[f]) \cap D!Extent(was[g]) = {}
<1>1. Image(fl)
  BY DEF Good
<1>2. is = [g \in Names |-> is[g]] /\ was = [g \in Names |-> was[g]] /\ was[f] = Absent
  BY DEF Before
<1>3. is = [was EXCEPT ![f] = is[f]]
  <2>1. QED BY ONLY <1>2, \A g \in Names : g # f => is[g] = was[g]
<1>4. is[f] = Absent => is = was
  <2>1. QED BY ONLY <1>2, \A g \in Names : g # f => is[g] = was[g]
<1>5. ASSUME NEW g \in Names, is[g] # Absent
      PROVE  \E b \in InList(fl) : fl[b].name = g /\ is[g] = FileAt(fl, b)
  <2>1. PICK b \in InList(fl) : b < p /\ fl[b].name = g
    BY <1>5, Shown
  <2>2. is[g] = IF b + fl[b].size < p THEN FileAt(fl, b) ELSE Absent
    BY <2>1, Shown
  <2>3. QED BY <1>5, <2>1, <2>2
<1>6. ASSUME is[f] # Absent, NEW g \in Names, was[g] # Absent
      PROVE  D!Extent(is[f]) \cap D!Extent(was[g]) = {}
  <2>1. g # f /\ was[g] = is[g]
    BY <1>2, <1>6
  <2>2. PICK a \in InList(fl) : fl[a].name = f /\ is[f] = FileAt(fl, a)
    BY <1>5, <1>6
  <2>3. PICK b \in InList(fl) : fl[b].name = g /\ is[g] = FileAt(fl, b)
    BY <1>5, <1>6, <2>1
  <2>4. D!Extent(FileAt(fl, a)) = a .. a + fl[a].size
    BY <1>1, <2>2, FileIsFile DEF D!Extent, D!End, FileAt
  <2>5. D!Extent(FileAt(fl, b)) = b .. b + fl[b].size
    BY <1>1, <2>3, FileIsFile DEF D!Extent, D!End, FileAt
  <2>6. fl[a].size \in Nat /\ fl[b].size \in Nat /\ a \in Nat /\ b \in Nat
    BY <1>1, <2>2, <2>3, FileInside, ImageIs
  <2>7. ASSUME NEW x \in a .. a + fl[a].size, x \in b .. b + fl[b].size PROVE FALSE
    <3>1. x - a \in 0 .. fl[a].size /\ x - b \in 0 .. fl[b].size
          /\ a + (x - a) = x /\ b + (x - b) = x
      BY <2>6, <2>7
    <3>2. a # b
      BY <2>1, <2>2, <2>3
    <3>3. QED BY <1>1, <2>2, <2>3, <3>1, <3>2, FilesApart
  <2>8. QED BY <2>1, <2>2, <2>3, <2>4, <2>5, <2>7
<1>7. QED BY <1>3, <1>4, <1>6

LEMMA CreatedStep ==
    ASSUME at \notin {"idle", "clear"}, at' = "idle", intact \in Nat, intact' = intact,
           Good(flash', intact), NEW f \in Names, seen[f] = Absent,
           \A g \in Names : g # f => Before(intact, Listing(flash'))[g] = Before(intact, seen)[g]
    PROVE  DirectoryStep
<1>1. Files = Before(intact, seen) /\ Files' = Before(intact, Listing(flash'))
  BY DEF Files
<1> DEFINE was == Before(intact, seen)
           is  == Before(intact, Listing(flash'))
<1>2. /\ is = [was EXCEPT ![f] = is[f]]
      /\ is[f] = Absent => is = was
      /\ is[f] # Absent => \A g \in Names : was[g] # Absent =>
            D!Extent(is[f]) \cap D!Extent(was[g]) = {}
  BY Created
<1>3. was[f] = Absent
  BY DEF Before
<1>4. Files = was /\ Files' = is
  BY <1>1
<1> HIDE DEF was, is
<1>5. CASE is[f] = Absent
  BY <1>2, <1>4, <1>5 DEF DirectoryStep
<1>6. CASE is[f] # Absent
  <2>1. /\ Files[f] = Absent /\ Files'[f] # Absent /\ Files' = [Files EXCEPT ![f] = Files'[f]]
        /\ \A g \in Names : Files[g] # Absent => D!Extent(Files'[f]) \cap D!Extent(Files[g]) = {}
    BY <1>2, <1>3, <1>4, <1>6
  <2>2. D!Create(f)
    BY <2>1 DEF D!Create, Files
  <2>3. QED BY <2>2 DEF DirectoryStep, D!Next
<1>7. QED BY <1>5, <1>6

\* What is seen when a call begins is there, outside of what it will write.
LEMMA Begun ==
    ASSUME Image(flash), flash' = flash, seen' = Listing(flash), at' # "copy",
           NEW a \in InList(flash), job'.address = a, NEW e \in Nat, To(job)' = e,
           \A x \in InList(flash) : flash[x].name \in Names => x < a \/ x >= e
    PROVE  AllThere'
<1>1. \A c \in Cells : Now'[c] = flash[c]
  BY DEF Now, Held
<1>2. ASSUME NEW g \in Names, seen'[g] # Absent
      PROVE  LET s == seen'[g].start
                 d == seen'[g].data
             IN  /\ s \in Cells /\ (s < a \/ s >= e) /\ Now'[s].name = g /\ Len(d) \in Nat
                 /\ \A i \in DOMAIN d : /\ s + i \in Cells /\ (s + i < a \/ s + i >= e)
                                      /\ Now'[s + i].name = d[i]
  <2>1. PICK x \in InList(flash) : flash[x].name = g /\ seen'[g] = FileAt(flash, x)
    BY <1>2, ListedIsFile
  <2>2. /\ x \in Cells /\ x \in Nat /\ a \in Nat /\ flash[x].size \in Nat /\ flash[x].next \in Nat
        /\ \A i \in 1 .. flash[x].size : x + i \in Cells /\ x + i < flash[x].next
    BY <2>1, ImageIs, FileInside
  <2>3. x < a => flash[x].next <= a
    BY <2>1, ImageIs, Chain
  <2>4. x < a \/ x >= e
    BY <2>1
  <2>5. ASSUME NEW i \in 1 .. flash[x].size PROVE x + i < a \/ x + i >= e
    <3>1. x + i \in Nat /\ i \in Nat /\ x + i < flash[x].next
      BY <2>2
    <3> DEFINE n == flash[x].next
    <3>2. n \in Nat /\ x + i < n /\ (x < a => n <= a)
      BY <2>2, <2>3, <3>1
    <3> HIDE DEF n
    <3>3. QED BY <2>2, <2>4, <3>1, <3>2
  <2>6. /\ seen'[g].start = x /\ DOMAIN seen'[g].data = 1 .. flash[x].size
        /\ \A i \in 1 .. flash[x].size : seen'[g].data[i] = flash[x + i].name
    BY <2>1 DEF FileAt
  <2>7. Len(seen'[g].data) \in Nat
    BY <2>1, <2>2, FileIsFile
  <2>8. QED BY <1>1, <2>1, <2>2, <2>4, <2>5, <2>6, <2>7
<1>3. QED BY <1>2 DEF AllThere, Outside

\* And it remains so while only other cells change.
LEMMA StillThere ==
    ASSUME AllThere, seen' = seen, job'.address = job.address, To(job)' = To(job),
           \A c : Outside(c) => Now'[c].name = Now[c].name
    PROVE  AllThere'
<1>1. \A c : Outside(c)' <=> Outside(c)
  BY DEF Outside
<1>2. QED BY <1>1 DEF AllThere

LEMMA CreateAtEndStep ==
    ASSUME Inv, NEW f \in Names, NEW size \in Sizes, CreateAtEnd(f, size)
    PROVE  Inv' /\ DirectoryStep
<1> DEFINE need == Need(size)
<1>1. PICK a \in Newest :
         /\ RoomAtEnd(a, need)
         /\ Begins("low", a, HeaderCell(a + need, size, f), Nil)
  BY DEF CreateAtEnd, AppendFile
<1>2. at = "idle" /\ ~findFile(f) /\ Good(flash, intact) /\ Image(flash) /\ intact' = intact
  BY DEF CreateAtEnd, AppendFile, Inv, Good
<1>3. a \in InList(flash) /\ flash[a].next = Nil /\ a \in Nat /\ a \in Cells
  BY <1>2, ImageIs DEF Newest
<1>4. flash[a] = Erased
  BY <1>2, <1>3 DEF Image, Sound
<1>5. Named(flash, f) = {} /\ \A x \in InList(flash) : flash[x].name # f
  BY <1>2 DEF findFile, Named
<1>6. size \in Nat /\ need = size + 2 /\ a + need \in Cells /\ a + need < Last
  BY <1>1, <1>3, LastIs, SizesOf DEF Need, RoomAtEnd
<1> HIDE DEF need
<1>7. /\ at' = "low" /\ flash' = flash /\ buffer' = buffer /\ seen' = Listing(flash)
      /\ job'.address = a /\ job'.header = HeaderCell(a + need, size, f) /\ job'.false = Nil
  BY <1>1 DEF Begins
<1>8. JobOK(job') /\ To(job') = a + need
  <2>1. HeaderCell(a + need, size, f) \in Cell
    BY <1>6 DEF HeaderCell, Cell
  <2>2. QED BY <1>3, <1>6, <1>7, <2>1 DEF JobOK, HeaderCell, To
<1>9. Base' = flash
  <2>1. Base' = [flash EXCEPT ![a] = Erased]
    BY <1>7 DEF Base
  <2>2. flash \in [Cells -> Cell]
    BY <1>2 DEF Image
  <2>3. QED BY <1>4, <2>1, <2>2
<1>10. Keeps(Base)'
  <2>1. Good(Base', intact') /\ job'.address \in InList(Base')
    BY <1>2, <1>3, <1>7, <1>9
  <2>2. job'.header.name = f
    BY <1>7 DEF HeaderCell
  <2>3. \A x \in InList(Base') : Base'[x].name # job'.header.name
    BY <1>5, <1>9, <2>2
  <2>4. seen' = Listing(Base')
    BY <1>7, <1>9
  <2>5. QED BY <2>1, <2>3, <2>4 DEF Keeps
<1>11. Appending'
  <2>1. flash'[job'.address] = HeaderCell(Nil, 0, Unnamed)
    BY <1>4, <1>7 DEF HeaderCell, Erased
  <2>2. QED BY <1>2, <1>7, <1>10, <2>1 DEF Appending
<1>12. AllThere'
  <2>1. \A x \in InList(flash) : flash[x].name \in Names => x < a
    <3>1. ASSUME NEW x \in InList(flash), flash[x].name \in Names PROVE x < a
      <4>1. x <= a /\ x \in Nat
        BY <1>2, <1>3, NewestIsLast, ImageIs
      <4>2. x # a
        BY <1>4, <3>1, FileSystemAssumption DEF Erased
      <4>3. QED BY <1>3, <4>1, <4>2
    <3>2. QED BY <3>1
  <2>2. To(job)' = a + need /\ a + need \in Nat
    BY <1>6, <1>8, LastIs
  <2>3. QED BY <1>2, <1>3, <1>7, <2>1, <2>2, Begun
<1>13. seen' = [g \in Names |-> seen'[g]] /\ seen'[job'.header.name] = Absent
  <2>1. job'.header.name = f
    BY <1>7 DEF HeaderCell
  <2>2. Listing(flash)[f] = Absent
    BY <1>2, <1>5, Listed
  <2>3. QED BY <1>7, <2>1, <2>2 DEF Listing
<1>14. Inv'
  <2>1. "sector" \in DOMAIN job'
    BY JobBegun DEF CreateAtEnd, AppendFile
  <2>2. QED BY <1>2, <1>7, <1>8, <1>11, <1>12, <1>13, <2>1 DEF Inv, AppendPlaces, RewritePlaces
<1>15. DirectoryStep
  BY <1>2, <1>7 DEF DirectoryStep, Files
<1>16. QED BY <1>14, <1>15

\* While a file is added, only the header at the end is changed.
LEMMA AppendingIs ==
    ASSUME Inv, at \in AppendPlaces
    PROVE  /\ Good(Base, intact) /\ Base \in [Cells -> Cell] /\ flash \in [Cells -> Cell]
           /\ job.address \in InList(Base) /\ Base[job.address] = Erased
           /\ job.address \in Cells /\ job.address \in Nat
           /\ job.header.next \in Cells /\ job.header.next \in Nat
           /\ job.header.next > job.address /\ job.header.next < Last
           /\ job.header.name \in Names /\ Sound(job.address, job.header)
           /\ flash[job.address].name = Unnamed /\ Sound(job.address, flash[job.address])
<1>1. /\ Good(Base, intact) /\ Image(Base) /\ Image(flash) /\ job.address \in InList(Base)
      /\ JobOK(job)
  BY DEF Inv, Appending, Keeps, Good
<1>2. job.address \in Cells /\ job.address \in Nat
  BY <1>1, ImageIs
<1>3. flash \in [Cells -> Cell] /\ Base \in [Cells -> Cell] /\ Base[job.address] = Erased
  <2>1. flash \in [Cells -> Cell] /\ Base \in [Cells -> Cell]
    BY <1>1 DEF Image
  <2>2. Base = [flash EXCEPT ![job.address] = Erased]
    BY DEF Base
  <2>3. QED BY <1>2, <2>1, <2>2
<1>4. job.header.size \in Nat
  <2>1. job.header.size \in Sizes \cup {0}
    BY <1>1 DEF JobOK, Cell
  <2>2. QED BY <2>1, SizesOf
<1>5. job.header.next \in Cells /\ job.header.next \in Nat
  BY <1>1, LastIs DEF JobOK
<1>6. job.header.next > job.address /\ job.header.next < Last
  BY <1>1, <1>2, <1>4, <1>5 DEF JobOK
<1>7. Sound(job.address, job.header)
  BY <1>1, <1>2, <1>4, <1>5, <1>6, LastIs DEF JobOK, Sound
<1>8. flash[job.address].name = Unnamed
  BY DEF Inv, AppendPlaces, Appending, HeaderCell
<1>9. QED BY <1>1, <1>2, <1>3, <1>5, <1>6, <1>7, <1>8 DEF JobOK, Image

\* With any header in its place the others are what they were.
LEMMA AppendStep ==
    ASSUME Inv, at \in AppendPlaces, NEW v, Sound(job.address, v),
           v.name \in {job.header.name, Unnamed},
           flash' = [flash EXCEPT ![job.address] = v]
    PROVE  /\ Good(flash', intact) /\ flash'[job.address] = v
           /\ [flash' EXCEPT ![job.address] = Erased] = Base
           /\ \A c \in Cells : c # job.address => flash'[c] = flash[c]
           /\ \A g \in Names : g # job.header.name =>
                 Before(intact, Listing(flash'))[g] = Before(intact, seen)[g]
<1> DEFINE gl == flash'
           a == job.address
           f == job.header.name
<1>1. /\ Good(Base, intact) /\ Base \in [Cells -> Cell] /\ flash \in [Cells -> Cell]
      /\ a \in InList(Base) /\ Base[a] = Erased /\ a \in Cells /\ a \in Nat /\ f \in Names
  BY AppendingIs
<1>2. intact \in Nat /\ Unnamed \notin Names
  BY IntactIs, FileSystemAssumption
<1>3. Base = [flash EXCEPT ![a] = Erased] /\ gl = [flash EXCEPT ![a] = v]
  BY DEF Base
<1>4. /\ \A b \in InList(Base) : b < intact /\ Base[b].name = f => b = a
      /\ \A g \in Names : g # f => Before(intact, Listing(Base))[g] = Before(intact, seen)[g]
  BY DEF Inv, Appending, Keeps
<1>5. Erased.name \notin Names
  BY <1>2 DEF Erased
<1>6. Sound(a, v) /\ v.name \in {f, Unnamed}
  OBVIOUS
<1> HIDE DEF gl, a, f
<1>7. gl = [Base EXCEPT ![a] = v]
  BY <1>1, <1>3
<1>8. [gl EXCEPT ![a] = Erased] = Base
  BY <1>1, <1>3
<1>9. gl[a] = v /\ \A c \in Cells : c # a => gl[c] = flash[c]
  BY <1>1, <1>3
<1>10. \A b \in InList(Base) : b < intact => Base[b].name # v.name \/ v.name \notin Names
  BY <1>1, <1>2, <1>4, <1>5, <1>6
<1>11. /\ Good(gl, intact)
       /\ \A g \in Names : g # v.name =>
             Before(intact, Listing(gl))[g] = Before(intact, Listing(Base))[g]
  <2>1. Image(gl)
    <3>1. Image(Base)
      BY <1>1 DEF Good
    <3>2. gl \in [Cells -> Cell]
      BY <1>1, <1>6, <1>7 DEF Sound
    <3>3. \A c \in Cells : Sound(c, gl[c])
      BY <1>1, <1>6, <1>7, <3>1 DEF Image
    <3>4. QED BY <3>2, <3>3 DEF Image
  <2>2. \A c \in Cells : c # a => gl[c] = Base[c]
    BY <1>1, <1>7
  <2>3. \A b \in InList(Base) : b < intact =>
           Base[b].name # gl[a].name \/ gl[a].name \notin Names
    BY <1>9, <1>10
  <2>4. /\ Good(gl, intact)
        /\ \A g \in Names : g # gl[a].name =>
              Before(intact, Listing(gl))[g] = Before(intact, Listing(Base))[g]
    <3>1. Good(Base, intact) /\ a \in InList(Base) /\ Base[a] = Erased /\ intact \in Nat
      BY <1>1, <1>2
    <3>2. QED BY ONLY <2>1, <2>2, <2>3, <3>1, Appended
  <2>5. QED BY <1>9, <2>4
<1>12. ASSUME NEW g \in Names, g # f
       PROVE  Before(intact, Listing(gl))[g] = Before(intact, seen)[g]
  BY <1>2, <1>4, <1>6, <1>11, <1>12
<1>13. QED BY <1>8, <1>9, <1>11, <1>12 DEF gl, a, f

LEMMA WriteNextStep ==
    ASSUME Inv, WriteNext
    PROVE  Inv' /\ DirectoryStep
<1> DEFINE a == job.address
           n == IF at = "low" THEN Wild ELSE job.header.next
           v == HeaderCell(n, 0, Unnamed)
<1>1. /\ at \in {"low", "high"} /\ at' = (IF at = "low" THEN "high" ELSE "name")
      /\ flash' = [flash EXCEPT ![a].next = n]
      /\ UNCHANGED <<buffer, job, seen, intact>>
  BY DEF WriteNext
<1>2. /\ at \in AppendPlaces /\ a \in Cells /\ a \in Nat /\ flash \in [Cells -> Cell]
      /\ job.header.next \in Cells /\ job.header.next \in Nat
      /\ job.header.next > a /\ job.header.next < Last
  BY <1>1, AppendingIs DEF AppendPlaces
<1>3. Appending
  BY <1>2 DEF Inv
<1>4. flash' = [flash EXCEPT ![a] = v]
  <2>1. \E m : flash[a] = HeaderCell(m, 0, Unnamed)
    BY <1>3 DEF Appending
  <2>2. [flash[a] EXCEPT !.next = n] = v
    <3> HIDE DEF n, a
    <3>1. QED BY <2>1 DEF HeaderCell
  <2> HIDE DEF v, a, n
  <2>3. QED BY <1>1, <1>2, <2>2
<1>5. n \in Cells \cup {Wild} /\ n > a /\ n # Last /\ n # Nil
  BY <1>2, LastIs
<1>6. Sound(a, v) /\ v.name = Unnamed
  <2> HIDE DEF n
  <2>1. v \in Cell
    BY <1>5 DEF HeaderCell, Cell, Contents
  <2>2. v.next = n /\ v.name = Unnamed
    BY DEF HeaderCell
  <2> HIDE DEF v
  <2>3. QED BY <1>5, <2>1, <2>2, FileSystemAssumption DEF Sound
<1>7. /\ Good(flash', intact) /\ flash'[a] = v
      /\ [flash' EXCEPT ![a] = Erased] = Base
      /\ \A c \in Cells : c # a => flash'[c] = flash[c]
  <2> HIDE DEF v
  <2>1. QED BY <1>2, <1>4, <1>6, AppendStep
<1>8. Base' = Base
  BY <1>1, <1>7 DEF Base
<1>9. Keeps(Base)'
  <2>1. Keeps(Base)
    BY <1>3 DEF Appending
  <2> DEFINE B == Base
             C == Base'
  <2>2. Keeps(B) /\ C = B
    BY <1>8, <2>1
  <2> HIDE DEF B, C
  <2>3. /\ Good(C, intact') /\ job'.address \in InList(C)
        /\ \A x \in InList(C) : x < intact' /\ C[x].name = job'.header.name => x = job'.address
        /\ \A g \in Names : g # job'.header.name =>
              Before(intact', Listing(C))[g] = Before(intact', seen')[g]
    BY <1>1, <2>2 DEF Keeps
  <2>4. QED BY <2>3 DEF Keeps, C
<1>10. Appending'
  <2>1. flash'[job'.address] = HeaderCell(IF at' = "low" THEN Nil ELSE IF at' = "high" THEN Wild
                                          ELSE job'.header.next, 0, Unnamed)
    BY <1>1, <1>7
  <2>2. Image(flash')
    BY <1>7 DEF Good
  <2>3. QED BY <1>9, <2>1, <2>2 DEF Appending
<1>11. AllThere'
  <2>1. AllThere /\ To(job)' = To(job)
    BY <1>1, <1>2 DEF Inv, To
  <2>2. ASSUME NEW c, Outside(c) PROVE Now'[c].name = Now[c].name
    <3>1. c \in Cells /\ c # a
      <4>1. c \in Cells /\ (c < a \/ c >= To(job))
        BY <2>2 DEF Outside
      <4>2. To(job) = job.header.next \/ (To(job) \in Nat /\ To(job) >= job.header.next)
        BY <1>2, LastIs DEF Inv, JobOK, To
      <4>3. c \in Nat /\ To(job) \in Nat /\ To(job) > a
        BY <1>2, <4>1, <4>2, LastIs
      <4>4. QED BY <1>2, <4>1, <4>3
    <3>2. Now'[c] = flash'[c] /\ Now[c] = flash[c]
      BY <1>1, <3>1 DEF Now, Held
    <3>3. QED BY <1>7, <3>1, <3>2
  <2>3. QED BY <1>1, <2>1, <2>2, StillThere
<1>12. Inv'
  <2>1. JobOK(job) /\ seen[job.header.name] = Absent
    BY <1>2 DEF Inv
  <2>2. QED BY <1>1, <1>10, <1>11, <2>1 DEF Inv, AppendPlaces, RewritePlaces
<1>13. QED BY <1>1, <1>12 DEF DirectoryStep, Files

LEMMA WriteNameStep ==
    ASSUME Inv, WriteName
    PROVE  Inv' /\ DirectoryStep
<1>1. /\ at = "name" /\ flash' = [flash EXCEPT ![job.address] = job.header] /\ Ends
      /\ intact' = intact /\ at' = "idle"
  BY DEF WriteName, Ends
<1>2. at \in AppendPlaces /\ Sound(job.address, job.header) /\ job.header.name \in Names
  BY <1>1, AppendingIs DEF AppendPlaces
<1>3. /\ Good(flash', intact)
      /\ \A g \in Names : g # job.header.name =>
            Before(intact, Listing(flash'))[g] = Before(intact, seen)[g]
  BY <1>1, <1>2, AppendStep
<1>4. intact' \in Cells \cup {Wild} /\ intact \in Nat /\ seen[job.header.name] = Absent
  BY <1>1, <1>2, IntactIs DEF Inv
<1>5. Inv'
  BY <1>1, <1>3, <1>4, EndsInv
<1>6. at \notin {"idle", "clear"}
  BY <1>1
<1> DEFINE f == job.header.name
<1>7. f \in Names /\ seen[f] = Absent
  BY <1>2, <1>4
<1>8. \A g \in Names : g # f => Before(intact, Listing(flash'))[g] = Before(intact, seen)[g]
  BY <1>3
<1> HIDE DEF f
<1>9. DirectoryStep
  BY <1>1, <1>3, <1>4, <1>6, <1>7, <1>8, CreatedStep
<1>10. QED BY <1>5, <1>9

\* Nothing was written, or not all of the header.
LEMMA FailAtEndStep ==
    ASSUME Inv, Fail, at \in AppendPlaces
    PROVE  Inv' /\ DirectoryStep
<1>1. Ends /\ flash' = flash /\ at' = "idle" /\ intact' = intact
  BY DEF Fail, Ends, HeadersSplit, AppendPlaces
<1>2. /\ flash \in [Cells -> Cell] /\ job.address \in Cells /\ flash[job.address].name = Unnamed
      /\ Sound(job.address, flash[job.address]) /\ job.header.name \in Names
  BY AppendingIs
<1>3. flash' = [flash EXCEPT ![job.address] = flash[job.address]]
  BY <1>1, <1>2
<1> DEFINE v == flash[job.address]
<1>4. /\ Good(flash', intact)
      /\ \A g \in Names : g # job.header.name =>
            Before(intact, Listing(flash'))[g] = Before(intact, seen)[g]
  <2>1. Sound(job.address, v) /\ v.name \in {job.header.name, Unnamed}
        /\ flash' = [flash EXCEPT ![job.address] = v]
    BY <1>2, <1>3
  <2> HIDE DEF v
  <2>2. QED BY <2>1, AppendStep
<1>5. intact' \in Cells \cup {Wild} /\ intact \in Nat /\ seen[job.header.name] = Absent
  BY <1>1, IntactIs DEF Inv
<1>6. Inv'
  BY <1>1, <1>4, <1>5, EndsInv
<1>7. at \notin {"idle", "clear"}
  BY DEF AppendPlaces
<1> DEFINE f == job.header.name
<1>8. f \in Names /\ seen[f] = Absent
  BY <1>2, <1>5
<1>9. \A g \in Names : g # f => Before(intact, Listing(flash'))[g] = Before(intact, seen)[g]
  BY <1>4
<1> HIDE DEF f
<1>10. DirectoryStep
  BY <1>1, <1>4, <1>5, <1>7, <1>8, <1>9, CreatedStep
<1>11. QED BY <1>6, <1>10

-----------------------------------------------------------------------------
\* Where a sector is.
LEMMA SectorSpan ==
    ASSUME NEW s \in 0 .. Sectors - 1
    PROVE  /\ s \in Nat /\ s * SectorCells \in Cells /\ s * SectorCells \in Nat
           /\ (s + 1) * SectorCells = s * SectorCells + SectorCells
           /\ s * SectorCells + SectorCells \in Nat /\ s * SectorCells + SectorCells <= Wild
           /\ s + 1 <= Sectors - 1 => s * SectorCells + SectorCells < Wild
           /\ s = 0 => s * SectorCells = 0
           /\ s > 0 => s * SectorCells > 0
           /\ \A c \in Cells :
                 /\ SectorOf(c) = s <=> s * SectorCells <= c /\ c < s * SectorCells + SectorCells
                 /\ SectorOf(c) < s <=> c < s * SectorCells
<1>1. SectorCells \in Nat \ {0} /\ Sectors \in Nat \ {0} /\ s \in Nat /\ s + 1 <= Sectors
  BY SizesOf
<1>2. (s + 1) * SectorCells = s * SectorCells + SectorCells /\ s * SectorCells \in Nat
  BY <1>1
<1>3. (s + 1) * SectorCells <= Sectors * SectorCells
  BY <1>1
<1>4. Sectors * SectorCells = Wild /\ Wild = Last + 1 /\ Last \in Nat
  BY <1>1, LastIs DEF Last
<1>5. s + 1 <= Sectors - 1 => (s + 1) * SectorCells < Sectors * SectorCells
  BY <1>1
<1>6. s = 0 => s * SectorCells = 0
  BY <1>1
<1>7. s > 0 => s * SectorCells > 0
  BY <1>1
<1>8. ASSUME NEW c \in Cells
      PROVE  /\ SectorOf(c) = s <=> s * SectorCells <= c /\ c < s * SectorCells + SectorCells
             /\ SectorOf(c) < s <=> c < s * SectorCells
  <2> DEFINE d == SectorOf(c)
             r == c % SectorCells
  <2>1. d \in Nat /\ r \in 0 .. SectorCells - 1 /\ c = d * SectorCells + r
    BY Divided, SizesOf
  <2> HIDE DEF d, r
  <2>2. d < s => (d + 1) * SectorCells <= s * SectorCells
    BY <1>1, <2>1
  <2>3. d > s => (s + 1) * SectorCells <= d * SectorCells
    BY <1>1, <2>1
  <2>4. (d + 1) * SectorCells = d * SectorCells + SectorCells /\ d * SectorCells \in Nat
    BY <1>1, <2>1
  <2>5. d = s => d * SectorCells = s * SectorCells
    OBVIOUS
  <2> DEFINE x == d * SectorCells
             y == s * SectorCells
             z == (d + 1) * SectorCells
             t == (s + 1) * SectorCells
  <2>6. /\ x \in Nat /\ y \in Nat /\ c = x + r /\ z = x + SectorCells /\ t = y + SectorCells
        /\ d < s => z <= y
        /\ d > s => t <= x
        /\ d = s => x = y
    BY <1>2, <2>1, <2>2, <2>3, <2>4, <2>5
  <2> HIDE DEF x, y, z, t
  <2>7. /\ d = s <=> y <= c /\ c < y + SectorCells
        /\ d < s <=> c < y
    BY <1>1, <2>1, <2>6
  <2>8. QED BY <2>7 DEF d, y
<1> DEFINE y == s * SectorCells
<1>9. /\ y \in Nat /\ y + SectorCells <= Wild
      /\ s + 1 <= Sectors - 1 => y + SectorCells < Wild
  BY <1>2, <1>3, <1>4, <1>5
<1>10. y \in Cells
  <2> HIDE DEF y
  <2>1. QED BY <1>1, <1>4, <1>9, LastIs
<1> HIDE DEF y
<1>11. y + SectorCells \in Nat
  BY <1>1, <1>9
<1>12. QED BY <1>1, <1>2, <1>6, <1>7, <1>8, <1>9, <1>10, <1>11 DEF y

LEMMA SectorErasedIs ==
    ASSUME Image(flash)
    PROVE  /\ Image(SectorErased)
           /\ \A c \in Cells : SectorErased[c] =
                 IF SectorOf(c) = job.sector THEN Erased ELSE flash[c]
BY ErasedIsSound DEF Image, SectorErased

LEMMA ClearFSStep ==
    ASSUME Inv, clearFS
    PROVE  Inv' /\ DirectoryStep
<1>1. at = "idle" /\ Good(flash, intact) /\ Image(flash)
  BY DEF clearFS, Inv, Good
<1>2. /\ at' = "clear" /\ flash' = flash /\ buffer' = buffer /\ seen' = Listing(flash)
      /\ job'.sector = SectorOf(0) /\ intact' = intact
  BY DEF clearFS, Begins
<1>3. SectorOf(0) = 0 /\ 0 \in 0 .. Sectors - 1
  BY SizesOf DEF SectorOf
<1>4. Clearing'
  BY <1>1, <1>2, <1>3 DEF Clearing
<1>5. seen' = [g \in Names |-> seen'[g]]
  BY <1>2 DEF Listing
<1>6. Inv'
  <2>1. "sector" \in DOMAIN job'
    BY JobBegun DEF clearFS
  <2>2. QED BY <1>2, <1>4, <1>5, <2>1 DEF Inv, AppendPlaces, RewritePlaces
<1>7. DirectoryStep
  BY <1>1, <1>2 DEF DirectoryStep, Files
<1>8. QED BY <1>6, <1>7

LEMMA ClearSectorStep ==
    ASSUME Inv, ClearSector
    PROVE  Inv' /\ DirectoryStep
<1> DEFINE s     == job.sector
           start == s * SectorCells
           end   == start + SectorCells
           Blank(fl, p) == \A c \in Cells : c < p => fl[c] = Erased
           Done  == /\ intact' \in Cells \cup {Wild} /\ Good(flash', intact') /\ intact' <= end
                    /\ intact' = end => Blank(flash', end)
<1>1. at = "clear" /\ Clearing /\ at' \in {"idle", "clear"} /\ "sector" \in DOMAIN job
  BY DEF ClearSector, Ends, Inv
<1>2. /\ s \in 0 .. Sectors - 1 /\ s \in Nat /\ Good(flash, intact) /\ Image(flash)
      /\ s > 0 => intact <= start /\ (intact = start => Blank(flash, start))
  BY <1>1, SizesOf DEF Clearing, Good
<1>3. /\ start \in Cells /\ start \in Nat
      /\ (s + 1) * SectorCells = end /\ end \in Nat /\ end <= Wild
      /\ end > start
      /\ s = 0 => start = 0
      /\ s > 0 => start > 0
      /\ \A c \in Cells : /\ SectorOf(c) = s <=> start <= c /\ c < end
                          /\ SectorOf(c) < s <=> c < start
  <2>1. end > start
    <3>1. start \in Nat
      BY <1>2, SectorSpan
    <3> HIDE DEF start
    <3>2. QED BY <3>1, SizesOf
  <2>2. QED BY <1>2, <2>1, SectorSpan
<1>4. intact \in Nat /\ intact \in Cells \cup {Wild}
  BY IntactIs DEF Inv
<1>5. Files = Before(intact, Listing(flash)) /\ Files' = Before(intact', Listing(flash'))
  BY <1>1 DEF Files
<1>6. /\ \/ flash' = SectorErased /\ intact' = IF start \in {0, intact} THEN end ELSE intact
         \/ flash' = flash /\ intact' = IF start < intact THEN start ELSE intact
      /\ IF s = Sectors - 1 THEN Ends
         ELSE job' = [job EXCEPT !.sector = s + 1] /\ UNCHANGED <<buffer, at, seen>>
  BY DEF ClearSector, DamagedFrom, FollowingSector
<1>7. /\ Image(SectorErased)
      /\ \A c \in Cells : SectorErased[c] = IF SectorOf(c) = s THEN Erased ELSE flash[c]
  BY <1>2, SectorErasedIs
<1> HIDE DEF s, start, end
<1>8. ASSUME flash' = flash, intact' = IF start < intact THEN start ELSE intact
      PROVE  Done /\ DirectoryStep
  <2>1. intact' \in Nat /\ intact' <= intact /\ intact' <= start /\ intact' \in Cells \cup {Wild}
    BY <1>3, <1>4, <1>8
  <2>2. Good(flash', intact')
    BY <1>2, <1>4, <1>8, <2>1, Lower
  <2>3. intact' < end
    BY <1>3, <2>1
  <2>4. Done
    BY <1>3, <2>1, <2>2, <2>3
  <2>5. \A g \in Names : Ended(Listing(flash)[g])
    BY <1>2, ListedEnds
  <2>6. Files' = Before(intact', Files)
    BY <1>4, <1>5, <1>8, <2>1, <2>5, BeforeTwice
  <2>7. QED BY <2>1, <2>4, <2>6, LoseStep
<1>9. ASSUME flash' = SectorErased, start \in {0, intact}, intact' = end
      PROVE  Done /\ DirectoryStep
  <2>1. Blank(flash', end)
    <3>1. ASSUME NEW c \in Cells, c < end PROVE flash'[c] = Erased
      <4>1. CASE SectorOf(c) = s
        BY <1>7, <1>9, <4>1
      <4>2. CASE SectorOf(c) # s
        <5>1. c \in Nat
          BY LastIs
        <5>2. c < start
          BY <1>3, <3>1, <4>2, <5>1
        <5>3. s > 0 /\ start = intact
          BY <1>2, <1>3, <1>9, <5>1, <5>2
        <5>4. QED BY <1>2, <1>7, <1>9, <4>2, <5>2, <5>3
      <4>3. QED BY <4>1, <4>2
    <3>2. QED BY <3>1
  <2>2. end > 0
    BY <1>3
  <2>3. Good(flash', end) /\ Listing(flash') = [f \in Names |-> Absent]
    BY <1>3, <1>7, <1>9, <2>1, <2>2, BlankIsGood
  <2>4. end \in Cells \cup {Wild}
    BY <1>3, LastIs
  <2>5. Done
    BY <1>3, <1>9, <2>1, <2>3, <2>4
  <2>6. Files' = [f \in Names |-> Absent]
    BY <1>5, <2>3 DEF Before
  <2>7. D!Clear
    BY <1>1, <2>6 DEF D!Clear, Files
  <2>8. QED BY <2>5, <2>7 DEF DirectoryStep, D!Next
<1>10. ASSUME flash' = SectorErased, start \notin {0, intact}, intact' = intact
       PROVE  Done /\ DirectoryStep
  <2>1. s > 0 /\ intact < start
    BY <1>2, <1>3, <1>4, <1>10
  <2>2. \A c \in Cells : c < intact => flash'[c] = flash[c]
    <3>1. ASSUME NEW c \in Cells, c < intact PROVE flash'[c] = flash[c]
      <4>1. c < start /\ c \in Nat
        BY <1>3, <1>4, <2>1, <3>1, LastIs
      <4>2. SectorOf(c) # s
        BY <1>3, <4>1
      <4>3. QED BY <1>7, <1>10, <4>2
    <3>2. QED BY <3>1
  <2>3. Good(flash', intact) /\ Before(intact, Listing(flash')) = Before(intact, Listing(flash))
    <3> DEFINE gl == flash'
    <3>1. Image(gl) /\ \A c \in Cells : c < intact => gl[c] = flash[c]
      BY <1>7, <1>10, <2>2
    <3> HIDE DEF gl
    <3>2. Good(gl, intact) /\ Before(intact, Listing(gl)) = Before(intact, Listing(flash))
      BY <1>2, <1>4, <3>1, PrefixGood
    <3>3. QED BY <3>2 DEF gl
  <2>4. intact < end
    BY <1>3, <1>4, <2>1
  <2>5. Done
    BY <1>3, <1>4, <1>10, <2>3, <2>4
  <2>6. Files' = Files
    BY <1>5, <1>10, <2>3
  <2>7. QED BY <2>5, <2>6 DEF DirectoryStep
<1>11. Done /\ DirectoryStep
  BY <1>6, <1>8, <1>9, <1>10
<1>12. CASE s = Sectors - 1
  BY <1>6, <1>11, <1>12, EndsInv
<1>13. CASE s # Sectors - 1
  <2>1. job' = [job EXCEPT !.sector = s + 1] /\ UNCHANGED <<buffer, at, seen>>
    BY <1>6, <1>13
  <2>2. job'.sector = s + 1 /\ "sector" \in DOMAIN job'
    BY <1>1, <2>1, NextSector DEF s
  <2>3. s + 1 \in 0 .. Sectors - 1 /\ s + 1 > 0
    BY <1>2, <1>13, SizesOf
  <2>4. Clearing'
    <3>1. job'.sector * SectorCells = end
      BY <1>3, <2>2
    <3>2. QED BY <1>11, <2>2, <2>3, <3>1 DEF Clearing
  <2>5. Inv'
    BY <1>1, <1>11, <2>1, <2>2, <2>4 DEF Inv, AppendPlaces, RewritePlaces
  <2>6. QED BY <1>11, <2>5
<1>14. QED BY <1>12, <1>13

\* The file that unlink and open find.
LEMMA FoundIs ==
    ASSUME Image(flash), NEW f \in Names, findFile(f)
    PROVE  /\ getAddress(flash, f) \in InList(flash) /\ flash[getAddress(flash, f)].name = f
           /\ \A b \in InList(flash) : flash[b].name = f => getAddress(flash, f) <= b
<1>1. Named(flash, f) # {}
  BY DEF findFile
<1>2. /\ getAddress(flash, f) \in Named(flash, f)
      /\ \A b \in Named(flash, f) : getAddress(flash, f) <= b
  BY <1>1, Listed
<1>3. QED BY <1>2 DEF Named

LEMMA UnlinkStep ==
    ASSUME Inv, NEW f \in Names, unlink(f)
    PROVE  Inv' /\ DirectoryStep
<1> DEFINE a  == getAddress(flash, f)
           L  == InList(flash)
           p  == intact
           gl == flash'
<1>1. /\ at = "idle" /\ Good(flash, p) /\ Image(flash) /\ findFile(f)
      /\ gl = [flash EXCEPT ![a].name = NoName] /\ UNCHANGED <<buffer, at, job, seen, intact>>
  BY DEF unlink, ZeroName, Inv, Good
<1>2. a \in L /\ flash[a].name = f /\ \A b \in L : flash[b].name = f => a <= b
  BY <1>1, FoundIs
<1>3. (\A x \in L : x \in Cells /\ x \in Nat) /\ p \in Nat
  BY <1>1, ImageIs, IntactIs
<1> HIDE DEF a
<1>4. /\ \A c \in Cells : c # a => gl[c] = flash[c]
      /\ gl[a].next = flash[a].next /\ gl[a].name = NoName
      /\ gl \in [Cells -> Cell] /\ Sound(a, gl[a])
  <2> DEFINE v == [flash[a] EXCEPT !.name = NoName]
  <2>1. flash \in [Cells -> Cell] /\ Sound(a, flash[a]) /\ flash[a] \in Cell
    BY <1>1, <1>2, <1>3 DEF Image, Sound
  <2>2. gl = [flash EXCEPT ![a] = v]
    BY <1>1, <1>2, <1>3, <2>1
  <2>3. v \in Cell /\ v.next = flash[a].next /\ v.name = NoName
    BY <2>1 DEF Cell, Contents
  <2>4. flash[a].next < Last
    BY <1>2, <2>1 DEF Sound
  <2>5. v.next # Nil /\ v.name \notin Names
    BY <1>1, <1>2, <2>3, <2>4, LastIs, ImageIs, FileSystemAssumption
  <2>6. Sound(a, v)
    BY <2>1, <2>3, <2>5 DEF Sound
  <2> HIDE DEF v, gl
  <2>7. QED BY <1>2, <1>3, <2>1, <2>2, <2>3, <2>6
<1> HIDE DEF gl
<1>5. Image(gl)
  BY <1>1, <1>4 DEF Image
<1>6. InList(gl) = L
  BY <1>1, <1>3, <1>4, <1>5, SameList, ImageIs
<1>7. NoName \notin Names
  BY FileSystemAssumption
<1>8. \A x \in L : x # a => gl[x] = flash[x]
  BY <1>3, <1>4
<1> HIDE DEF p
<1>9. Good(gl, p)
  <2>1. ASSUME NEW x \in L, NEW y \in L, x < p, y < p,
               gl[x].name = gl[y].name, gl[x].name \in Names
        PROVE  x = y
    <3>1. gl[x] = flash[x] /\ gl[y] = flash[y]
      BY <1>4, <1>7, <1>8, <2>1
    <3>2. QED BY <1>1, <2>1, <3>1 DEF Good
  <2>2. ASSUME NEW x \in L, x < p, gl[x].next = Nil, NEW c \in Cells, x <= c, c < p
        PROVE  gl[c] = Erased
    <3>1. flash[x].next = Nil
      BY <1>4, <1>8, <2>2
    <3>2. flash[c] = Erased /\ flash[x] = Erased
      BY <1>1, <1>3, <2>2, <3>1 DEF Good, Image, Sound
    <3>3. Unnamed \notin Names
      BY FileSystemAssumption
    <3>4. x # a
      BY <1>2, <3>2, <3>3 DEF Erased
    <3>5. a <= x
      BY <1>1, <1>2, <2>2, <3>1, NewestIsLast
    <3>6. c # a
      BY <1>2, <1>3, <2>2, <3>4, <3>5, LastIs
    <3>7. QED BY <1>4, <3>2, <3>6
  <2>3. QED BY <1>5, <1>6, <2>1, <2>2 DEF Good
<1>10. Before(p, Listing(gl))[f] = Absent
  <2>1. ASSUME NEW x \in L, x < p, gl[x].name = f PROVE FALSE
    <3>1. x # a /\ flash[x].name = f
      BY <1>4, <1>7, <1>8, <2>1
    <3>2. a < p
      BY <1>2, <1>3, <2>1, <3>1
    <3>3. QED BY <1>1, <1>2, <2>1, <3>1, <3>2 DEF Good
  <2>2. QED BY <1>3, <1>6, <1>9, <2>1, Shown
<1>11. ASSUME NEW g \in Names, g # f
       PROVE  Before(p, Listing(gl))[g] = Before(p, Listing(flash))[g]
  <2>1. \A x \in InList(gl) : x < p /\ gl[x].name = g => x \in InList(flash) /\ flash[x].name = g
    BY <1>4, <1>6, <1>7, <1>8
  <2>2. ASSUME NEW x \in InList(flash), flash[x].name = g
        PROVE  /\ x \in InList(gl) /\ gl[x].name = g /\ gl[x].size = flash[x].size
               /\ \A i \in 1 .. flash[x].size : gl[x + i].name = flash[x + i].name
    <3>1. x # a /\ gl[x] = flash[x]
      BY <1>2, <1>8, <1>11, <2>2
    <3>2. \A i \in 1 .. flash[x].size : x + i \in Cells /\ x + i # a
      BY <1>1, <1>2, <2>2, FileInside
    <3>3. QED BY <1>4, <1>6, <2>2, <3>1, <3>2
  <2>3. \A x \in InList(flash) : x < p /\ flash[x].name = g =>
           /\ x \in InList(gl) /\ gl[x].name = g /\ gl[x].size = flash[x].size
           /\ x + flash[x].size < p =>
                 \A i \in 1 .. flash[x].size : gl[x + i].name = flash[x + i].name
    BY <2>2
  <2>4. Good(flash, p) /\ p \in Nat
    BY <1>1, <1>3
  <2>5. QED BY ONLY <1>9, <1>11, <2>1, <2>3, <2>4, SameFile
<1>12. Inv'
  <2>1. Good(flash', intact')
    BY <1>1, <1>9 DEF gl, p
  <2>2. QED BY <1>1, <2>1 DEF Inv, AppendPlaces, RewritePlaces
<1>13. DirectoryStep
  <2> DEFINE old == Before(p, Listing(flash))
             new == Before(p, Listing(gl))
  <2>1. Files = old /\ Files' = new
    BY <1>1 DEF Files, gl, p
  <2>2. new = [g \in Names |-> new[g]] /\ old = [g \in Names |-> old[g]]
    BY BeforeIs
  <2>3. new[f] = Absent /\ \A g \in Names : g # f => new[g] = old[g]
    BY <1>10, <1>11
  <2> HIDE DEF old, new
  <2>4. new = [old EXCEPT ![f] = Absent]
    BY <2>2, <2>3
  <2>5. CASE old[f] = Absent
    <3>1. new = old
      BY <2>2, <2>3, <2>5
    <3>2. QED BY <2>1, <3>1 DEF DirectoryStep
  <2>6. CASE old[f] # Absent
    <3>1. D!Remove(f)
      BY <2>1, <2>4, <2>6 DEF D!Remove, Files
    <3>2. QED BY <3>1 DEF DirectoryStep, D!Next
  <2>7. QED BY <2>5, <2>6
<1>14. QED BY <1>12, <1>13

LEMMA UseStep ==
    ASSUME Inv, NEW f \in Names, NEW size \in Sizes, NEW w \in {NoName, Text},
           NEW i \in 1 .. size, Use(f, i, w)
    PROVE  Inv' /\ DirectoryStep
<1> DEFINE a  == getAddress(flash, f)
           q  == a + i
           L  == InList(flash)
           p  == intact
           gl == flash'
<1>1. /\ at = "idle" /\ Good(flash, p) /\ Image(flash) /\ findFile(f)
      /\ i \in 1 .. flash[a].size
      /\ gl = [flash EXCEPT ![q] = DataCell(w)] /\ UNCHANGED <<buffer, at, job, seen, intact>>
  BY DEF Use, Inv, Good
<1>2. a \in L /\ flash[a].name = f /\ \A b \in L : flash[b].name = f => a <= b
  BY <1>1, FoundIs
<1>3. (\A x \in L : x \in Cells /\ x \in Nat) /\ p \in Nat
  BY <1>1, ImageIs, IntactIs
<1>4. /\ q \in Cells /\ q < flash[a].next /\ flash[a].next \in L /\ q \notin L
      /\ flash[a].size \in Nat
  BY <1>1, <1>2, FileInside
<1>5. Sound(q, DataCell(w))
  BY <1>4, LastIs, FileSystemAssumption DEF Sound, DataCell, Cell, Contents
<1>6. /\ Image(gl) /\ gl[q].name = w
      /\ \A c \in Cells \ {q} : gl[c] = flash[c]
  <2>1. flash \in [Cells -> Cell] /\ DataCell(w) \in Cell /\ DataCell(w).name = w
    BY <1>1, <1>5 DEF Image, Sound, DataCell
  <2> HIDE DEF q
  <2>2. QED BY <1>1, <1>4, <1>5, <2>1 DEF Image
<1> HIDE DEF gl
<1> DEFINE Gone == {q}
<1>7. /\ Gone \in SUBSET Cells /\ Gone \cap L = {} /\ \A c \in Gone : c < flash[a].next
      /\ \A c \in Cells \ Gone : gl[c] = flash[c]
  BY <1>4, <1>6
<1> HIDE DEF Gone
<1>8. /\ InList(gl) = L /\ Good(gl, p)
      /\ \A g \in Names :
            (\A b \in Named(flash, g) : \A k \in 1 .. flash[b].size : b + k \notin Gone)
               => Before(p, Listing(gl))[g] = Before(p, Listing(flash))[g]
  <2> DEFINE e == flash[a].next
  <2>1. Good(flash, p) /\ Image(gl) /\ e \in InList(flash) /\ Gone \cap InList(flash) = {}
        /\ (\A c \in Gone : c < e) /\ (\A c \in Cells \ Gone : gl[c] = flash[c])
    BY <1>1, <1>4, <1>6, <1>7
  <2> HIDE DEF e, p
  <2>2. QED BY <1>3, <1>7, <2>1, Patched
<1>9. ASSUME NEW g \in Names, g # f
      PROVE  Before(p, Listing(gl))[g] = Before(p, Listing(flash))[g]
  <2>1. ASSUME NEW b \in Named(flash, g), NEW k \in 1 .. flash[b].size PROVE b + k # q
    <3>1. b \in L /\ flash[b].name \in Names /\ flash[a].name \in Names /\ b # a
      BY <1>2, <1>9, <2>1 DEF Named
    <3>2. k \in 0 .. flash[b].size /\ i \in 0 .. flash[a].size
      BY <1>1, <1>4, <3>1, FileInside
    <3>3. QED BY <1>1, <1>2, <3>1, <3>2, FilesApart
  <2>2. QED BY <1>8, <2>1 DEF Gone
<1>10. Inv'
  <2>1. Good(flash', intact')
    BY <1>1, <1>8 DEF gl
  <2>2. QED BY <1>1, <2>1 DEF Inv, AppendPlaces, RewritePlaces
<1>11. a # q /\ a \in Cells /\ a \in Nat /\ gl[a] = flash[a]
  <2>1. a # q /\ a \in Cells /\ a \in Nat
    BY <1>2, <1>3, <1>4
  <2>2. QED BY <1>6, <2>1
<1>12. FileAt(gl, a) = [FileAt(flash, a) EXCEPT !.data[i] = w]
  <2> DEFINE n == flash[a].size
             d == [k \in 1 .. n |-> flash[a + k].name]
             e == [k \in 1 .. n |-> gl[a + k].name]
  <2>1. \A k \in 1 .. n : e[k] = IF k = i THEN w ELSE d[k]
    <3>1. \A k \in 1 .. n : a + k \in Cells /\ (k # i => a + k # q)
      BY <1>1, <1>2, <1>4, <1>11, FileInside
    <3>2. QED BY <1>6, <3>1
  <2>2. e = [k \in 1 .. n |-> e[k]] /\ d = [k \in 1 .. n |-> d[k]]
    OBVIOUS
  <2>3. /\ FileAt(flash, a) = [start |-> a, data |-> d]
        /\ FileAt(gl, a) = [start |-> a, data |-> e]
    BY <1>11 DEF FileAt
  <2> HIDE DEF d, e
  <2>4. e = [d EXCEPT ![i] = w]
    BY <1>1, <2>1, <2>2
  <2> HIDE DEF n, a
  <2>5. QED BY <2>3, <2>4
<1> DEFINE old == Before(p, Listing(flash))
           new == Before(p, Listing(gl))
<1>13. Files = old /\ Files' = new
  BY <1>1 DEF Files, gl
<1>14. new = [g \in Names |-> new[g]] /\ old = [g \in Names |-> old[g]]
  BY BeforeIs
<1>15. CASE a < p /\ a + flash[a].size < p
  <2>1. old[f] = FileAt(flash, a)
    BY <1>1, <1>2, <1>3, <1>15, Shown
  <2>2. new[f] = FileAt(gl, a)
    <3>1. a \in InList(gl) /\ gl[a].name = f /\ gl[a].size = flash[a].size
      BY <1>2, <1>8, <1>11
    <3>2. QED BY <1>3, <1>8, <1>15, <3>1, Shown
  <2>3. old[f] # Absent
    BY <1>1, <1>2, <2>1, FileIsFile
  <2>4. i \in DOMAIN old[f].data /\ w \in Contents
    BY <1>1, <2>1 DEF FileAt, Contents
  <2>5. new[f] = [old[f] EXCEPT !.data[i] = w] /\ \A g \in Names : g # f => new[g] = old[g]
    BY <1>9, <1>12, <2>1, <2>2
  <2> HIDE DEF old, new
  <2>6. new = [old EXCEPT ![f] = [old[f] EXCEPT !.data[i] = w]]
    BY <1>14, <2>5
  <2>7. new = [old EXCEPT ![f].data[i] = w]
    BY <2>6
  <2>8. D!Write(f, i, w)
    BY <1>13, <2>3, <2>4, <2>7 DEF D!Write, Files
  <2>9. DirectoryStep
    BY <1>13, <2>3, <2>4, <2>8 DEF DirectoryStep, D!Next, Files
  <2>10. QED BY <1>10, <2>9
<1>16. CASE ~(a < p /\ a + flash[a].size < p)
  <2>1. new[f] = Absent /\ old[f] = Absent
    <3>1. CASE a < p
      <4>1. old[f] = Absent
        BY <1>1, <1>2, <1>3, <1>16, <3>1, Shown
      <4>2. a \in InList(gl) /\ gl[a].name = f /\ gl[a].size = flash[a].size
        BY <1>2, <1>8, <1>11
      <4>3. new[f] = Absent
        BY <1>3, <1>8, <1>16, <3>1, <4>2, Shown
      <4>4. QED BY <4>1, <4>3
    <3>2. CASE ~(a < p)
      <4>1. \A x \in L : x < p => flash[x].name # f
        BY <1>2, <1>3, <1>11, <3>2
      <4>2. \A x \in L : gl[x] = flash[x]
        BY <1>3, <1>4, <1>6
      <4>3. old[f] = Absent
        BY <1>1, <1>3, <4>1, Shown
      <4>4. \A x \in InList(gl) : x < p => gl[x].name # f
        BY <1>8, <4>1, <4>2
      <4>5. new[f] = Absent
        BY <1>3, <1>8, <4>4, Shown
      <4>6. QED BY <4>3, <4>5
    <3>3. QED BY <3>1, <3>2
  <2>2. \A g \in Names : new[g] = old[g]
    BY <1>9, <2>1
  <2> HIDE DEF old, new
  <2>3. new = old
    BY <1>14, <2>2
  <2>4. QED BY <1>10, <1>13, <2>3 DEF DirectoryStep
<1>17. QED BY <1>15, <1>16

-----------------------------------------------------------------------------
(***************************************************************************)
(* Into holes.                                                             *)
(***************************************************************************)
LEMMA SectorInt ==
    ASSUME NEW c \in Cells
    PROVE  SectorOf(c) \in Int /\ SectorOf(c) \in Nat
BY Divided, SizesOf

LEMMA JobFacts ==
    ASSUME NEW j, JobOK(j)
    PROVE  /\ j.address \in Cells /\ j.address \in Nat
           /\ j.header.next \in Cells /\ j.header.next \in Nat
           /\ j.address < j.header.next /\ j.header.next < Last
           /\ To(j) \in Cells /\ To(j) \in Nat /\ j.header.next <= To(j) /\ To(j) < Last
           /\ Rest(j) => To(j) = j.false /\ j.header.next < To(j)
           /\ ~Rest(j) => To(j) = j.header.next
           /\ j.false # Nil => To(j) = j.false
           /\ j.header.name \in Names
           /\ Sound(j.address, j.header)
           /\ Rest(j) => /\ Sound(j.header.next, FalseHeader(j.false))
                         /\ FalseHeader(j.false).next = To(j)
                         /\ FalseHeader(j.false).name \notin Names
<1> DEFINE a == j.address
           n == j.header.next
<1>1. a \in Nat /\ n \in Nat /\ a \in Cells /\ n \in Cells /\ n < Last /\ j.header.name \in Names
  BY LastIs DEF JobOK
<1>2. j.header \in Cell /\ j.header.size \in Nat
  <2>1. j.header.size \in Sizes \cup {0}
    BY DEF JobOK, Cell
  <2>2. QED BY <2>1, SizesOf DEF JobOK
<1>3. n >= a + j.header.size + 2
  BY DEF JobOK
<1>4. a < n
  BY <1>1, <1>2, <1>3
<1>5. Sound(a, j.header)
  BY <1>1, <1>2, <1>3, <1>4, LastIs DEF Sound
<1>6. /\ To(j) \in Cells /\ n <= To(j) /\ To(j) < Last
      /\ Rest(j) => To(j) = j.false /\ n < To(j)
      /\ ~Rest(j) => To(j) = n
      /\ j.false # Nil => To(j) = j.false
  <2>1. CASE j.false = Nil
    BY <1>1, <2>1 DEF To, Rest
  <2>2. CASE j.false # Nil
    <3>1. To(j) = j.false /\ j.false \in Cells /\ n <= j.false /\ j.false < Last
      BY <2>2 DEF To, JobOK
    <3>2. j.false \in Nat
      BY <3>1, LastIs
    <3>3. Rest(j) <=> j.false # n
      BY <2>2 DEF Rest
    <3>4. QED BY <1>1, <2>2, <3>1, <3>2, <3>3
  <2>3. QED BY <2>1, <2>2
<1>7. To(j) \in Nat
  BY <1>6, LastIs
<1>8. ASSUME Rest(j)
      PROVE  /\ Sound(n, FalseHeader(j.false))
             /\ FalseHeader(j.false).next = To(j)
             /\ FalseHeader(j.false).name \notin Names
  <2>1. j.false \in Cells /\ j.false \in Nat /\ j.false < Last /\ n < j.false
    BY <1>6, <1>7, <1>8
  <2>2. NoName \notin Names
    BY FileSystemAssumption
  <2>3. FalseHeader(j.false) \in Cell
    BY <2>1 DEF FalseHeader, HeaderCell, Cell, Contents
  <2>4. QED BY <1>1, <1>6, <1>8, <2>1, <2>2, <2>3, LastIs DEF FalseHeader, HeaderCell, Sound
<1>9. QED BY <1>1, <1>4, <1>5, <1>6, <1>7, <1>8

LEMMA WrittenIs ==
    ASSUME NEW fl, NEW j, Image(fl), JobOK(j)
    PROVE  /\ Image(Written(fl, j)) /\ Written(fl, j)[j.address] = j.header
           /\ Rest(j) => Written(fl, j)[j.header.next] = FalseHeader(j.false)
           /\ \A c \in Cells : c # j.address /\ c # j.header.next => Written(fl, j)[c] = fl[c]
           /\ ~Rest(j) => Written(fl, j)[j.header.next] = fl[j.header.next]
<1>1. /\ j.address \in Cells /\ j.header.next \in Cells /\ j.address # j.header.next
      /\ Sound(j.address, j.header)
      /\ Rest(j) => Sound(j.header.next, FalseHeader(j.false))
  BY JobFacts
<1>2. \A c \in Cells : Sound(c, fl[c])
  BY DEF Image
<1>3. \A c \in Cells : Sound(c, Written(fl, j)[c])
  BY <1>1, <1>2 DEF Written
<1>4. Written(fl, j) \in [Cells -> Cell]
  BY <1>3 DEF Written, Sound
<1>5. QED BY <1>1, <1>3, <1>4 DEF Image, Written

\* A job of CreateInHole replaces holes, from one header to e.  Where what is
\* left of them gets no header, the list is intact up to it at most.
JobUpTo(e, f) ==
    /\ at' = "erase buffer" /\ flash' = flash /\ buffer' = buffer
    /\ seen' = Listing(flash)
    /\ job'.sector = SectorOf(job'.address) /\ job'.header.name = f
    /\ JobOK(job') /\ job'.address \in InList(flash)
    /\ Spans(job'.address, e) /\ e \in Nat /\ e < Last /\ job'.header.next <= e
    /\ \/ To(job') = e /\ intact' = intact /\ (job'.header.next < e => Rest(job'))
       \/ /\ ~Rest(job') /\ job'.header.next < e
          /\ intact' = IF job'.header.next < intact THEN job'.header.next ELSE intact

LEMMA HoleJob ==
    ASSUME Image(flash), NEW f \in Names, NEW size \in Sizes, CreateInHole(f, size)
    PROVE  Named(flash, f) = {} /\ \E e : JobUpTo(e, f)
<1> DEFINE need == Need(size)
<1>1. PICK a \in Holes(need) :
         \/ FillsHole(a, f, size) \/ SplitsHole(a, f, size) \/ MergesHoles(a, f, size)
  BY DEF CreateInHole
<1>2. Image(flash) /\ Named(flash, f) = {}
  BY DEF CreateInHole, findFile
<1>3. size \in Nat /\ need = size + 2 /\ need \in Nat
  BY SizesOf DEF Need
<1>4. /\ a \in InList(flash) /\ ~isValid(a)
      /\ HoleSize(a, need) >= need /\ a + HoleSize(a, need) < Last
  BY <1>2, <1>3, HolesAre
<1>5. a \in Cells /\ a \in Nat /\ flash[a].next \in Nat /\ flash[a].next > a
  BY <1>2, <1>4, ImageIs
<1> DEFINE e == a + HoleSize(a, need)
<1>6. /\ HoleSize(a, need) \in Nat /\ Spans(a, e) /\ HoleEnd(a, need) = e
      /\ flash[a].next - a >= need => e = flash[a].next
  BY <1>2, <1>3, <1>4, HoleSpan
<1>7. e \in Nat /\ e < Last /\ e >= a + need /\ e \in Cells
  <2>1. HoleSize(a, need) \in Nat /\ HoleSize(a, need) >= need /\ a + HoleSize(a, need) < Last
    BY <1>4, <1>6
  <2>2. QED BY <1>3, <1>5, <2>1, LastIs
<1> HIDE DEF e
<1>8. ASSUME NEW next, NEW false,
             Begins("erase buffer", a, HeaderCell(next, size, f), false)
      PROVE  /\ at' = "erase buffer" /\ flash' = flash /\ buffer' = buffer
             /\ seen' = Listing(flash)
             /\ job'.address = a /\ job'.sector = SectorOf(a) /\ job'.false = false
             /\ job'.header = HeaderCell(next, size, f)
  <2>1. /\ at' = "erase buffer" /\ flash' = flash /\ buffer' = buffer
        /\ seen' = Listing(flash)
    BY <1>8 DEF Begins
  <2> DEFINE h == HeaderCell(next, size, f)
             s == SectorOf(a)
  <2>2. job' = [address |-> a, header |-> h, false |-> false, sector |-> s]
    BY <1>8 DEF Begins
  <2> HIDE DEF h, s
  <2>3. /\ job'.address = a /\ job'.sector = s /\ job'.false = false
        /\ job'.header = h
    BY <2>2
  <2>4. QED BY <2>1, <2>3 DEF h, s
<1>9. \A next : HeaderCell(next, size, f).name = f /\ HeaderCell(next, size, f).next = next
                /\ HeaderCell(next, size, f).size = size
                /\ (next \in Cells => HeaderCell(next, size, f) \in Cell)
  BY DEF HeaderCell, Cell
<1>10. need \in Nat /\ a + need \in Nat /\ a + need \in Cells /\ a + need < Last
  BY <1>3, <1>5, <1>7, LastIs
<1> HIDE DEF need
<1> DEFINE Job(false) == Begins("erase buffer", a, HeaderCell(a + need, size, f), false)
           n == a + need
           Cut == intact' = IF n < intact THEN n ELSE intact
<1>11. \/ Job(Nil) /\ n = e /\ intact' = intact
       \/ Job(e) /\ intact' = intact
       \/ Job(Nil) /\ n < e /\ Cut
  <2>1. CASE FillsHole(a, f, size)
    <3>1. flash[a].next - a = need /\ intact' = intact
          /\ Begins("erase buffer", a, HeaderCell(flash[a].next, size, f), Nil)
      BY <2>1 DEF FillsHole, need
    <3>2. flash[a].next = a + need /\ e = flash[a].next
      <4> DEFINE q == flash[a].next
      <4>1. q \in Nat /\ q - a = need /\ (q - a >= need => e = q)
        BY <1>5, <1>6, <3>1
      <4> HIDE DEF q
      <4>2. q = a + need /\ e = q
        BY <1>5, <1>10, <4>1
      <4>3. QED BY <4>2 DEF q
    <3>3. QED BY <3>1, <3>2
  <2>2. CASE SplitsHole(a, f, size)
    <3>1. flash[a].next - a > need /\ intact' = intact
          /\ Begins("erase buffer", a, HeaderCell(a + need, size, f), flash[a].next)
      BY <2>2 DEF SplitsHole, need
    <3>2. e = flash[a].next
      <4> DEFINE q == flash[a].next
      <4>1. q \in Nat /\ q - a > need /\ (q - a >= need => e = q)
        BY <1>5, <1>6, <3>1
      <4> HIDE DEF q
      <4>2. e = q
        BY <1>5, <1>10, <4>1
      <4>3. QED BY <4>2 DEF q
    <3>3. QED BY <3>1, <3>2
  <2>3. CASE MergesHoles(a, f, size)
    <3>1. /\ Begins("erase buffer", a, HeaderCell(n, size, f), IF isValid(n) THEN Nil ELSE e)
          /\ IF isValid(n) /\ n # e THEN Cut ELSE intact' = intact
      BY <1>6, <2>3 DEF MergesHoles, need, DamagedFrom
    <3>2. CASE isValid(n) /\ n # e
      <4>1. n < e
        BY <1>7, <1>10, <3>2
      <4>2. Job(Nil) /\ Cut
        BY <3>1, <3>2
      <4>3. QED BY <4>1, <4>2
    <3>3. CASE isValid(n) /\ n = e
      <4>1. Job(Nil) /\ intact' = intact
        BY <3>1, <3>3
      <4>2. QED BY <3>3, <4>1
    <3>4. CASE ~isValid(n)
      <4>1. Job(e) /\ intact' = intact
        BY <3>1, <3>4
      <4>2. QED BY <4>1
    <3>5. QED BY <3>2, <3>3, <3>4
  <2>4. QED BY <1>1, <2>1, <2>2, <2>3
<1> HIDE DEF Cut
<1>12. /\ at' = "erase buffer" /\ flash' = flash /\ buffer' = buffer /\ seen' = Listing(flash)
       /\ job'.address = a /\ job'.sector = SectorOf(a)
       /\ job'.header.name = f /\ job'.header.next = n /\ job'.header.size = size
       /\ job'.header \in Cell
       /\ \/ job'.false = Nil /\ n = e /\ intact' = intact
          \/ job'.false = e /\ intact' = intact
          \/ job'.false = Nil /\ n < e /\ Cut
  <2>1. ASSUME NEW false, Job(false)
        PROVE  /\ at' = "erase buffer" /\ flash' = flash /\ buffer' = buffer
               /\ seen' = Listing(flash) /\ job'.address = a /\ job'.sector = SectorOf(a)
               /\ job'.header.name = f /\ job'.header.next = n
               /\ job'.header.size = size /\ job'.header \in Cell /\ job'.false = false
    <3>1. Begins("erase buffer", a, HeaderCell(a + need, size, f), false)
      BY <2>1
    <3>2. QED BY <1>8, <1>9, <1>10, <3>1
  <2> HIDE DEF Job
  <2>2. QED BY <1>11, <2>1
<1>13. e # Nil /\ n \in Nat /\ n <= e
  BY <1>7, <1>10, LastIs
<1>14. JobOK(job')
  <2>1. n >= a + size + 2
    BY <1>3, <1>5
  <2>2. QED BY <1>5, <1>7, <1>10, <1>12, <1>13, <2>1 DEF JobOK
<1>15. JobUpTo(e, f)
  <2>1. \/ To(job') = e /\ intact' = intact /\ (n < e => Rest(job'))
        \/ ~Rest(job') /\ n < e /\ Cut
    <3> HIDE DEF n
    <3>1. CASE job'.false = Nil /\ n = e /\ intact' = intact
      <4>1. To(job') = e
        BY <1>12, <3>1 DEF To
      <4>2. ~(n < e)
        BY <1>7, <3>1
      <4>3. QED BY <3>1, <4>1, <4>2
    <3>2. CASE job'.false = e /\ intact' = intact
      <4>1. To(job') = e
        BY <1>12, <1>13, <3>2 DEF To
      <4>2. n < e => Rest(job')
        <5>1. n < e => n # e
          BY <1>7, <1>13
        <5>2. job'.header.next = n
          BY <1>12
        <5>3. QED BY <1>13, <3>2, <5>1, <5>2 DEF Rest
      <4>3. QED BY <3>2, <4>1, <4>2
    <3>3. CASE job'.false = Nil /\ n < e /\ Cut
      BY <3>3 DEF Rest
    <3>4. QED BY <1>12, <3>1, <3>2, <3>3
  <2> HIDE DEF n
  <2>2. QED BY <1>4, <1>6, <1>7, <1>12, <1>13, <1>14, <2>1 DEF JobUpTo, Cut
<1>16. QED BY <1>2, <1>15

\* Where open starts, its headers do to the files what it will have done.
LEMMA CreateInHoleStep ==
    ASSUME Inv, NEW f \in Names, NEW size \in Sizes, CreateInHole(f, size)
    PROVE  Inv' /\ DirectoryStep
<1>1. at = "idle" /\ Good(flash, intact) /\ Image(flash)
  BY DEF CreateInHole, Inv, Good
<1>2. Named(flash, f) = {}
  BY <1>1, HoleJob
<1>3. PICK e : JobUpTo(e, f)
  BY <1>1, HoleJob
<1> DEFINE j == job'
           a == j.address
           n == j.header.next
           h == j.header
           q == intact'
           T == Written(flash, j)
           gl == [c \in Cells |-> IF c = a THEN h
                                  ELSE IF c = n /\ n < e THEN FalseHeader(e) ELSE flash[c]]
<1>4. /\ at' = "erase buffer" /\ flash' = flash /\ buffer' = buffer
      /\ seen' = Listing(flash) /\ j.sector = SectorOf(a) /\ h.name = f
      /\ JobOK(j) /\ a \in InList(flash) /\ Spans(a, e) /\ e \in Nat /\ e < Last /\ n <= e
      /\ \/ To(j) = e /\ q = intact /\ (n < e => Rest(j))
         \/ ~Rest(j) /\ n < e /\ q = IF n < intact THEN n ELSE intact
  BY <1>3 DEF JobUpTo
<1> HIDE DEF j
<1>5. /\ a \in Cells /\ a \in Nat /\ n \in Cells /\ n \in Nat /\ a < n /\ To(j) \in Nat
      /\ To(j) \in Cells /\ n <= To(j) /\ Sound(a, h)
      /\ Rest(j) => To(j) = j.false
      /\ ~Rest(j) => To(j) = n
  BY <1>4, JobFacts
<1>6. intact \in Nat /\ intact \in Cells \cup {Wild}
  BY IntactIs DEF Inv
<1>7. /\ Image(T) /\ T[a] = h
      /\ Rest(j) => T[n] = FalseHeader(j.false)
      /\ \A c \in Cells : c # a /\ c # n => T[c] = flash[c]
      /\ ~Rest(j) => T[n] = flash[n]
  BY <1>1, <1>4, WrittenIs
<1> DEFINE d == To(j)
<1> HIDE DEF a, n, h, T, q, d
<1>8. /\ e \in Nat /\ e < Last /\ n <= e /\ a < e /\ d \in Nat /\ d <= e /\ n <= d
      /\ q \in Nat /\ q <= intact /\ q \in Cells \cup {Wild}
      /\ (d = e /\ (n < e => Rest(j))) \/ q <= n
  <2>1. e \in Nat /\ e < Last /\ n <= e /\ d \in Nat /\ n <= d
    BY <1>4, <1>5 DEF n, d
  <2>2. CASE d = e /\ q = intact /\ (n < e => Rest(j))
    <3>1. a < e /\ d <= e
      BY <1>5, <2>1, <2>2
    <3>2. QED BY <1>6, <2>1, <2>2, <3>1
  <2>3. CASE d = n /\ n < e /\ q = IF n < intact THEN n ELSE intact
    <3>1. a < e /\ d <= e
      BY <1>5, <2>1, <2>3
    <3>2. q \in Nat /\ q <= intact /\ q \in Cells \cup {Wild} /\ q <= n
      BY <1>5, <1>6, <2>3
    <3>3. QED BY <2>1, <3>1, <3>2
  <2>4. QED BY <1>4, <1>5, <2>2, <2>3 DEF n, d, q
<1>9. Image(gl)
  <2>1. ASSUME n < e PROVE Sound(n, FalseHeader(e))
    <3>1. e \in Cells /\ NoName \notin Names
      BY <1>8, LastIs, FileSystemAssumption
    <3>2. FalseHeader(e) \in Cell
      BY <3>1 DEF FalseHeader, HeaderCell, Cell, Contents
    <3>3. FalseHeader(e).next = e /\ FalseHeader(e).name = NoName
      BY DEF FalseHeader, HeaderCell
    <3>4. e # Nil /\ e # Last /\ e > n
      BY <1>5, <1>8, <2>1, LastIs
    <3>5. QED BY <3>1, <3>2, <3>3, <3>4 DEF Sound
  <2>2. \A c \in Cells : Sound(c, flash[c])
    BY <1>1 DEF Image
  <2>3. \A c \in Cells : Sound(c, gl[c])
    BY <1>5, <2>1, <2>2
  <2>4. gl \in [Cells -> Cell]
    BY <2>3 DEF Sound
  <2> HIDE DEF gl
  <2>5. QED BY <2>3, <2>4 DEF Image
<1>10. Spliced(flash, gl, a, e, h)
  <2>1. \A c \in InList(flash) : a <= c /\ c < e => flash[c].name \notin Names
    BY <1>4, FileSystemAssumption DEF Spans, isValid
  <2>2. e \in InList(flash) /\ flash[a].next <= e
    BY <1>4 DEF Spans
  <2>3. ASSUME NEW c \in Cells, c < a \/ c >= e PROVE gl[c] = flash[c]
    <3>1. c # a /\ ~(c = n /\ n < e)
      BY <1>5, <1>8, <2>3, LastIs
    <3>2. QED BY <3>1
  <2>4. n < e => gl[n].next = e /\ gl[n].name \notin Names
    <3>1. FalseHeader(e).next = e /\ FalseHeader(e).name = NoName /\ NoName \notin Names
      BY FileSystemAssumption DEF FalseHeader, HeaderCell
    <3>2. n # a
      BY <1>5
    <3>3. QED BY <1>5, <3>1, <3>2
  <2>5. gl[a] = h
    BY <1>5
  <2> HIDE DEF gl
  <2>6. QED BY <1>2, <1>4, <1>5, <2>1, <2>2, <2>3, <2>4, <2>5 DEF Spliced, n, h
<1>11. \A c \in Cells : c < n => T[c] = gl[c]
  BY <1>5, <1>7
<1>12. \A c \in Cells : c < q => T[c] = gl[c]
  <2>1. CASE d = e /\ (n < e => Rest(j))
    <3>1. Rest(j) => d = j.false /\ n < d
      BY <1>4, JobFacts DEF n, d
    <3>2. Rest(j) => j.false = e /\ n < e
      BY <2>1, <3>1
    <3>3. QED BY <1>5, <1>7, <2>1, <3>2
  <2>2. CASE ~(d = e /\ (n < e => Rest(j)))
    <3>1. q <= n
      BY <1>8, <2>2
    <3>2. \A c \in Cells : c \in Nat
      BY LastIs
    <3>3. QED BY <1>5, <1>8, <1>11, <3>1, <3>2
  <2>3. QED BY <2>1, <2>2
<1> HIDE DEF gl
<1>13. /\ Good(gl, intact) /\ Named(gl, h.name) = {a} /\ a \in InList(gl)
       /\ \A g \in Names : g # h.name =>
             Before(intact, Listing(gl))[g] = Before(intact, Listing(flash))[g]
  BY <1>1, <1>6, <1>9, <1>10, SplicedGood
<1>14. Good(gl, q)
  BY <1>6, <1>8, <1>13, Lower
<1>15. Good(T, q) /\ Before(q, Listing(T)) = Before(q, Listing(gl))
  BY <1>7, <1>8, <1>12, <1>14, PrefixGood
<1>16. a \in InList(T)
  BY <1>5, <1>7, <1>9, <1>11, <1>13, Prefix
<1>17. ASSUME NEW x \in InList(T), x < q, T[x].name = f PROVE x = a
  <2>1. x \in Nat /\ x \in Cells
    BY <1>7, ImageIs
  <2>2. \A c \in Cells : c < q => gl[c] = T[c]
    BY <1>12
  <2>3. x <= q
    BY <1>8, <1>17, <2>1
  <2>4. x \in InList(gl)
    BY <1>7, <1>8, <1>9, <2>2, <2>3, Prefix
  <2>5. x \in Named(gl, h.name)
    BY <1>4, <1>12, <1>17, <2>1, <2>4 DEF Named
  <2>6. QED BY <1>13, <2>5
<1>18. \A g \in Names : Ended(Listing(flash)[g]) /\ Ended(Listing(gl)[g])
  BY <1>1, <1>9, ListedEnds
<1>19. ASSUME NEW g \in Names, g # f
       PROVE  Before(q, Listing(T))[g] = Before(q, Listing(flash))[g]
  <2> DEFINE F == Listing(gl)
             G == Listing(flash)
  <2>1. Before(intact, F)[g] = Before(intact, G)[g] /\ Ended(F[g]) /\ Ended(G[g])
    BY <1>4, <1>13, <1>18, <1>19
  <2> HIDE DEF F, G
  <2>2. Before(q, F)[g] = Before(q, G)[g]
    <3>1. intact \in Nat /\ q \in Nat /\ q <= intact
      BY <1>6, <1>8
    <3>2. g \in Names
      BY <1>19
    <3>3. QED BY ONLY <2>1, <3>1, <3>2, BeforeLower
  <2>3. QED BY <1>15, <2>2 DEF F, G
<1>20. Target' = T
  <2>1. Now' = flash
    <3>1. Now' = [c \in Cells |-> flash'[c]]
      BY <1>4 DEF Now, Held
    <3>2. flash = [c \in Cells |-> flash[c]]
      BY <1>1 DEF Image
    <3>3. QED BY <1>4, <3>1, <3>2
  <2>2. QED BY <2>1 DEF Target, T, j
<1>21. Keeps(Target)'
  <2> DEFINE U == Target'
  <2>1. U = T
    BY <1>20
  <2> HIDE DEF U
  <2>2. /\ Good(U, q) /\ a \in InList(U)
        /\ \A x \in InList(U) : x < q /\ U[x].name = f => x = a
        /\ \A g \in Names : g # f => Before(q, Listing(U))[g] = Before(q, Listing(flash))[g]
    BY <1>15, <1>16, <1>17, <1>19, <2>1
  <2>3. f = job'.header.name /\ seen' = Listing(flash)
    BY <1>4 DEF h, j
  <2>4. /\ Good(U, intact') /\ job'.address \in InList(U)
        /\ \A x \in InList(U) : x < intact' /\ U[x].name = job'.header.name => x = job'.address
        /\ \A g \in Names : g # job'.header.name =>
              Before(intact', Listing(U))[g] = Before(intact', seen')[g]
    BY <2>2, <2>3 DEF q, a, j
  <2>5. QED BY <2>4 DEF Keeps, U
<1>22. Rewriting'
  <2>1. job'.sector \in SectorOf(job'.address) .. SectorOf(To(job'))
    <3>1. SectorOf(a) <= SectorOf(To(j)) /\ SectorOf(a) \in Int /\ SectorOf(To(j)) \in Int
      BY <1>5, SectorsInOrder, SectorInt
    <3>2. j.sector \in SectorOf(a) .. SectorOf(To(j))
      <4> DEFINE x == SectorOf(a)
                 y == SectorOf(To(j))
      <4>1. x \in Int /\ y \in Int /\ x <= y /\ j.sector = x
        BY <1>4, <3>1
      <4> HIDE DEF x, y
      <4>2. j.sector \in x .. y
        BY <4>1
      <4>3. QED BY <4>2 DEF x, y
    <3>3. QED BY <3>2 DEF j, a
  <2>2. \A c \in Cells \ Dead(job') : SectorOf(c) < job'.sector => flash'[c] = Target'[c]
    <3>1. ASSUME NEW c \in Cells, SectorOf(c) < SectorOf(a) PROVE T[c] = flash[c]
      <4>1. a <= c => SectorOf(a) <= SectorOf(c)
        BY <1>5, SectorsInOrder
      <4>2. SectorOf(c) \in Int /\ SectorOf(a) \in Int /\ c \in Nat
        BY <1>5, SectorInt, LastIs
      <4>3. c < a
        BY <1>5, <3>1, <4>1, <4>2
      <4>4. c # a /\ c # n
        BY <1>5, <4>2, <4>3
      <4>5. QED BY <1>7, <4>4
    <3>2. QED BY <1>4, <1>20, <3>1 DEF j
  <2>3. Good(flash', intact') /\ Before(intact', Listing(flash')) = Before(intact', seen')
    <3>1. Good(flash, q)
      BY <1>1, <1>6, <1>8, Lower
    <3>2. QED BY <1>4, <3>1 DEF q
  <2>4. Image(flash') /\ at' = "erase buffer"
    BY <1>1, <1>4
  <2>5. QED BY <1>21, <2>1, <2>2, <2>3, <2>4 DEF Rewriting
<1>23. AllThere'
  <2>1. \A x \in InList(flash) : flash[x].name \in Names => x < a \/ x >= d
    <3>1. ASSUME NEW x \in InList(flash), flash[x].name \in Names PROVE x < a \/ x >= d
      <4>1. x \in Nat
        BY <1>1, ImageIs
      <4>2. ~(a <= x /\ x < e)
        BY <1>10, <3>1 DEF Spliced
      <4>3. QED BY <1>5, <1>8, <4>1, <4>2
    <3>2. QED BY <3>1
  <2>2. To(job)' = d /\ d \in Nat /\ job'.address = a
    BY <1>8 DEF j, a, d
  <2>3. at' # "copy"
    BY <1>4
  <2>4. QED BY <1>1, <1>4, <2>1, <2>2, <2>3, Begun
<1>24. Inv'
  <2>1. "sector" \in DOMAIN job'
    BY JobBegun DEF CreateInHole, FillsHole, SplitsHole, MergesHoles
  <2>2. seen' = [g \in Names |-> seen'[g]]
    BY <1>4 DEF Listing
  <2>3. JobOK(job') /\ seen'[job'.header.name] = Absent
    <3>1. Listing(flash)[f] = Absent
      BY <1>1, <1>2, Listed
    <3>2. JobOK(j) /\ j.header.name = f /\ seen' = Listing(flash)
      BY <1>4 DEF h
    <3>3. QED BY <3>1, <3>2 DEF j
  <2>4. intact' \in Cells \cup {Wild}
    BY <1>8 DEF q
  <2>5. buffer' \in [0 .. SectorCells - 1 -> Cell]
    BY <1>4 DEF Inv
  <2>6. at' = "erase buffer"
    BY <1>4
  <2>7. QED BY <1>22, <1>23, <2>1, <2>2, <2>3, <2>4, <2>5, <2>6 DEF Inv, AppendPlaces, RewritePlaces
<1>25. DirectoryStep
  <2>1. Files = Before(intact, Listing(flash)) /\ Files' = Before(q, Listing(flash))
    BY <1>1, <1>4 DEF Files, q
  <2> DEFINE G == Listing(flash)
  <2>2. \A g \in Names : Ended(G[g])
    BY <1>18
  <2>3. Files = Before(intact, G) /\ Files' = Before(q, G)
    BY <2>1
  <2> HIDE DEF G
  <2>4. Files' = Before(q, Files)
    BY <1>6, <1>8, <2>2, <2>3, BeforeTwice
  <2>5. QED BY <1>8, <2>4, LoseStep DEF q
<1>26. QED BY <1>24, <1>25

-----------------------------------------------------------------------------
\* What there is while holes are rewritten.
LEMMA NowIs ==
    ASSUME Rewriting
    PROVE  Image(Now) /\ (at # "copy" => Now = flash)
<1>1. Image(flash)
  BY DEF Rewriting
<1>2. \A c \in Cells : Sound(c, flash[c])
  BY <1>1 DEF Image
<1>3. \A c \in Cells : Sound(c, Held(c))
  <2>1. ASSUME NEW c \in Cells, at = "copy", SectorOf(c) = job.sector
        PROVE  Sound(c, buffer[c % SectorCells])
    BY <2>1 DEF Rewriting
  <2>2. QED BY <1>2, <2>1 DEF Held
<1>4. Now \in [Cells -> Cell]
  BY <1>3 DEF Now, Sound
<1>5. ASSUME at # "copy" PROVE Now = flash
  <2>1. Now = [c \in Cells |-> flash[c]]
    BY <1>5 DEF Now, Held
  <2>2. QED BY <1>1, <2>1 DEF Image
<1>6. \A c \in Cells : Now[c] = Held(c)
  BY DEF Now
<1>7. QED BY <1>3, <1>4, <1>5, <1>6 DEF Image

LEMMA TargetIs ==
    ASSUME Rewriting, JobOK(job)
    PROVE  /\ Good(Target, intact) /\ Image(Target) /\ Target[job.address] = job.header
           /\ Rest(job) => Target[job.header.next] = FalseHeader(job.false)
           /\ \A c \in Cells : c # job.address /\ c # job.header.next => Target[c] = Now[c]
           /\ ~Rest(job) => Target[job.header.next] = Now[job.header.next]
           /\ job.address \in InList(Target) /\ To(job) \in InList(Target)
           /\ Dead(job) \cap InList(Target) = {}
           /\ \A a \in InList(Target) : Target[a].name \in Names /\ a # job.address =>
                 \A i \in 1 .. Target[a].size : a + i \notin Dead(job)
<1> DEFINE j == job
           T == Target
           n == j.header.next
<1>1. Good(T, intact) /\ JobOK(j) /\ j.address \in InList(T) /\ Image(Now) /\ T = Written(Now, j)
  BY NowIs DEF Rewriting, Target, Keeps
<1>2. /\ T[j.address] = j.header
      /\ Rest(j) => T[n] = FalseHeader(j.false)
      /\ \A c \in Cells : c # j.address /\ c # n => T[c] = Now[c]
      /\ ~Rest(j) => T[n] = Now[n]
  BY <1>1, WrittenIs
<1>3. /\ j.address \in Nat /\ n \in Nat /\ To(j) \in Nat
      /\ j.address < n /\ n < Last /\ n <= To(j) /\ To(j) < Last
      /\ Rest(j) => /\ FalseHeader(j.false).next = To(j)
                    /\ FalseHeader(j.false).name \notin Names
      /\ ~Rest(j) => To(j) = n
  BY <1>1, JobFacts
<1> HIDE DEF j, T
<1>4. Image(T) /\ Upward(T)
  BY <1>1, ImageIs DEF Good
<1>5. \A c \in InList(T) : /\ c \in Cells /\ c \in Nat
                           /\ T[c].next < Last => T[c].next \in InList(T)
  BY <1>4, ImageIs
<1>6. n \in InList(T)
  BY <1>1, <1>2, <1>3, <1>5
<1>7. To(j) \in InList(T)
  BY <1>2, <1>3, <1>5, <1>6
<1>8. ASSUME NEW a \in InList(T), a > j.address PROVE a = n \/ a >= To(j)
  <2>1. T[j.address].next <= a
    BY <1>1, <1>4, <1>8, Chain
  <2>2. n <= a /\ a \in Nat
    BY <1>2, <1>5, <2>1
  <2>3. CASE a > n
    <3>1. T[n].next <= a
      BY <1>4, <1>6, <2>3, Chain
    <3>2. QED BY <1>2, <1>3, <2>2, <3>1
  <2>4. QED BY <1>3, <2>2, <2>3
<1>9. Dead(j) \cap InList(T) = {}
  <2>1. ASSUME NEW c \in InList(T) PROVE c \notin Dead(j)
    BY <1>3, <1>5, <1>8, <2>1 DEF Dead
  <2>2. QED BY <2>1
<1>10. ASSUME NEW a \in InList(T), T[a].name \in Names, a # j.address, NEW i \in 1 .. T[a].size
       PROVE  a + i \notin Dead(j)
  <2>1. /\ T[a].next \in InList(T) /\ T[a].next \in Nat
        /\ a \in Nat /\ i \in Nat /\ i >= 1 /\ a + i < T[a].next
    BY <1>4, <1>5, <1>10, FileInside
  <2>2. CASE a < j.address
    <3>1. T[a].next <= j.address
      BY <1>1, <1>4, <1>10, <2>2, Chain
    <3>2. a + i < j.address
      BY <1>3, <2>1, <3>1
    <3>3. QED BY <1>3, <2>1, <3>2 DEF Dead
  <2>3. CASE a > j.address
    <3>1. a # n \/ ~Rest(j)
      BY <1>2, <1>3, <1>10
    <3>2. a >= To(j)
      BY <1>3, <1>8, <2>1, <2>3, <3>1
    <3>3. a + i > To(j)
      BY <1>3, <2>1, <3>2
    <3>4. QED BY <1>3, <2>1, <3>3 DEF Dead
  <2>4. QED BY <1>3, <1>10, <2>1, <2>2, <2>3
<1>11. QED BY <1>1, <1>2, <1>4, <1>7, <1>9, <1>10 DEF j, T

\* What a flash holds that is as it has to be, but for the dead cells.
LEMMA Revised ==
    ASSUME Inv, at \in RewritePlaces, NEW gl, Image(gl),
           \A c \in Cells \ Dead(job) : gl[c] = Target[c]
    PROVE  Keeps(gl)
<1> DEFINE j == job
           T == Target
           Gone == Dead(job)
           b == To(job)
           p == intact
           f == job.header.name
<1>1. Rewriting /\ JobOK(job) /\ p \in Nat
  BY IntactIs DEF Inv
<1>2. /\ Good(T, p) /\ Image(T) /\ T[j.address] = j.header
      /\ j.address \in InList(T) /\ b \in InList(T) /\ Gone \cap InList(T) = {}
      /\ \A a \in InList(T) : T[a].name \in Names /\ a # j.address =>
            \A i \in 1 .. T[a].size : a + i \notin Gone
  BY <1>1, TargetIs
<1>3. Gone \in SUBSET Cells /\ (\A c \in Gone : c < b) /\ (\A c \in Cells \ Gone : gl[c] = T[c])
  BY DEF Dead
<1>4. /\ \A a \in InList(T) : a < p /\ T[a].name = f => a = j.address
      /\ \A g \in Names : g # f => Before(p, Listing(T))[g] = Before(p, seen)[g]
  BY <1>1 DEF Rewriting, Keeps
<1>5. T[j.address].name = f
  BY <1>2
<1> HIDE DEF j, T, Gone, b, p, f
<1>6. /\ InList(gl) = InList(T) /\ Good(gl, p)
      /\ \A g \in Names :
            (\A a \in Named(T, g) : \A i \in 1 .. T[a].size : a + i \notin Gone)
               => Before(p, Listing(gl))[g] = Before(p, Listing(T))[g]
  <2>1. /\ p \in Nat /\ Good(T, p) /\ Image(gl) /\ Gone \in SUBSET Cells
        /\ Gone \cap InList(T) = {} /\ b \in InList(T)
        /\ (\A c \in Gone : c < b) /\ (\A c \in Cells \ Gone : gl[c] = T[c])
    BY <1>1, <1>2, <1>3
  <2>2. QED BY ONLY <2>1, Patched
<1>7. \A a \in InList(T) : gl[a] = T[a]
  BY <1>2, <1>3, ImageIs
<1>8. ASSUME NEW g \in Names, g # f PROVE Before(p, Listing(gl))[g] = Before(p, seen)[g]
  <2>1. \A a \in Named(T, g) : a \in InList(T) /\ T[a].name \in Names /\ a # j.address
    BY <1>5, <1>8 DEF Named
  <2>2. \A a \in Named(T, g) : \A i \in 1 .. T[a].size : a + i \notin Gone
    BY <1>2, <2>1
  <2>3. QED BY <1>4, <1>6, <1>8, <2>2
<1>9. QED BY <1>2, <1>4, <1>6, <1>7, <1>8 DEF Keeps, j, f, p

LEMMA EraseBufferStep ==
    ASSUME Inv, EraseBuffer
    PROVE  Inv' /\ DirectoryStep
<1>1. /\ at = "erase buffer" /\ at' = "fill" /\ buffer' = ErasedSector
      /\ flash' = flash /\ job' = job /\ seen' = seen /\ intact' = intact
  BY DEF EraseBuffer
<1>2. Rewriting /\ AllThere
  BY <1>1 DEF Inv, RewritePlaces
<1>3. buffer' \in [0 .. SectorCells - 1 -> Cell]
  BY <1>1, ErasedIsSound DEF ErasedSector
<1>4. Now' = Now
  BY <1>1 DEF Now, Held
<1>5. Rewriting' /\ AllThere'
  <2>1. Target' = Target
    BY <1>1, <1>4 DEF Target
  <2>2. Rewriting'
    <3>1. Keeps(Target)'
      BY <1>1, <1>2, <2>1 DEF Rewriting, Keeps
    <3>2. QED BY <1>1, <1>2, <2>1, <3>1 DEF Rewriting
  <2>3. QED BY <1>1, <1>2, <1>4, <2>2, StillThere
<1>6. Inv'
  BY <1>1, <1>3, <1>5 DEF Inv, AppendPlaces, RewritePlaces
<1>7. DirectoryStep
  BY <1>1 DEF DirectoryStep, Files
<1>8. QED BY <1>6, <1>7

LEMMA CopyIs ==
    ASSUME Rewriting, JobOK(job), at # "copy", ~Endless,
           NEW c \in Cells, SectorOf(c) = job.sector
    PROVE  /\ Sound(c, CopyOf(c))
           /\ c \notin Dead(job) => CopyOf(c) = Target[c]
<1> DEFINE j == job
           n == j.header.next
<1>1. Image(flash) /\ Now = flash /\ JobOK(j)
  BY NowIs DEF Rewriting
<1>2. /\ Target[j.address] = j.header
      /\ Rest(j) => Target[n] = FalseHeader(j.false)
      /\ \A d \in Cells : d # j.address /\ d # n => Target[d] = flash[d]
      /\ ~Rest(j) => Target[n] = flash[n]
  BY <1>1, TargetIs
<1>3. /\ j.address \in Nat /\ n \in Nat /\ To(j) \in Nat /\ c \in Nat
      /\ j.address < n /\ n <= To(j)
      /\ j.false # Nil => To(j) = j.false
      /\ Sound(j.address, j.header)
      /\ Rest(j) => Sound(n, FalseHeader(j.false))
  BY <1>1, JobFacts, LastIs
<1>4. Sound(c, flash[c]) /\ Sound(c, Erased)
  BY <1>1, ErasedIsSound DEF Image
<1> DEFINE dead == \/ j.address < c /\ c < n /\ SectorOf(c) = SectorOf(j.address)
                   \/ j.false # Nil /\ n < c /\ c < j.false /\ SectorOf(c) = SectorOf(n)
<1>5. CopyOf(c) = IF c = j.address THEN j.header
                  ELSE IF c = n /\ j.false # Nil THEN FalseHeader(j.false)
                  ELSE IF dead THEN Erased ELSE flash[c]
  BY DEF CopyOf
<1>6. dead => c \in Dead(j)
  BY <1>3 DEF Dead
<1>7. c = n => (j.false # Nil <=> Rest(j))
  BY DEF Endless, Rest
<1> HIDE DEF dead, j
<1>8. Sound(c, CopyOf(c))
  BY <1>3, <1>4, <1>5, <1>7
<1>9. ASSUME c \notin Dead(j) PROVE CopyOf(c) = Target[c]
  <2>1. ~dead
    BY <1>6, <1>9
  <2>2. QED BY <1>2, <1>3, <1>5, <1>7, <2>1
<1>10. QED BY <1>8, <1>9 DEF j

LEMMA JobSector ==
    ASSUME Rewriting, JobOK(job)
    PROVE  /\ job.sector \in 0 .. Sectors - 1 /\ job.sector \in Int
           /\ SectorOf(job.address) \in Int /\ SectorOf(To(job)) \in Int
           /\ SectorOf(job.address) <= job.sector /\ job.sector <= SectorOf(To(job))
<1>1. /\ SectorOf(job.address) \in 0 .. Sectors - 1 /\ SectorOf(To(job)) \in 0 .. Sectors - 1
      /\ job.sector \in SectorOf(job.address) .. SectorOf(To(job))
  BY JobFacts, Divided DEF Rewriting
<1>2. QED BY <1>1, SizesOf

LEMMA FillStep ==
    ASSUME Inv, Fill
    PROVE  Inv' /\ DirectoryStep
<1>1. /\ at = "fill" /\ at' \in {"fill", "erase"}
      /\ flash' = flash /\ job' = job /\ seen' = seen /\ intact' = intact
  BY DEF Fill
<1>2. Rewriting /\ JobOK(job) /\ AllThere
  BY <1>1 DEF Inv, RewritePlaces
<1>3. Now' = Now /\ Target' = Target
  BY <1>1 DEF Target, Now, Held
<1>4. Keeps(Target)' /\ AllThere'
  <2>1. Keeps(Target)'
    BY <1>1, <1>2, <1>3 DEF Rewriting, Keeps
  <2>2. QED BY <1>1, <1>2, <1>3, <2>1, StillThere
<1>5. CASE Endless
  <2>1. buffer' = buffer /\ at' = at
    BY <1>5 DEF Fill
  <2>2. Rewriting'
    BY <1>1, <1>2, <1>3, <1>4, <2>1 DEF Rewriting
  <2>3. Inv'
    BY <1>1, <1>4, <2>1, <2>2 DEF Inv, AppendPlaces, RewritePlaces
  <2>4. QED BY <1>1, <2>1, <2>3 DEF DirectoryStep, Files
<1>6. CASE ~Endless
  <2>1. /\ buffer' = [i \in 0 .. SectorCells - 1 |-> CopyOf(job.sector * SectorCells + i)]
        /\ at' = "erase"
    BY <1>6 DEF Fill
  <2>2. job.sector \in 0 .. Sectors - 1
    BY <1>2, JobSector
  <2>3. \A c \in Cells : SectorOf(c) = job.sector =>
           Sound(c, CopyOf(c)) /\ (c \notin Dead(job) => CopyOf(c) = Target[c])
    BY <1>1, <1>2, <1>6, CopyIs
  <2>4. buffer' \in [0 .. SectorCells - 1 -> Cell]
    <3>1. \A i \in 0 .. SectorCells - 1 : /\ job.sector * SectorCells + i \in Cells
                                          /\ SectorOf(job.sector * SectorCells + i) = job.sector
      BY <2>2, InSector
    <3>2. \A i \in 0 .. SectorCells - 1 : CopyOf(job.sector * SectorCells + i) \in Cell
      BY <2>3, <3>1 DEF Sound
    <3>3. QED BY <2>1, <3>2
  <2>5. ASSUME NEW c \in Cells, SectorOf(c) = job.sector
        PROVE  buffer'[c % SectorCells] = CopyOf(c)
    <3>1. /\ c % SectorCells \in 0 .. SectorCells - 1
          /\ c = job.sector * SectorCells + (c % SectorCells)
      BY <2>5, Divided
    <3>2. QED BY <2>1, <3>1
  <2>6. Rewriting'
    BY <1>1, <1>2, <1>3, <1>4, <2>1, <2>3, <2>5 DEF Rewriting
  <2>7. Inv'
    BY <1>1, <1>4, <2>1, <2>4, <2>6 DEF Inv, AppendPlaces, RewritePlaces
  <2>8. QED BY <1>1, <2>1, <2>7 DEF DirectoryStep, Files
<1>7. QED BY <1>5, <1>6

\* A sector that is erased is in the buffer.
LEMMA EraseStep ==
    ASSUME Inv, Erase
    PROVE  Inv' /\ DirectoryStep
<1> DEFINE gl == Target'
<1>1. /\ at = "erase" /\ at' = "copy" /\ buffer' = buffer /\ job' = job /\ seen' = seen
      /\ intact' = intact
      /\ flash' = [c \in Cells |-> IF SectorOf(c) = job.sector THEN Erased ELSE flash[c]]
  BY DEF Erase, SectorErased
<1>2. Rewriting /\ JobOK(job) /\ AllThere /\ Image(flash) /\ at \in RewritePlaces
  BY <1>1 DEF Inv, RewritePlaces, Rewriting
<1>3. /\ \A c \in Cells : SectorOf(c) = job.sector =>
            /\ Sound(c, buffer[c % SectorCells])
            /\ c \notin Dead(job) => buffer[c % SectorCells] = Target[c]
      /\ \A c \in Cells \ Dead(job) : SectorOf(c) < job.sector => flash[c] = Target[c]
  BY <1>1, <1>2 DEF Rewriting
<1>4. /\ Now = flash /\ Target[job.address] = job.header
      /\ Rest(job) => Target[job.header.next] = FalseHeader(job.false)
      /\ \A c \in Cells : c # job.address /\ c # job.header.next => Target[c] = flash[c]
      /\ ~Rest(job) => Target[job.header.next] = flash[job.header.next]
  BY <1>1, <1>2, NowIs, TargetIs
<1>5. /\ \A c \in Cells : SectorOf(c) = job.sector => Now'[c] = buffer[c % SectorCells]
      /\ \A c \in Cells : SectorOf(c) # job.sector => Now'[c] = flash[c]
      /\ Now' = [c \in Cells |-> Now'[c]]
  BY <1>1 DEF Now, Held
<1>6. \A c \in Cells : Sound(c, flash[c]) /\ Sound(c, Erased)
  BY <1>2, ErasedIsSound DEF Image
<1>7. Image(Now') /\ Image(flash')
  <2>1. \A c \in Cells : Sound(c, Now'[c]) /\ Sound(c, flash'[c])
    BY <1>1, <1>3, <1>5, <1>6
  <2>2. QED BY <1>1, <1>5, <2>1 DEF Image, Sound
<1>8. /\ Image(gl) /\ gl[job.address] = job.header
      /\ Rest(job) => gl[job.header.next] = FalseHeader(job.false)
      /\ \A c \in Cells : c # job.address /\ c # job.header.next => gl[c] = Now'[c]
      /\ ~Rest(job) => gl[job.header.next] = Now'[job.header.next]
  <2> DEFINE now == Now'
             hl == Written(now, job)
  <2>1. gl = hl
    BY <1>1 DEF Target
  <2>2. Image(now)
    BY <1>7
  <2> HIDE DEF now, gl
  <2>3. /\ Image(hl) /\ hl[job.address] = job.header
        /\ Rest(job) => hl[job.header.next] = FalseHeader(job.false)
        /\ \A c \in Cells : c # job.address /\ c # job.header.next => hl[c] = now[c]
        /\ ~Rest(job) => hl[job.header.next] = now[job.header.next]
    BY <1>2, <2>2, WrittenIs
  <2> HIDE DEF hl
  <2>4. QED BY <2>1, <2>3 DEF now
<1>9. \A c \in Cells \ Dead(job) : gl[c] = Target[c]
  <2>1. ASSUME NEW c \in Cells, c \notin Dead(job), c # job.address,
               ~(Rest(job) /\ c = job.header.next)
        PROVE  gl[c] = Target[c]
    <3>1. gl[c] = Now'[c] /\ Target[c] = flash[c]
      BY <1>4, <1>8, <2>1
    <3>2. QED BY <1>3, <1>5, <2>1, <3>1
  <2>2. QED BY <1>4, <1>8, <2>1
<1>10. Keeps(gl)
  <2>1. Image(gl) /\ (\A c \in Cells \ Dead(job) : gl[c] = Target[c])
    BY <1>8, <1>9
  <2> HIDE DEF gl
  <2>2. QED BY <1>2, <2>1, Revised
<1>11. \A c \in Cells \ Dead(job) : SectorOf(c) < job.sector => flash'[c] = gl[c]
  <2>1. ASSUME NEW c \in Cells \ Dead(job), SectorOf(c) < job.sector
        PROVE  flash'[c] = gl[c]
    <3>1. SectorOf(c) # job.sector
      <4>1. SectorOf(c) \in Int
        BY SectorInt
      <4>2. QED BY <2>1, <4>1
    <3>2. flash'[c] = flash[c]
      BY <1>1, <3>1
    <3>3. QED BY <1>3, <1>9, <2>1, <3>2
  <2>2. QED BY <2>1
<1>12. Rewriting'
  <2>1. job.sector \in SectorOf(job.address) .. SectorOf(To(job))
    BY <1>2 DEF Rewriting
  <2>2. \A c \in Cells : SectorOf(c) = job.sector =>
           /\ Sound(c, buffer[c % SectorCells])
           /\ c \notin Dead(job) => buffer[c % SectorCells] = gl[c]
    BY <1>3, <1>9
  <2>3. Keeps(Target)'
    BY <1>1, <1>10 DEF Keeps
  <2>4. QED BY <1>1, <1>2, <1>7, <1>11, <2>1, <2>2, <2>3 DEF Rewriting
<1>13. AllThere'
  <2>1. ASSUME NEW c, Outside(c) PROVE Now'[c].name = Now[c].name
    <3>1. /\ job.address \in Nat /\ job.header.next \in Nat /\ To(job) \in Nat
          /\ job.address < job.header.next /\ job.header.next <= To(job)
          /\ Rest(job) => job.header.next < To(job)
      BY <1>2, JobFacts
    <3>2. c \in Cells /\ (c < job.address \/ c >= To(job)) /\ c \in Nat
      BY <2>1, LastIs DEF Outside
    <3>3. c # job.address /\ ~(Rest(job) /\ c = job.header.next) /\ c \notin Dead(job)
      BY <3>1, <3>2 DEF Dead
    <3>4. Target[c] = flash[c]
      BY <1>4, <3>2, <3>3
    <3>5. QED BY <1>3, <1>4, <1>5, <3>2, <3>3, <3>4
  <2>2. QED BY <1>1, <1>2, <2>1, StillThere
<1>14. Inv'
  BY <1>1, <1>2, <1>12, <1>13 DEF Inv, AppendPlaces, RewritePlaces
<1>15. DirectoryStep
  BY <1>1 DEF DirectoryStep, Files
<1>16. QED BY <1>14, <1>15

\* A flash that is as it has to be is what adding the file ends with.
LEMMA RewrittenStep ==
    ASSUME Inv, at \in RewritePlaces, Ends, intact' = intact, Keeps(flash')
    PROVE  Inv' /\ DirectoryStep
<1> DEFINE f == job.header.name
<1>1. /\ Good(flash', intact) /\ intact \in Nat /\ intact' \in Cells \cup {Wild}
      /\ \A g \in Names : g # f => Before(intact, Listing(flash'))[g] = Before(intact, seen)[g]
  BY IntactIs DEF Inv, Keeps
<1>2. f \in Names /\ seen[f] = Absent
  BY DEF Inv, JobOK
<1>3. at \notin {"idle", "clear"} /\ at' = "idle"
  BY DEF RewritePlaces, Ends
<1>4. Inv'
  BY <1>1, EndsInv
<1> HIDE DEF f
<1>5. DirectoryStep
  BY <1>1, <1>2, <1>3, CreatedStep
<1>6. QED BY <1>4, <1>5

\* One that is copied back is as it has to be; so is everything with the last.
LEMMA CopyStep ==
    ASSUME Inv, Copy
    PROVE  Inv' /\ DirectoryStep
<1>1. /\ at = "copy" /\ intact' = intact
      /\ flash' = [c \in Cells |-> IF SectorOf(c) = job.sector THEN buffer[c % SectorCells]
                                   ELSE flash[c]]
  BY DEF Copy
<1>2. Rewriting /\ JobOK(job) /\ AllThere /\ Until = To(job) /\ at \in RewritePlaces
  BY <1>1 DEF Inv, RewritePlaces, Until, To
<1>3. flash' = Now /\ Image(Now)
  BY <1>1, <1>2, NowIs DEF Now, Held
<1>4. /\ \A c \in Cells : SectorOf(c) = job.sector =>
            (c \notin Dead(job) => buffer[c % SectorCells] = Target[c])
      /\ \A c \in Cells \ Dead(job) : SectorOf(c) < job.sector => flash[c] = Target[c]
  BY <1>1, <1>2 DEF Rewriting
<1>5. job.address \in Cells /\ To(job) \in Cells /\ job.header.next \in Cells
      /\ job.address < job.header.next /\ job.header.next <= To(job)
      /\ job.address \in Nat /\ job.header.next \in Nat /\ To(job) \in Nat
  BY <1>2, JobFacts
<1>6. /\ SectorOf(job.address) \in Int /\ SectorOf(To(job)) \in Int
      /\ job.sector \in Int /\ job.sector >= SectorOf(job.address)
      /\ job.sector <= SectorOf(To(job))
  BY <1>2, JobSector
<1>7. ASSUME NEW c \in Cells, c \notin Dead(job), SectorOf(c) <= job.sector
      PROVE  flash'[c] = Target[c]
  <2>1. SectorOf(c) \in Int
    BY SectorInt
  <2>2. SectorOf(c) = job.sector \/ (SectorOf(c) < job.sector /\ SectorOf(c) # job.sector)
    BY <1>6, <1>7, <2>1
  <2>3. QED BY <1>1, <1>4, <1>7, <2>2
<1>8. CASE job.sector < SectorOf(Until)
  <2>1. /\ job' = [job EXCEPT !.sector = job.sector + 1]
        /\ at' = "erase buffer" /\ buffer' = buffer /\ seen' = seen
    BY <1>8 DEF Copy, FollowingSector
  <2>2. /\ job'.address = job.address /\ job'.header = job.header /\ job'.false = job.false
        /\ job'.sector = job.sector + 1 /\ "sector" \in DOMAIN job'
    <3>1. "sector" \in DOMAIN job
      BY DEF Inv
    <3> DEFINE k == job'
    <3>2. k = [job EXCEPT !.sector = job.sector + 1]
      BY <2>1
    <3> HIDE DEF k
    <3>3. /\ k.address = job.address /\ k.header = job.header /\ k.false = job.false
          /\ k.sector = job.sector + 1 /\ "sector" \in DOMAIN k
      BY <3>1, <3>2, NextSector
    <3>4. QED BY <3>3 DEF k
  <2>3. Now' = Now
    <3>1. Now' = [c \in Cells |-> flash'[c]]
      BY <2>1 DEF Now, Held
    <3>2. QED BY <1>3, <3>1 DEF Image
  <2>4. Target' = Target /\ Dead(job') = Dead(job) /\ To(job') = To(job)
    BY <2>2, <2>3 DEF Target, Written, Dead, To, Rest
  <2>5. JobOK(job')
    BY <1>2, <2>2 DEF JobOK
  <2>6. job'.sector \in SectorOf(job'.address) .. SectorOf(To(job'))
    <3>1. job.sector + 1 \in SectorOf(job.address) .. SectorOf(To(job))
      <4> DEFINE p == SectorOf(job.address)
                 q == SectorOf(To(job))
      <4>1. p \in Int /\ q \in Int /\ job.sector \in Int /\ job.sector >= p /\ job.sector < q
        BY <1>2, <1>6, <1>8
      <4> HIDE DEF p, q
      <4>2. job.sector + 1 \in p .. q
        BY <4>1
      <4>3. QED BY <4>2 DEF p, q
    <3>2. QED BY <2>2, <2>4, <3>1
  <2>7. job'.sector # SectorOf(job'.address)
    BY <1>6, <2>2
  <2>8. ASSUME NEW c \in Cells \ Dead(job'), SectorOf(c) < job'.sector
        PROVE  flash'[c] = Target'[c]
    <3>1. SectorOf(c) \in Int
      BY SectorInt
    <3>2. SectorOf(c) <= job.sector /\ c \notin Dead(job)
      BY <1>6, <2>2, <2>4, <2>8, <3>1
    <3>3. QED BY <1>7, <2>4, <3>2
  <2>9. Keeps(Target)'
    BY <1>1, <1>2, <2>1, <2>2, <2>4 DEF Rewriting, Keeps
  <2>10. Rewriting'
    BY <1>3, <2>1, <2>4, <2>6, <2>7, <2>8, <2>9 DEF Rewriting
  <2>11. AllThere'
    <3>1. To(job)' = To(job) /\ \A c : Outside(c) => Now'[c].name = Now[c].name
      BY <2>3, <2>4
    <3>2. QED BY <1>2, <2>1, <2>2, <3>1, StillThere
  <2>12. Inv'
    <3>1. seen[job'.header.name] = Absent
      BY <1>2, <2>2 DEF Inv
    <3>2. QED BY <1>1, <2>1, <2>2, <2>5, <2>10, <2>11, <3>1 DEF Inv, AppendPlaces, RewritePlaces
  <2>13. DirectoryStep
    BY <1>1, <2>1 DEF DirectoryStep, Files
  <2>14. QED BY <2>12, <2>13
<1>9. CASE ~(job.sector < SectorOf(Until))
  <2>1. Ends
    BY <1>9 DEF Copy
  <2>2. \A c \in Cells \ Dead(job) : flash'[c] = Target[c]
    <3>1. ASSUME NEW c \in Cells \ Dead(job), ~(SectorOf(c) <= job.sector)
          PROVE  flash'[c] = Target[c]
      <4>1. SectorOf(c) \in Int /\ SectorOf(c) > SectorOf(To(job)) /\ c \in Nat
        BY <1>2, <1>6, <1>9, <3>1, SectorInt, LastIs
      <4>2. ~(c <= To(job))
        <5>1. c <= To(job) => SectorOf(c) <= SectorOf(To(job))
          BY <1>5, SectorsInOrder
        <5>2. QED BY <1>6, <4>1, <5>1
      <4>3. c # job.address /\ c # job.header.next
        BY <1>5, <4>1, <4>2
      <4>4. QED BY <1>2, <1>3, <4>3, TargetIs
    <3>2. QED BY <1>7, <3>1
  <2> DEFINE gl == flash'
  <2>3. Image(gl) /\ (\A c \in Cells \ Dead(job) : gl[c] = Target[c])
    BY <1>3, <2>2
  <2> HIDE DEF gl
  <2>4. Keeps(gl)
    BY <1>2, <2>3, Revised
  <2>5. QED BY <1>1, <1>2, <2>1, <2>4, RewrittenStep DEF gl
<1>10. QED BY <1>8, <1>9

-----------------------------------------------------------------------------
(***************************************************************************)
(* Failures.                                                               *)
(***************************************************************************)
\* What is before q is there before and after the rewriting.
LEMMA LostStep ==
    ASSUME Inv, at \in RewritePlaces, Ends, Image(flash'),
           intact' \in Nat, intact' <= intact, intact' <= job.address,
           \A c \in Cells : c < intact' => flash'[c] = Target[c]
    PROVE  Inv' /\ DirectoryStep
<1> DEFINE gl == flash'
           q  == intact'
           p  == intact
           T  == Target
           f  == job.header.name
           a  == job.address
<1>1. Rewriting /\ JobOK(job) /\ AllThere /\ p \in Nat /\ p <= Wild /\ f \in Names
      /\ at \notin {"idle", "clear"} /\ at' = "idle"
  BY IntactIs DEF Inv, RewritePlaces, Ends, JobOK
<1>2. /\ Good(T, p) /\ Image(T)
      /\ \A x \in InList(T) : x < p /\ T[x].name = f => x = a
      /\ \A g \in Names : g # f => Before(p, Listing(T))[g] = Before(p, seen)[g]
  BY <1>1 DEF Rewriting, Keeps, Good
<1>3. Files = Before(p, seen) /\ Files' = Before(q, Listing(gl))
  BY <1>1 DEF Files
<1>4. seen[f] = Absent /\ \A g \in Names : Ended(seen[g])
  BY <1>1, SeenEnds DEF Inv
<1>5. q \in Nat /\ q <= p /\ q <= a /\ a \in Nat /\ Image(gl)
      /\ \A c \in Cells : c < q => gl[c] = T[c]
  BY <1>1, JobFacts
<1> HIDE DEF gl, q, p, T, f, a
<1>6. Good(T, q)
  BY <1>1, <1>2, <1>5, Lower
<1>7. Good(gl, q) /\ Before(q, Listing(gl)) = Before(q, Listing(T))
  BY <1>5, <1>6, PrefixGood
<1>8. \A g \in Names : Ended(Listing(T)[g])
  BY <1>2, ListedEnds
<1>9. ASSUME NEW g \in Names PROVE Before(q, Listing(T))[g] = Before(q, seen)[g]
  <2>1. CASE g # f
    <3> DEFINE F == Listing(T)
    <3>1. Before(p, F)[g] = Before(p, seen)[g] /\ Ended(F[g]) /\ Ended(seen[g])
      BY <1>2, <1>4, <1>8, <2>1
    <3> HIDE DEF F
    <3>2. Before(q, F)[g] = Before(q, seen)[g]
      BY <1>1, <1>5, <3>1, BeforeLower
    <3>3. QED BY <3>2 DEF F
  <2>2. CASE g = f
    <3>1. ASSUME NEW x \in InList(T), x < q, T[x].name = f PROVE FALSE
      <4>1. x \in Nat
        BY <1>2, ImageIs
      <4>2. x < p /\ x # a
        BY <1>1, <1>5, <3>1, <4>1
      <4>3. QED BY <1>2, <3>1, <4>2
    <3>2. Before(q, Listing(T))[f] = Absent
      BY <1>1, <1>5, <1>6, <3>1, Shown
    <3>3. Before(q, seen)[f] = Absent
      BY <1>1, <1>4 DEF Before
    <3>4. QED BY <2>2, <3>2, <3>3
  <2>3. QED BY <2>1, <2>2
<1>10. Before(q, Listing(T)) = Before(q, seen)
  <2> DEFINE F == Before(q, Listing(T))
             G == Before(q, seen)
  <2>1. F = [g \in Names |-> F[g]] /\ G = [g \in Names |-> G[g]]
    BY BeforeIs
  <2>2. \A g \in Names : F[g] = G[g]
    BY <1>9
  <2> HIDE DEF F, G
  <2>3. F = G
    BY <2>1, <2>2
  <2>4. QED BY <2>3 DEF F, G
<1>11. Before(q, Before(p, seen)) = Before(q, seen)
  BY <1>1, <1>4, <1>5, BeforeTwice
<1>12. Files' = Before(q, Files)
  BY <1>3, <1>7, <1>10, <1>11
<1>13. DirectoryStep
  BY <1>5, <1>12, LoseStep DEF p, q
<1>14. intact' \in Cells \cup {Wild}
  BY <1>1, <1>5, LastIs DEF q
<1>15. Inv'
  BY <1>7, <1>14, EndsInv DEF gl, q
<1>16. QED BY <1>13, <1>15

\* Cells in front of the sectors that are rewritten are those of Target.
LEMMA InFront ==
    ASSUME Inv, at \in RewritePlaces, NEW c \in Cells, c < job.address, SectorOf(c) < job.sector
    PROVE  flash[c] = Target[c]
<1>1. Rewriting /\ JobOK(job) /\ c \in Nat /\ job.address \in Nat
  BY JobFacts, LastIs DEF Inv
<1>2. c \notin Dead(job)
  BY <1>1 DEF Dead
<1>3. QED BY <1>1, <1>2 DEF Rewriting

LEMMA FailInHoleStep ==
    ASSUME Inv, Fail, at \in RewritePlaces
    PROVE  Inv' /\ DirectoryStep
<1> DEFINE a  == job.address
           n  == job.header.next
           s  == job.sector
           sa == SectorOf(a)
           sn == SectorOf(n)
<1>1. /\ Ends /\ flash' = flash /\ at' = "idle"
      /\ IF HeadersSplit THEN intact' = (IF a < intact THEN a ELSE intact) ELSE intact' = intact
  BY DEF Fail, Ends, DamagedFrom
<1>2. Rewriting /\ JobOK(job) /\ at \in RewritePlaces /\ Image(flash) /\ at # "copy"
  BY DEF Inv, Rewriting, Fail
<1>3. /\ a \in Cells /\ a \in Nat /\ n \in Cells
      /\ s \in Int /\ sa \in Int /\ sa <= s /\ sn \in Int
  BY <1>2, JobFacts, JobSector, SectorInt
<1>4. intact \in Nat /\ intact \in Cells \cup {Wild}
  BY IntactIs DEF Inv
<1>5. HeadersSplit <=> sa < s /\ s <= sn /\ Rest(job)
  BY DEF HeadersSplit, Rest, Fail, RewritePlaces
<1>6. CASE s = sa
  <2>1. ~(sa < s)
    <3> HIDE DEF s, sa
    <3>1. QED BY <1>3, <1>6
  <2>2. intact' = intact
    BY <1>1, <1>5, <2>1
  <2>3. Good(flash, intact) /\ Before(intact, Listing(flash)) = Before(intact, seen)
    BY <1>2, <1>6 DEF Rewriting
  <2>4. Inv'
    BY <1>1, <1>4, <2>2, <2>3, EndsInv
  <2>5. Files' = Files
    BY <1>1, <2>2, <2>3 DEF Files
  <2>6. QED BY <2>4, <2>5 DEF DirectoryStep
<1>7. CASE s # sa /\ ~HeadersSplit
  <2>1. sa < s /\ (s <= sn \/ sn < s)
    <3> HIDE DEF s, sa, sn
    <3>1. QED BY <1>3, <1>7
  <2>2. ~(s <= sn) \/ ~Rest(job)
    BY <1>5, <1>7, <2>1
  <2>3. /\ \A c \in Cells : c # a /\ c # n => Target[c] = flash[c]
        /\ ~Rest(job) => Target[n] = flash[n]
    BY <1>2, NowIs, TargetIs
  <2>4. ASSUME NEW c \in Cells \ Dead(job) PROVE flash[c] = Target[c]
    <3>1. SectorOf(c) < s => flash[c] = Target[c]
      BY <1>2 DEF Rewriting
    <3>2. QED BY <2>1, <2>2, <2>3, <3>1
  <2>5. Keeps(flash)
    BY <1>2, <2>4, Revised
  <2>6. Keeps(flash')
    <3> DEFINE gl == flash'
    <3>1. gl = flash
      BY <1>1
    <3> HIDE DEF gl
    <3>2. Keeps(gl)
      BY <2>5, <3>1
    <3>3. QED BY <3>2 DEF gl
  <2>7. intact' = intact
    BY <1>1, <1>7
  <2>8. QED BY <1>1, <1>2, <2>6, <2>7, RewrittenStep
<1>8. CASE HeadersSplit
  <2>1. sa < s /\ intact' = IF a < intact THEN a ELSE intact
    BY <1>1, <1>5, <1>8
  <2> HIDE DEF a, s, sa
  <2>2. intact' \in Nat /\ intact' <= intact /\ intact' <= a
    BY <1>3, <1>4, <2>1
  <2>3. ASSUME NEW c \in Cells, c < intact' PROVE flash'[c] = Target[c]
    <3>1. c \in Nat
      BY LastIs
    <3>2. c < a /\ c <= a
      BY <1>3, <2>2, <2>3, <3>1
    <3>3. SectorOf(c) <= sa /\ SectorOf(c) \in Int
      BY <1>3, <3>2, SectorsInOrder, SectorInt DEF sa
    <3>4. SectorOf(c) < s
      BY <1>3, <2>1, <3>3
    <3>5. QED BY <1>1, <1>2, <3>2, <3>4, InFront DEF a, s
  <2>4. Image(flash')
    BY <1>1, <1>2
  <2>5. QED BY <1>1, <1>2, <2>2, <2>3, <2>4, LostStep DEF a
<1>9. QED BY <1>6, <1>7, <1>8

\* What is left of a cell leads upwards, too.
LEMMA TornIsSound ==
    ASSUME NEW c \in Cells, NEW v, Sound(c, v), NEW torn \in Torn(v)
    PROVE  Sound(c, torn)
<1>1. Sound(c, Erased) /\ Erased \in Cell
  BY ErasedIsSound
<1>2. CASE torn = Erased
  BY <1>1, <1>2
<1>3. CASE torn # Erased
  <2>1. PICK n \in {Nil, Wild, v.next} : torn = [Erased EXCEPT !.next = n] /\ v # Erased
    BY <1>3 DEF Torn
  <2>2. torn = HeaderCell(n, 0, Unnamed)
    BY <2>1 DEF Erased, HeaderCell
  <2>3. n # Nil
    BY <1>3, <2>2 DEF Erased, HeaderCell
  <2>4. n \in Cells \cup {Wild} /\ n > c /\ n # Last
    <3>1. v.next \in Cells \cup {Wild, Nil} /\ v.next # Last /\ v.next > c
      BY DEF Sound, Cell
    <3>2. Wild > c /\ Wild # Last
      BY LastIs
    <3>3. QED BY <2>3, <3>1, <3>2
  <2>5. torn \in Cell /\ torn.next = n /\ torn.name = Unnamed
    BY <2>2, <2>4 DEF HeaderCell, Cell, Contents
  <2>6. QED BY <2>3, <2>4, <2>5, FileSystemAssumption DEF Sound
<1>4. QED BY <1>2, <1>3

LEMMA FailCopyStep ==
    ASSUME Inv, FailCopy
    PROVE  Inv' /\ DirectoryStep
<1> DEFINE a == job.address
           s == job.sector
           d == IF s = SectorOf(a) THEN s * SectorCells ELSE a
<1>1. at = "copy" /\ DamagedFrom(d) /\ Ends
  BY DEF FailCopy
<1>2. PICK n \in 0 .. SectorCells - 1 : \E torn \in Torn(buffer[n]) :
         flash' = [c \in Cells |->
                       IF SectorOf(c) # s \/ c % SectorCells > n THEN flash[c]
                       ELSE IF c % SectorCells = n THEN torn ELSE buffer[c % SectorCells]]
  BY DEF FailCopy
<1>3. PICK torn \in Torn(buffer[n]) :
         flash' = [c \in Cells |->
                       IF SectorOf(c) # s \/ c % SectorCells > n THEN flash[c]
                       ELSE IF c % SectorCells = n THEN torn ELSE buffer[c % SectorCells]]
  BY <1>2
<1>4. Rewriting /\ JobOK(job) /\ at \in RewritePlaces /\ Image(flash)
  BY <1>1 DEF Inv, RewritePlaces, Rewriting
<1>5. /\ a \in Cells /\ a \in Nat /\ s \in Int /\ SectorOf(a) \in Int /\ SectorOf(a) <= s
      /\ s \in 0 .. Sectors - 1
  BY <1>4, JobFacts, JobSector
<1>6. /\ s * SectorCells \in Nat
      /\ \A c \in Cells : SectorOf(c) < s <=> c < s * SectorCells
      /\ s = SectorOf(a) => s * SectorCells <= a
  <2>1. /\ s * SectorCells \in Nat
        /\ \A c \in Cells : /\ SectorOf(c) = s => s * SectorCells <= c
                            /\ SectorOf(c) < s <=> c < s * SectorCells
    BY <1>5, SectorSpan
  <2>2. QED BY <1>5, <2>1
<1>7. intact \in Nat /\ d \in Nat /\ d <= a
  BY <1>5, <1>6, IntactIs
<1>8. \A c \in Cells : c < d => c < a /\ SectorOf(c) < s
  <2>1. ASSUME NEW c \in Cells, c < d PROVE c < a /\ SectorOf(c) < s
    <3>1. c \in Nat /\ c < a /\ c <= a
      <4>1. c \in Nat
        BY LastIs
      <4> HIDE DEF a, d
      <4>2. QED BY <1>5, <1>7, <2>1, <4>1
    <3>2. CASE s = SectorOf(a)
      BY <1>6, <2>1, <3>1, <3>2
    <3>3. CASE s # SectorOf(a)
      <4>1. SectorOf(c) <= SectorOf(a) /\ SectorOf(c) \in Int
        BY <1>5, <3>1, SectorsInOrder, SectorInt
      <4>2. QED BY <1>5, <3>1, <3>3, <4>1
    <3>4. QED BY <3>2, <3>3
  <2>2. QED BY <2>1
<1>9. Image(flash')
  <2>1. \A c \in Cells : Sound(c, flash[c])
    BY <1>4 DEF Image
  <2>2. \A c \in Cells : SectorOf(c) = s => Sound(c, buffer[c % SectorCells])
    BY <1>1, <1>4 DEF Rewriting
  <2>3. ASSUME NEW c \in Cells, SectorOf(c) = s, c % SectorCells = n PROVE Sound(c, torn)
    BY <2>2, <2>3, TornIsSound
  <2>4. \A c \in Cells : Sound(c, flash'[c])
    BY <1>3, <2>1, <2>2, <2>3
  <2>5. flash' \in [Cells -> Cell]
    BY <1>3, <2>4 DEF Sound
  <2>6. QED BY <2>4, <2>5 DEF Image
<1>10. intact' = IF d < intact THEN d ELSE intact
  BY <1>1 DEF DamagedFrom
<1> HIDE DEF d, s, a
<1>11. intact' \in Nat /\ intact' <= intact /\ intact' <= d /\ intact' <= a
  BY <1>5, <1>7, <1>10
<1>12. ASSUME NEW c \in Cells, c < intact' PROVE flash'[c] = Target[c]
  <2>1. c < d /\ c \in Nat
    BY <1>7, <1>11, <1>12, LastIs
  <2>2. c < a /\ SectorOf(c) < s /\ SectorOf(c) \in Int
    BY <1>8, <2>1, SectorInt
  <2>3. SectorOf(c) # s
    BY <1>5, <2>2
  <2>4. flash'[c] = flash[c]
    BY <1>3, <2>3
  <2>5. QED BY <1>4, <2>2, <2>4, InFront DEF a, s
<1>13. QED BY <1>1, <1>4, <1>9, <1>11, <1>12, LostStep DEF a

LEMMA FailStep ==
    ASSUME Inv, Fail
    PROVE  Inv' /\ DirectoryStep
<1>1. CASE at \in AppendPlaces
  BY <1>1, FailAtEndStep
<1>2. CASE at \in RewritePlaces
  BY <1>2, FailInHoleStep
<1>3. CASE at = "clear"
  <2>1. Ends /\ flash' = flash /\ intact' = intact /\ at' = "idle"
    BY <1>3 DEF Fail, HeadersSplit, Ends
  <2>2. Good(flash, intact) /\ intact \in Cells \cup {Wild}
    BY <1>3 DEF Inv, Clearing
  <2>3. Inv'
    BY <2>1, <2>2, EndsInv
  <2>4. QED BY <1>3, <2>1, <2>3 DEF DirectoryStep, Files
<1>4. QED BY <1>1, <1>2, <1>3 DEF Fail, Inv

-----------------------------------------------------------------------------
(***************************************************************************)
(* Theorems.                                                               *)
(***************************************************************************)
LEMMA UnchangedStep == Inv /\ UNCHANGED vars => Inv' /\ DirectoryStep
<1> SUFFICES ASSUME Inv, UNCHANGED vars PROVE Inv' /\ DirectoryStep
  OBVIOUS
<1>1. /\ flash' = flash /\ buffer' = buffer /\ at' = at /\ job' = job /\ seen' = seen
      /\ intact' = intact
  BY DEF vars
<1>2. Now' = Now /\ Target' = Target /\ Base' = Base
  BY <1>1 DEF Target, Now, Held, Base
<1>3. Appending' <=> Appending
  BY <1>1, <1>2 DEF Appending, Keeps
<1>4. Rewriting' <=> Rewriting
  BY <1>1, <1>2 DEF Rewriting, Keeps
<1>5. Clearing' <=> Clearing
  BY <1>1 DEF Clearing
<1>6. AllThere' <=> AllThere
  BY <1>1, <1>2 DEF AllThere, Outside
<1>7. Inv'
  BY <1>1, <1>3, <1>4, <1>5, <1>6 DEF Inv
<1>8. DirectoryStep
  BY <1>1 DEF DirectoryStep, Files
<1>9. QED BY <1>7, <1>8

LEMMA NextStep == Inv /\ [Next]_vars => Inv' /\ DirectoryStep
<1> SUFFICES ASSUME Inv, [Next]_vars PROVE Inv' /\ DirectoryStep
  OBVIOUS
<1>1. CASE Writes
  <2>1. CASE WriteNext
    BY <2>1, WriteNextStep
  <2>2. CASE WriteName
    BY <2>2, WriteNameStep
  <2>3. CASE EraseBuffer
    BY <2>3, EraseBufferStep
  <2>4. CASE Fill
    BY <2>4, FillStep
  <2>5. CASE Erase
    BY <2>5, EraseStep
  <2>6. CASE Copy
    BY <2>6, CopyStep
  <2>7. CASE ClearSector
    BY <2>7, ClearSectorStep
  <2>8. QED BY <1>1, <2>1, <2>2, <2>3, <2>4, <2>5, <2>6, <2>7 DEF Writes
<1>2. CASE Fail
  BY <1>2, FailStep
<1>3. CASE FailCopy
  BY <1>3, FailCopyStep
<1>4. CASE clearFS
  BY <1>4, ClearFSStep
<1>5. ASSUME NEW f \in Names, unlink(f) PROVE Inv' /\ DirectoryStep
  BY <1>5, UnlinkStep
<1>6. ASSUME NEW f \in Names, NEW size \in Sizes, CreateAtEnd(f, size)
      PROVE  Inv' /\ DirectoryStep
  BY <1>6, CreateAtEndStep
<1>7. ASSUME NEW f \in Names, NEW size \in Sizes, CreateInHole(f, size)
      PROVE  Inv' /\ DirectoryStep
  BY <1>7, CreateInHoleStep
<1>8. ASSUME NEW f \in Names, NEW size \in Sizes, NEW c \in {NoName, Text},
             NEW i \in 1 .. size, Use(f, i, c)
      PROVE  Inv' /\ DirectoryStep
  BY <1>8, UseStep
<1>9. CASE UNCHANGED vars
  BY <1>9, UnchangedStep
<1>10. QED
  BY <1>1, <1>2, <1>3, <1>4, <1>5, <1>6, <1>7, <1>8, <1>9 DEF Next

LEMMA AlwaysInv == Spec => []Inv
BY InitInv, NextStep, PTL DEF Spec

LEMMA InvTypes == Inv => TypeOK
<1> SUFFICES ASSUME Inv PROVE TypeOK
  OBVIOUS
<1>1. Image(flash)
  BY DEF Inv, Good, Clearing, Appending, Rewriting, AppendPlaces, RewritePlaces
<1>2. \A a \in InList(flash) : flash[a].next \in {b \in Cells : b < Last} \cup {Wild, Nil}
  <2>1. ASSUME NEW a \in InList(flash)
        PROVE  flash[a].next \in {b \in Cells : b < Last} \cup {Wild, Nil}
    <3>1. a \in Cells
      BY <1>1, ImageIs
    <3>2. flash[a].next \in Cells \cup {Wild, Nil} /\ flash[a].next # Last
      BY <1>1, <3>1 DEF Image, Sound, Cell
    <3>3. QED BY <3>2, LastIs
  <2>2. QED BY <2>1
<1>3. at \in {"idle", "low", "high", "name", "erase buffer", "fill", "erase", "copy", "clear"}
  BY DEF Inv, AppendPlaces, RewritePlaces
<1>4. QED BY <1>1, <1>2, <1>3 DEF TypeOK, Inv, Image

LEMMA InvNothingLost == Inv => NothingLost
<1> SUFFICES ASSUME Inv, at \notin {"idle", "clear"}, NEW f \in Names, seen[f] # Absent
             PROVE  /\ Held(seen[f].start).name = f
                    /\ \A i \in DOMAIN seen[f].data :
                          Held(seen[f].start + i).name = seen[f].data[i]
  BY DEF NothingLost
<1>1. AllThere
  BY DEF Inv
<1>2. \A c \in Cells : Now[c] = Held(c)
  BY DEF Now
<1>3. QED BY <1>1, <1>2 DEF AllThere, Outside

\* The flash is cells, and a header in the list leads to one that is in it or
\* out of it, however far a header is written.
THEOREM TypeCorrect == Spec => []TypeOK
BY AlwaysInv, InvTypes, PTL

\* At each moment of open all files there were are in the flash or, while their
\* sector is erased, in the buffer.
THEOREM NothingGoesMissing == Spec => []NothingLost
BY AlwaysInv, InvNothingLost, PTL

\* What the calls do, word by word and sector by sector, and wherever they
\* fail, are for the files that end before the first damage the steps of a
\* directory: a call changes the file it is for and no other.
THEOREM Implements == Spec => ImplementsDirectory
<1>1. Init => D!Init
  <2>1. ASSUME Init PROVE D!Init
    <3>1. flash \in [Cells -> Cell] /\ (\A c \in Cells : flash[c] = Erased) /\ at = "idle"
          /\ intact = Wild
      BY <2>1, ErasedIsSound DEF Init
    <3>2. Image(flash) /\ Wild \in Nat /\ Wild > 0
      BY <3>1, ErasedIsSound, LastIs DEF Image
    <3>3. Listing(flash) = [f \in Names |-> Absent]
      BY <3>1, <3>2, BlankIsGood
    <3>4. QED BY <3>1, <3>3 DEF D!Init, Before
  <2>2. QED BY <2>1
<1>2. Inv /\ [Next]_vars => [D!Next]_Files
  <2>1. Inv /\ [Next]_vars => DirectoryStep
    BY NextStep
  <2>2. QED BY <2>1 DEF DirectoryStep
<1>3. QED BY <1>1, <1>2, AlwaysInv, PTL DEF Spec, ImplementsDirectory, D!Spec, Files
=============================================================================
