----------------------------- MODULE FileSystem -----------------------------
(***************************************************************************)
(* FileSystem.cpp: a list of headers from the start of sector 8 on, each   *)
(* followed by the data of its file.  A file is removed by a zero in its   *)
(* name, which makes it a hole; a new file goes to the end of the list, or *)
(* into holes when there is no room at the end.  To change a header in a   *)
(* hole, each sector it touches is put together in the buffer sector,      *)
(* erased, and copied back.                                                *)
(*                                                                         *)
(* The flash is cells of the size of a header, which is the unit of all    *)
(* addresses in the list.  A cell is a header or data of a file: what is   *)
(* read at its address is next, size, and name.                            *)
(***************************************************************************)
EXTENDS Integers, Sequences

CONSTANTS
    Names,
    Sizes,           \* of files, in cells of data
    SectorCells,     \* cells of a sector
    Sectors,         \* sectors for files: 3, from 8 to 10
    NoName,          \* a name that starts with a zero, or data that does there
    Unnamed,         \* an erased one
    Text,            \* data other than NoName
    Absent

ASSUME FileSystemAssumption ==
    /\ Sizes \subseteq Nat
    /\ SectorCells \in Nat \ {0} /\ Sectors \in Nat \ {0}
    /\ {NoName, Unnamed, Text} \cap Names = {}
    /\ NoName # Unnamed

Cells == 0 .. Sectors * SectorCells - 1
Last  == Sectors * SectorCells - 1      \* getLastAddress
Wild  == Last + 1                       \* an address outside of the file system
Nil   == Last + 2                       \* FS_BLANK

VARIABLES
    flash,           \* sectors 8 to 10
    buffer,          \* sector 11
    at,              \* where a call of open stands
    job,             \* what it writes
    seen,            \* the files when it was called
    intact           \* history: nothing has damaged the list before this address

vars == <<flash, buffer, at, job, seen, intact>>

-----------------------------------------------------------------------------
(* Cells, as read at their address.                                        *)

Erased            == [next |-> Nil, size |-> 0, name |-> Unnamed]
HeaderCell(n, s, f) == [next |-> n, size |-> s, name |-> f]
FalseHeader(n)    == HeaderCell(n, 0, NoName)
DataCell(c)       == [next |-> Wild, size |-> 0, name |-> c]

Contents == {NoName, Text, Unnamed}
Cell == [next : Cells \cup {Wild, Nil}, size : Sizes \cup {0}, name : Names \cup Contents]

isValid(a)  == flash[a].name # NoName     \* is not a hole
SectorOf(a) == a \div SectorCells

\* The headers that the list in fl leads to.  It leads upwards.
InList(fl) ==
    LET from[a \in Cells \cup {Wild, Nil}] ==
            IF a < Last THEN {a} \cup from[fl[a].next] ELSE {}
    IN  from[0]

\* getAddress and findFile: the first with this name.
Named(fl, f)      == {a \in InList(fl) : fl[a].name = f}
findFile(f)       == Named(flash, f) # {}
getAddress(fl, f) == LET named == Named(fl, f)
                     IN  CHOOSE a \in named : \A b \in named : a <= b

ASSUME AbsenceAssumption ==
    Absent \notin [start : Cells, data : Seq(Names \cup Contents)]

\* What a program finds with lstat, and with open for reading.
Listing(fl) ==
    [f \in Names |->
        IF Named(fl, f) = {} THEN Absent
        ELSE LET a == getAddress(fl, f)
             IN  [start |-> a, data |-> [i \in 1 .. fl[a].size |-> fl[a + i].name]]]

-----------------------------------------------------------------------------
(* Where open puts a new file.                                             *)

\* The cells of a file of this size: rounded up, and two more.
Need(size) == size + 2

\* The newest header in the list.  A list that leads out of the flash makes
\* the loop read there, which resets the board.
Newest == {a \in InList(flash) : flash[a].next = Nil}

\* Wrong: up to the last address.
RoomUpTo(a, need) == need + a <= Last

RoomAtEnd(a, need) == need + a < Last

\* Wrong: files that follow are added too.
HoleAndFiles(a, need) ==
    LET grown[p \in Cells \cup {Wild, Nil}] ==
            LET size == IF p = a THEN flash[a].next - a ELSE p - a
            IN  IF p < Last /\ size < need THEN grown[flash[p].next] ELSE size
    IN  grown[a]

\* The size of the hole at a as the scan finds it: holes that follow are
\* added until it is enough.
HoleSize(a, need) ==
    LET grown[p \in Cells \cup {Wild, Nil}] ==
            LET size == IF p = a THEN flash[a].next - a ELSE p - a
            IN  IF p < Last /\ ~isValid(p) /\ size < need THEN grown[flash[p].next]
                ELSE size
    IN  grown[a]

\* The holes that the scan puts into its vector.  It goes on behind the header
\* after a hole that is large enough, and behind the one after a header of
\* one that is not; no hole is the last of a list that ends.
Holes(need) ==
    LET from[a \in Cells \cup {Wild, Nil}] ==
            LET size == HoleSize(a, need)
                next == flash[a].next
            IN  IF a >= Last THEN {}
                ELSE IF isValid(a) THEN from[next]
                ELSE IF size >= need /\ a + size < Last
                THEN {a} \cup from[flash[a + size].next]
                ELSE IF next < Last THEN from[flash[next].next] ELSE {}
    IN  from[0]

\* Where the hole at a ends, when it is measured again.
HoleEnd(a, need) ==
    LET end[p \in Cells \cup {Wild, Nil}] ==
            IF p < Last /\ p - a < need THEN end[flash[p].next] ELSE p
    IN  end[flash[a].next]

-----------------------------------------------------------------------------
TypeOK ==
    /\ flash \in [Cells -> Cell]
    /\ buffer \in [0 .. SectorCells - 1 -> Cell]
    /\ at \in {"idle", "low", "high", "name", "erase buffer", "fill", "erase", "copy", "clear"}
    /\ \A a \in InList(flash) : flash[a].next \in {b \in Cells : b < Last} \cup {Wild, Nil}
    /\ intact \in Cells \cup {Wild}

ErasedSector == [i \in 0 .. SectorCells - 1 |-> Erased]

NoJob == [address |-> Nil, header |-> Erased, false |-> Nil, sector |-> 0]

\* Every sector erased, as clearFS leaves them.
Init ==
    /\ flash = [a \in Cells |-> Erased]
    /\ buffer = ErasedSector
    /\ at = "idle"
    /\ job = NoJob
    /\ seen = [f \in Names |-> Absent]
    /\ intact = Wild

\* From here on the list may lead to what is no header, or end too early.
DamagedFrom(a) == intact' = IF a < intact THEN a ELSE intact

Begins(place, a, header, false) ==
    /\ at' = place
    /\ job' = [address |-> a, header |-> header, false |-> false, sector |-> SectorOf(a)]
    /\ seen' = Listing(flash)
    /\ UNCHANGED <<flash, buffer>>

\* The next call that uses the buffer erases it first.
Ends ==
    /\ at' = "idle"
    /\ buffer' = ErasedSector
    /\ job' = NoJob
    /\ seen' = [f \in Names |-> Absent]

-----------------------------------------------------------------------------
(* open.                                                                   *)

\* A file at the end of the list.
AppendFile(f, size) ==
    \E a \in Newest :
        /\ RoomAtEnd(a, Need(size))
        /\ Begins("low", a, HeaderCell(a + Need(size), size, f), Nil)
    /\ UNCHANGED intact

\* The hole is as large as the file.
FillsHole(a, f, size) ==
    /\ flash[a].next - a = Need(size)
    /\ Begins("erase buffer", a, HeaderCell(flash[a].next, size, f), Nil)
    /\ UNCHANGED intact

\* The first hole is larger: the rest of it remains one.
SplitsHole(a, f, size) ==
    /\ flash[a].next - a > Need(size)
    /\ Begins("erase buffer", a, HeaderCell(a + Need(size), size, f), flash[a].next)
    /\ UNCHANGED intact

\* Several holes are needed.  What is left of the last remains a hole if
\* isValid finds none where the file ends.  The comment says "same size", but
\* there may as well be old data, or an erased cell: the new header leads to
\* no header then.
MergesHoles(a, f, size) ==
    LET next == a + Need(size)
        end  == HoleEnd(a, Need(size))
    IN  /\ flash[a].next - a < Need(size)
        /\ Begins("erase buffer", a, HeaderCell(next, size, f), IF isValid(next) THEN Nil ELSE end)
        /\ IF isValid(next) /\ next # end THEN DamagedFrom(next) ELSE UNCHANGED intact

\* open with O_CREAT and O_WRONLY, when there is room at the end.
CreateAtEnd(f, size) ==
    /\ at = "idle"
    /\ ~findFile(f)
    /\ AppendFile(f, size)

\* The same when there is none, into one of the holes.
CreateInHole(f, size) ==
    /\ at = "idle"
    /\ ~findFile(f)
    /\ \E a \in Newest : ~RoomAtEnd(a, Need(size))
    /\ \E a \in Holes(Need(size)) :
          \/ FillsHole(a, f, size)
          \/ SplitsHole(a, f, size)
          \/ MergesHoles(a, f, size)

-----------------------------------------------------------------------------
(* What open writes.                                                       *)

\* writeHeader at the end of the list: a word is written in two halves.
WriteNext ==
    \/ /\ at = "low"
       /\ flash' = [flash EXCEPT ![job.address].next = Wild]
       /\ at' = "high"
       /\ UNCHANGED <<buffer, job, seen, intact>>
    \/ /\ at = "high"
       /\ flash' = [flash EXCEPT ![job.address].next = job.header.next]
       /\ at' = "name"
       /\ UNCHANGED <<buffer, job, seen, intact>>

WriteName ==
    /\ at = "name"
    /\ flash' = [flash EXCEPT ![job.address] = job.header]
    /\ Ends
    /\ UNCHANGED intact

\* The last address that writeHeaderRestoringSectors looks at.
Until == IF job.false = Nil THEN job.header.next ELSE job.false

EraseBuffer ==
    /\ at = "erase buffer"
    /\ buffer' = ErasedSector
    /\ at' = "fill"
    /\ UNCHANGED <<flash, job, seen, intact>>

\* Wrong: everything behind the new header is left out.
CopiedUpTo(c) == IF c = job.address THEN job.header
                 ELSE IF c < job.address THEN flash[c] ELSE Erased

\* What the buffer gets for a cell.  After a header the loop goes on at its
\* next, as long as that is in the same sector.
CopyOf(c) ==
    LET next == job.header.next
    IN  IF c = job.address THEN job.header
        ELSE IF c = next /\ job.false # Nil THEN FalseHeader(job.false)
        ELSE IF \/ job.address < c /\ c < next /\ SectorOf(c) = SectorOf(job.address)
                \/ job.false # Nil /\ next < c /\ c < job.false /\ SectorOf(c) = SectorOf(next)
        THEN Erased
        ELSE flash[c]

\* Where a false header points to itself, the loop writes it for ever.
Endless == job.false = job.header.next /\ SectorOf(job.false) = job.sector

Fill ==
    /\ at = "fill"
    /\ IF Endless THEN UNCHANGED <<buffer, at>>
       ELSE /\ buffer' = [i \in 0 .. SectorCells - 1 |-> CopyOf(job.sector * SectorCells + i)]
            /\ at' = "erase"
    /\ UNCHANGED <<flash, job, seen, intact>>

SectorErased == [c \in Cells |-> IF SectorOf(c) = job.sector THEN Erased ELSE flash[c]]

Erase ==
    /\ at = "erase"
    /\ flash' = SectorErased
    /\ at' = "copy"
    /\ UNCHANGED <<buffer, job, seen, intact>>

\* Wrong: the same sector again.
SameSector == job.sector

FollowingSector == job.sector + 1

Copy ==
    /\ at = "copy"
    /\ flash' = [c \in Cells |-> IF SectorOf(c) = job.sector THEN buffer[c % SectorCells]
                                 ELSE flash[c]]
    /\ IF job.sector < SectorOf(Until)
       THEN /\ job' = [job EXCEPT !.sector = FollowingSector]
            /\ at' = "erase buffer"
            /\ UNCHANGED <<buffer, seen>>
       ELSE Ends
    /\ UNCHANGED intact

\* The new header is on the flash, and the false one it leads to is not.
HeadersSplit ==
    /\ at \in {"erase buffer", "fill", "erase"}
    /\ SectorOf(job.address) < job.sector /\ job.sector <= SectorOf(job.header.next)
    /\ job.false \notin {Nil, job.header.next}

\* A call of the driver fails and changes nothing, and open returns NULL; or
\* the power goes, and nothing in memory is missed.
Fail ==
    /\ at \notin {"idle", "copy"}
    /\ IF HeadersSplit THEN DamagedFrom(job.address) ELSE UNCHANGED intact
    /\ Ends
    /\ UNCHANGED flash

\* What there is of a cell when writing it stops.
Torn(v) == IF v = Erased THEN {Erased}
           ELSE {[Erased EXCEPT !.next = n] : n \in {Nil, Wild, v.next}}

\* Writing the sector back fails, or the power goes.  The buffer has what is
\* missing then, but no code looks for it there.
FailCopy ==
    /\ at = "copy"
    /\ \E n \in 0 .. SectorCells - 1 : \E torn \in Torn(buffer[n]) :
          flash' = [c \in Cells |->
                       IF SectorOf(c) # job.sector \/ c % SectorCells > n THEN flash[c]
                       ELSE IF c % SectorCells = n THEN torn ELSE buffer[c % SectorCells]]
    /\ DamagedFrom(IF job.sector = SectorOf(job.address) THEN job.sector * SectorCells
                   ELSE job.address)
    /\ Ends

-----------------------------------------------------------------------------
(* The other calls.                                                        *)

ZeroName(a) == flash' = [flash EXCEPT ![a].name = NoName]

unlink(f) ==
    /\ at = "idle"
    /\ findFile(f)
    /\ ZeroName(getAddress(flash, f))
    /\ UNCHANGED <<buffer, at, job, seen, intact>>

\* A program writes to an open file, once in each place.
Use(f, i, c) ==
    LET a == getAddress(flash, f)
    IN  /\ at = "idle"
        /\ findFile(f)
        /\ i \in 1 .. flash[a].size
        /\ flash[a + i] = Erased
        /\ flash' = [flash EXCEPT ![a + i] = DataCell(c)]
        /\ UNCHANGED <<buffer, at, job, seen, intact>>

\* clearFS erases sector after sector.
clearFS ==
    /\ at = "idle"
    /\ Begins("clear", 0, Erased, Nil)
    /\ UNCHANGED intact

ClearSector ==
    LET start == job.sector * SectorCells
    IN  /\ at = "clear"
        /\ \/ /\ flash' = SectorErased
              /\ intact' = IF start \in {0, intact} THEN start + SectorCells ELSE intact
           \/ UNCHANGED flash /\ DamagedFrom(start)
        /\ IF job.sector = Sectors - 1 THEN Ends
           ELSE job' = [job EXCEPT !.sector = FollowingSector] /\ UNCHANGED <<buffer, at, seen>>

-----------------------------------------------------------------------------
Writes == WriteNext \/ WriteName \/ EraseBuffer \/ Fill \/ Erase \/ Copy \/ ClearSector

Next ==
    \/ Writes \/ Fail \/ FailCopy \/ clearFS
    \/ \E f \in Names :
          \/ unlink(f)
          \/ \E size \in Sizes : CreateAtEnd(f, size) \/ CreateInHole(f, size)
          \/ \E size \in Sizes, c \in {NoName, Text} : \E i \in 1 .. size : Use(f, i, c)

Spec == Init /\ [][Next]_vars /\ WF_vars(Writes)

-----------------------------------------------------------------------------
(* Properties.                                                             *)

\* The files that end before address p.
Before(p, files) ==
    [f \in Names |->
        IF files[f] # Absent /\ files[f].start + Len(files[f].data) < p THEN files[f]
        ELSE Absent]

D == INSTANCE Directory WITH
        files <- Before(intact, IF at \in {"idle", "clear"} THEN Listing(flash) ELSE seen),
        clearing <- at = "clear"

\* Creating a file, in whatever holes and over how many sectors, changes
\* nothing about the others, nor does a call that fails: of the files that end
\* before the first damage.  Only a merge that ends on old data, headers a
\* failure has split, a copy or a clearFS that stops damage anything
\* (DamagedFrom), and none of them an address below.
ImplementsDirectory == D!Spec

\* What the flash holds at c, or the buffer while its sector is erased.
Held(c) == IF at = "copy" /\ SectorOf(c) = job.sector THEN buffer[c % SectorCells]
           ELSE flash[c]

\* At each moment of a rewriting every file there was, behind the damage too,
\* is in the flash or, its sector erased, in the buffer.
NothingLost ==
    at \notin {"idle", "clear"} =>
        \A f \in Names : seen[f] # Absent =>
            LET a == seen[f].start
            IN  /\ Held(a).name = f
                /\ \A i \in DOMAIN seen[f].data : Held(a + i).name = seen[f].data[i]

\* open returns, over however many sectors it writes, unless it comes to a false
\* header that leads to itself: that one it writes for ever.
CreateReturns == at # "idle" ~> (at = "idle" \/ (at = "fill" /\ Endless))
=============================================================================
