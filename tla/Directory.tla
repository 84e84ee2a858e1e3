----------------------------- MODULE Directory -----------------------------
(***************************************************************************)
(* What a program may expect of a file system: files have names, stay      *)
(* where they are, and hold what was written into them until they are      *)
(* removed.  A new file may hold anything.  When the medium is damaged,    *)
(* the files that end before the damage are as they were.                  *)
(***************************************************************************)
EXTENDS Integers, Sequences

CONSTANTS Names, Contents, Absent

VARIABLES
    files,       \* of a name: Absent, or where the file starts and what it holds
    intact,      \* where the damage starts: given, as is the next
    clearing     \* a program asks for all files to be removed

Init == files = [f \in Names |-> Absent]

\* The last place of a file, and all: those of its header and of its data.
End(file)    == file.start + Len(file.data)
Extent(file) == file.start .. End(file)

Create(f) ==
    /\ files[f] = Absent
    /\ files'[f] # Absent
    /\ files' = [files EXCEPT ![f] = files'[f]]
    /\ \A g \in Names : files[g] # Absent => Extent(files'[f]) \cap Extent(files[g]) = {}

Write(f, i, c) ==
    /\ files[f] # Absent
    /\ i \in DOMAIN files[f].data
    /\ files' = [files EXCEPT ![f].data[i] = c]

Remove(f) ==
    /\ files[f] # Absent
    /\ files' = [files EXCEPT ![f] = Absent]

Clear ==
    /\ clearing
    /\ files' = [f \in Names |-> Absent]

\* Damage further in front than before.
Lose ==
    /\ intact' < intact
    /\ files' = [f \in Names |->
                    IF files[f] # Absent /\ End(files[f]) < intact' THEN files[f] ELSE Absent]

Next ==
    \/ Clear \/ Lose
    \/ \E f \in Names :
          \/ Create(f)
          \/ Remove(f)
          \/ files[f] # Absent /\ \E i \in DOMAIN files[f].data, c \in Contents : Write(f, i, c)

Spec == Init /\ [][Next]_files
=============================================================================
