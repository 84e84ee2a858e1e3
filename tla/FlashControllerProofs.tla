----------------------- MODULE FlashControllerProofs -----------------------
(***************************************************************************)
(* The registers are at rest between two calls, and the calls do what      *)
(* FlashCalls says, for any threads, sectors, places and values.           *)
(***************************************************************************)
EXTENDS FlashController, TLAPS

Points == {"program", "unlock", "check", "start", "read", "size", "data",
           "wait", "clear", "sector", "lock"}

\* The places of the bits of SNB that a call sets.
SnbOf(w) == IF w.kind = "sector" THEN Bits(w.sector) ELSE {}

\* What a call leaves in CR until its bit is cleared: that bit, and perhaps STRT.
Signed(w, b) == Asked(w) \in b /\ b \subseteq {Asked(w), "STRT"}

TypeInv ==
    /\ content \in [Calls!Cells -> Calls!States]
    /\ running \in Calls!Work \cup {None}
    /\ at \in [Threads -> Points]
    /\ call \in [Threads -> Calls!Work \cup {None}]
    /\ read \in [Threads -> SUBSET FlashBits]
    /\ bits \subseteq FlashBits /\ snb \subseteq Places4
    /\ lockBit \in BOOLEAN /\ keyed = TRUE
    /\ done \subseteq Threads

\* One call at a time, and a thread in it has asked for something.
Alone ==
    /\ \A t, u \in Threads : at[t] # "program" /\ at[u] # "program" => t = u
    /\ \A t \in Threads : at[t] = "program" <=> call[t] = None

Rest == bits = {} /\ snb = {} /\ running = None

\* What the registers, the interface and the flash are like where a call is.
Place(t) ==
    LET w == call[t] IN
    /\ at[t] = "unlock" => lockBit /\ Rest
    /\ at[t] \in {"check", "start"} => ~lockBit /\ Rest
    /\ at[t] \in {"read", "size", "wait"} =>
          /\ Signed(w, bits) /\ snb = SnbOf(w)
          /\ running \in {w, None} /\ ("STRT" \in bits => running = w)
          /\ running = w \/ t \in done
    /\ at[t] \in {"read", "size"} => w.kind # "cell" /\ ("STRT" \notin bits => running = None)
    /\ at[t] = "size" => Signed(w, read[t]) /\ ("STRT" \in read[t] \/ t \in done)
    /\ at[t] = "data" => w.kind = "cell" /\ bits = {"PG"} /\ snb = {} /\ running = None
    /\ at[t] = "clear" => bits = {Asked(w)} /\ snb = SnbOf(w) /\ running = None /\ t \in done
    /\ at[t] = "sector" => bits = {} /\ running = None /\ t \in done
    /\ at[t] = "lock" => Rest /\ t \in done
    /\ at[t] \in {"unlock", "check", "start", "data"} => t \notin done
    /\ t \in done => Calls!After(w, content) = content

Inside(t) == at[t] # "program"

Placed == \A t \in Threads : Inside(t) => Place(t)

\* Nobody is done who is not in a call.
DoneInside == \A t \in done : Inside(t)

IInv == TypeInv /\ Alone /\ Placed /\ DoneInside /\ RegistersAtRest

-----------------------------------------------------------------------------
(* What the operators do.                                                  *)

\* Four bits hold the number of a sector: what is put in SNB is read again.
LEMMA SectorBits ==
    ASSUME NEW n \in 0 .. 11
    PROVE  Bits(n) \in SUBSET Places4 /\ Number(Bits(n)) = n
<1>1. \E S \in SUBSET Places4 : Number(S) = n
  <2>1. Number({}) = 0 /\ Number({0}) = 1 /\ Number({1}) = 2 /\ Number({0, 1}) = 3
    BY DEF Number
  <2>2. Number({2}) = 4 /\ Number({0, 2}) = 5 /\ Number({1, 2}) = 6 /\ Number({0, 1, 2}) = 7
    BY DEF Number
  <2>3. Number({3}) = 8 /\ Number({0, 3}) = 9 /\ Number({1, 3}) = 10 /\ Number({0, 1, 3}) = 11
    BY DEF Number
  <2>4. /\ {} \in SUBSET Places4 /\ {0} \in SUBSET Places4 /\ {1} \in SUBSET Places4
        /\ {0, 1} \in SUBSET Places4 /\ {2} \in SUBSET Places4 /\ {0, 2} \in SUBSET Places4
        /\ {1, 2} \in SUBSET Places4 /\ {0, 1, 2} \in SUBSET Places4 /\ {3} \in SUBSET Places4
        /\ {0, 3} \in SUBSET Places4 /\ {1, 3} \in SUBSET Places4
        /\ {0, 1, 3} \in SUBSET Places4
    BY DEF Places4
  <2>5. n \in {0, 1, 2, 3, 4, 5, 6, 7, 8, 9, 10, 11}  OBVIOUS
  <2>. QED  BY <2>1, <2>2, <2>3, <2>4, <2>5, Zenon
<1>. QED  BY <1>1, Zenon DEF Bits

\* The three kinds of work.
LEMMA WorkKinds ==
    ASSUME NEW w \in Calls!Work
    PROVE  /\ w # None
           /\ \/ w.kind = "all" /\ w = Calls!All
              \/ w.kind = "sector" /\ w.sector \in Sectors /\ w = Calls!Sector(w.sector)
              \/ w.kind = "cell" /\ w.cell \in Calls!Cells /\ w.value \in Values
BY FlashAssumption DEF Calls!Work, Calls!All, Calls!Sector, Calls!Cell

\* Work keeps the type of the flash, and done twice it is done once.
LEMMA AfterType ==
    ASSUME NEW w \in Calls!Work, NEW c \in [Calls!Cells -> Calls!States]
    PROVE  Calls!After(w, c) \in [Calls!Cells -> Calls!States]
BY WorkKinds DEF Calls!After, Calls!Programmed, Calls!States

LEMMA AfterTwice ==
    ASSUME NEW w \in Calls!Work, NEW c \in [Calls!Cells -> Calls!States]
    PROVE  Calls!After(w, Calls!After(w, c)) = Calls!After(w, c)
BY WorkKinds, FlashAssumption DEF Calls!After, Calls!Programmed, Calls!States

-----------------------------------------------------------------------------
(* The invariant.                                                          *)

LEMMA Initially == Init => IInv
<1>. SUFFICES ASSUME Init PROVE IInv  OBVIOUS
<1>1. TypeInv
  BY DEF Init, TypeInv, Points, Calls!States
<1>2. Alone /\ Placed /\ DoneInside /\ RegistersAtRest
  BY DEF Init, Alone, Placed, DoneInside, RegistersAtRest, Inside
<1>. QED  BY <1>1, <1>2 DEF IInv

\* While a thread is in a call, what it does concerns nobody else.
LEMMA Moves ==
    ASSUME IInv, NEW t \in Threads, Inside(t), NEW p \in Points \ {"program"},
           at' = [at EXCEPT ![t] = p], call' = call, done' \subseteq done \cup {t},
           TypeInv', Place(t)'
    PROVE  IInv'
<1>1. \A u \in Threads : u # t => at[u] = "program" /\ at'[u] = "program"
  BY DEF IInv, TypeInv, Alone, Inside
<1>2. at'[t] = p /\ p # "program"
  BY DEF IInv, TypeInv
<1>3. Alone'
  BY <1>1, <1>2 DEF IInv, Alone, Inside
<1>4. Placed'
  BY <1>1 DEF Placed, Inside
<1>5. DoneInside'
  BY <1>1, <1>2 DEF IInv, DoneInside, Inside, TypeInv
<1>6. RegistersAtRest'
  BY <1>2 DEF RegistersAtRest
<1>. QED  BY <1>3, <1>4, <1>5, <1>6 DEF IInv

\* Who is in a call asked for something, and is where Place says.
LEMMA Working ==
    ASSUME IInv, NEW t \in Threads, Inside(t)
    PROVE  call[t] \in Calls!Work /\ Place(t)
BY DEF IInv, TypeInv, Alone, Placed, Inside

LEMMA Asks ==
    ASSUME NEW w
    PROVE  Asked(w) \in FlashBits /\ Asked(w) # "STRT"
BY DEF Asked, FlashBits

LEMMA UnlockStep ==
    ASSUME IInv, NEW t \in Threads, Unlock(t)
    PROVE  IInv'
<1>1. Inside(t) /\ at' = [at EXCEPT ![t] = "check"] /\ at[t] = "unlock"
  BY DEF Unlock, Goes, Inside
<1>2. call[t] \in Calls!Work /\ Place(t)
  BY <1>1, Working
<1>3. keyed' = TRUE /\ lockBit' = FALSE
  BY <1>1, <1>2 DEF Unlock, Place, IInv, TypeInv
<1>4. TypeInv'
  BY <1>1, <1>3 DEF Unlock, IInv, TypeInv, Points
<1>5. Place(t)'
  BY <1>1, <1>2, <1>3 DEF Unlock, Place, Rest, IInv, TypeInv
<1>. QED  BY <1>1, <1>4, <1>5, Moves DEF Unlock, Points

LEMMA CheckStep ==
    ASSUME IInv, NEW t \in Threads, Check(t)
    PROVE  IInv' /\ call' = call
<1>1. Inside(t) /\ at[t] = "check"
  BY DEF Check, Goes, Inside
<1>2. call[t] \in Calls!Work /\ Place(t)
  BY <1>1, Working
<1>3. lockBit = FALSE /\ running = None
  BY <1>1, <1>2 DEF Place, Rest, IInv, TypeInv
<1>4. at' = [at EXCEPT ![t] = "start"] /\ call' = call
  BY <1>3 DEF Check, Goes
<1>5. TypeInv'
  BY <1>4 DEF Check, IInv, TypeInv, Points
<1>6. Place(t)'
  BY <1>1, <1>2, <1>4 DEF Check, Place, Rest, IInv, TypeInv
<1>. QED  BY <1>1, <1>4, <1>5, <1>6, Moves DEF Check, Points

LEMMA ReadStep ==
    ASSUME IInv, NEW t \in Threads, ReadCR(t)
    PROVE  IInv'
<1>1. Inside(t) /\ at' = [at EXCEPT ![t] = "size"] /\ at[t] = "read"
  BY DEF ReadCR, Goes, Inside
<1>2. call[t] \in Calls!Work /\ Place(t)
  BY <1>1, Working
<1>3. TypeInv'
  BY <1>1 DEF ReadCR, regs, IInv, TypeInv, Points
<1>4. read'[t] = bits
  BY DEF ReadCR, regs, IInv, TypeInv
<1>5. "STRT" \in bits \/ t \in done
  BY <1>1, <1>2, WorkKinds DEF Place
<1>6. Place(t)'
  BY <1>1, <1>2, <1>4, <1>5 DEF ReadCR, regs, Place, Signed, SnbOf, Asked, IInv, TypeInv
<1>. QED  BY <1>1, <1>3, <1>6, Moves DEF ReadCR, Points

LEMMA WaitStep ==
    ASSUME IInv, NEW t \in Threads, Wait(t)
    PROVE  IInv'
<1>1. Inside(t) /\ at' = [at EXCEPT ![t] = "clear"] /\ at[t] = "wait" /\ running = None
  BY DEF Wait, Goes, Inside, Idle
<1>2. call[t] \in Calls!Work /\ Place(t) /\ call[t] # None
  BY <1>1, Working, WorkKinds
<1>3. TypeInv'
  BY <1>1 DEF Wait, regs, IInv, TypeInv, Points
<1>4. bits = {Asked(call[t])} /\ t \in done
  BY <1>1, <1>2 DEF Place, Signed
<1>5. Place(t)'
  BY <1>1, <1>2, <1>4 DEF Wait, regs, Place, SnbOf, Asked, IInv, TypeInv
<1>. QED  BY <1>1, <1>3, <1>5, Moves DEF Wait, Points

\* A store of what a call put into CR starts its own work, or nothing.
LEMMA StartsItsOwn ==
    ASSUME NEW w \in Calls!Work, NEW b, w.kind # "cell", Signed(w, b), Stored(b, SnbOf(w))
    PROVE  /\ running = None /\ bits' = b /\ snb' = SnbOf(w)
           /\ running' = IF "STRT" \in b THEN w ELSE None
<1>1. CASE w.kind = "all"
  <2>1. "MER" \in b  BY <1>1 DEF Signed, Asked
  <2>. QED  BY <1>1, <2>1, WorkKinds DEF Stored
<1>2. CASE w.kind = "sector"
  <2>1. "MER" \notin b  BY <1>2 DEF Signed, Asked
  <2>2. w.sector \in Sectors /\ w = Calls!Sector(w.sector)
    BY <1>2, WorkKinds DEF Calls!Sector
  <2>3. SnbOf(w) = Bits(w.sector) /\ Number(Bits(w.sector)) = w.sector
    BY <1>2, <2>2, SectorBits, FlashAssumption DEF SnbOf
  <2>. QED  BY <2>1, <2>2, <2>3 DEF Stored
<1>. QED  BY <1>1, <1>2, WorkKinds

LEMMA SnbType ==
    ASSUME NEW w \in Calls!Work
    PROVE  SnbOf(w) \subseteq Places4
BY WorkKinds, SectorBits, FlashAssumption DEF SnbOf

LEMMA StartEraseStep ==
    ASSUME IInv, NEW t \in Threads, StartErase(t)
    PROVE  IInv'
<1>. DEFINE w == call[t]
<1>1. Inside(t) /\ at' = [at EXCEPT ![t] = "read"] /\ at[t] = "start"
  BY DEF StartErase, Goes, Inside
<1>2. w \in Calls!Work /\ Place(t)
  BY <1>1, Working
<1>3. bits = {} /\ snb = {} /\ running = None /\ t \notin done
  BY <1>1, <1>2 DEF Place, Rest
<1>. HIDE DEF w
<1>4. w.kind # "cell" /\ Stored({Asked(w), "STRT"}, SnbOf(w))
  <2>1. CASE w.kind = "all"
    BY <1>3, <2>1 DEF StartErase, Asked, SnbOf, w
  <2>2. CASE w.kind = "sector"
    <3>1. Stored(bits \cup {"SER", "STRT"}, snb \cup Bits(w.sector))
      BY <2>2 DEF StartErase, w
    <3>2. bits \cup {"SER", "STRT"} = {Asked(w), "STRT"} /\ snb \cup Bits(w.sector) = SnbOf(w)
      BY <1>3, <2>2 DEF Asked, SnbOf
    <3>. QED  BY <2>2, <3>1, <3>2
  <2>. QED  BY <2>1, <2>2 DEF StartErase, w
<1>5. Signed(w, {Asked(w), "STRT"})
  BY DEF Signed
<1>6. running' = w /\ bits' = {Asked(w), "STRT"} /\ snb' = SnbOf(w)
  BY <1>2, <1>4, <1>5, StartsItsOwn
<1>7. TypeInv'
  BY <1>1, <1>2, <1>6, Asks, SnbType DEF StartErase, IInv, TypeInv, Points, FlashBits
<1>8. Place(t)'
  BY <1>1, <1>2, <1>3, <1>4, <1>5, <1>6 DEF StartErase, Place, IInv, TypeInv, Signed, SnbOf, Asked, w
<1>. QED  BY <1>1, <1>7, <1>8, Moves DEF StartErase, Points

LEMMA StoreSizeStep ==
    ASSUME IInv, NEW t \in Threads, StoreSize(t)
    PROVE  IInv'
<1>. DEFINE w == call[t]
<1>1. Inside(t) /\ at' = [at EXCEPT ![t] = "wait"] /\ at[t] = "size"
  BY DEF StoreSize, Goes, Inside
<1>2. w \in Calls!Work /\ Place(t)
  BY <1>1, Working
<1>3. w.kind # "cell" /\ Signed(w, read[t]) /\ snb = SnbOf(w) /\ ("STRT" \in read[t] \/ t \in done)
  BY <1>1, <1>2 DEF Place
<1>4. /\ bits' = read[t] /\ snb' = SnbOf(w)
      /\ running' = IF "STRT" \in read[t] THEN w ELSE None
  BY <1>2, <1>3, StartsItsOwn DEF StoreSize
<1>5. TypeInv'
  BY <1>1, <1>2, <1>4, SnbType DEF StoreSize, IInv, TypeInv, Points
<1>6. Place(t)'
  BY <1>1, <1>2, <1>3, <1>4 DEF StoreSize, Place, IInv, TypeInv, Signed, SnbOf, Asked
<1>. QED  BY <1>1, <1>5, <1>6, Moves DEF StoreSize, Points

LEMMA ProgramSteps ==
    ASSUME IInv, NEW t \in Threads, StartProgram(t) \/ StoreData(t)
    PROVE  IInv'
<1>. DEFINE w == call[t]
<1>1. CASE StartProgram(t)
  <2>1. Inside(t) /\ at' = [at EXCEPT ![t] = "data"] /\ at[t] = "start"
    BY <1>1 DEF StartProgram, Goes, Inside
  <2>2. w \in Calls!Work /\ Place(t)
    BY <2>1, Working
  <2>3. bits = {} /\ snb = {} /\ running = None /\ t \notin done
    BY <2>1, <2>2 DEF Place, Rest
  <2>4. bits' = {"PG"} /\ snb' = {} /\ running' = None
    BY <1>1, <2>3 DEF StartProgram, Stored
  <2>5. TypeInv'
    BY <1>1, <2>1, <2>4 DEF StartProgram, IInv, TypeInv, Points, FlashBits
  <2>6. Place(t)'
    BY <1>1, <2>1, <2>2, <2>3, <2>4 DEF StartProgram, Place, IInv, TypeInv
  <2>. QED  BY <1>1, <2>1, <2>5, <2>6, Moves DEF StartProgram, Points
<1>2. CASE StoreData(t)
  <2>1. Inside(t) /\ at' = [at EXCEPT ![t] = "wait"] /\ at[t] = "data"
    BY <1>2 DEF StoreData, Goes, Inside
  <2>2. w \in Calls!Work /\ Place(t)
    BY <2>1, Working
  <2>3. w.kind = "cell" /\ bits = {"PG"} /\ snb = {} /\ t \notin done
    BY <2>1, <2>2 DEF Place
  <2>4. running' = w /\ bits' = bits /\ snb' = snb
    BY <1>2, <2>3 DEF StoreData, regs
  <2>5. TypeInv'
    BY <1>2, <2>1, <2>2, <2>4 DEF StoreData, regs, IInv, TypeInv, Points
  <2>6. Place(t)'
    BY <1>2, <2>1, <2>2, <2>3, <2>4 DEF StoreData, Place, IInv, TypeInv, Signed, SnbOf, Asked
  <2>. QED  BY <1>2, <2>1, <2>5, <2>6, Moves DEF StoreData, Points
<1>. QED  BY <1>1, <1>2

LEMMA ClearSteps ==
    ASSUME IInv, NEW t \in Threads, Clear(t) \/ ClearSector(t)
    PROVE  IInv'
<1>. DEFINE w == call[t]
<1>1. CASE Clear(t)
  <2>. DEFINE p == IF w.kind = "sector" THEN "sector" ELSE "lock"
  <2>1. Inside(t) /\ at' = [at EXCEPT ![t] = p] /\ at[t] = "clear"
    BY <1>1 DEF Clear, Goes, Inside
  <2>2. w \in Calls!Work /\ Place(t)
    BY <2>1, Working
  <2>3. bits = {Asked(w)} /\ snb = SnbOf(w) /\ running = None /\ t \in done
    BY <2>1, <2>2 DEF Place
  <2>4. bits' = {} /\ snb' = snb /\ running' = None
    BY <1>1, <2>3 DEF Clear, Stored
  <2>5. TypeInv'
    BY <1>1, <2>1, <2>4 DEF Clear, IInv, TypeInv, Points
  <2>6. Place(t)'
    BY <1>1, <2>1, <2>2, <2>3, <2>4 DEF Clear, Place, IInv, TypeInv, Rest, SnbOf
  <2>. QED  BY <1>1, <2>1, <2>5, <2>6, Moves DEF Clear, Points
<1>2. CASE ClearSector(t)
  <2>1. Inside(t) /\ at' = [at EXCEPT ![t] = "lock"] /\ at[t] = "sector"
    BY <1>2 DEF ClearSector, Goes, Inside
  <2>2. w \in Calls!Work /\ Place(t)
    BY <2>1, Working
  <2>3. bits = {} /\ running = None /\ t \in done
    BY <2>1, <2>2 DEF Place
  <2>4. bits' = {} /\ snb' = {} /\ running' = None
    BY <1>2, <2>3 DEF ClearSector, Stored, SectorCleared
  <2>5. TypeInv'
    BY <1>2, <2>1, <2>4 DEF ClearSector, IInv, TypeInv, Points
  <2>6. Place(t)'
    BY <1>2, <2>1, <2>2, <2>3, <2>4 DEF ClearSector, Place, IInv, TypeInv, Rest
  <2>. QED  BY <1>2, <2>1, <2>5, <2>6, Moves DEF ClearSector, Points
<1>. QED  BY <1>1, <1>2

LEMMA EnterStep ==
    ASSUME IInv, NEW t \in Threads, NEW w \in Calls!Work, Enter(t, w)
    PROVE  IInv' /\ call[t] = None
<1>1. at' = [at EXCEPT ![t] = "unlock"] /\ call' = [call EXCEPT ![t] = w]
  BY DEF Enter, Goes
<1>2. \A u \in Threads : at[u] = "program" /\ call[u] = None
  BY DEF Enter, NobodyInside, IInv, Alone
<1>3. lockBit /\ Rest /\ done = {}
  BY <1>2 DEF IInv, RegistersAtRest, Rest, DoneInside, Inside, TypeInv
<1>4. TypeInv'
  BY <1>1 DEF Enter, regs, IInv, TypeInv, Points
<1>5. Alone'
  BY <1>1, <1>2, WorkKinds DEF Alone, IInv, TypeInv
<1>6. Place(t)'
  BY <1>1, <1>3 DEF Enter, regs, Place, Rest, IInv, TypeInv
<1>7. Placed' /\ DoneInside'
  BY <1>1, <1>2, <1>3, <1>6 DEF Enter, Placed, DoneInside, Inside, IInv, TypeInv
<1>8. RegistersAtRest'
  BY <1>1 DEF RegistersAtRest, IInv, TypeInv
<1>. QED  BY <1>2, <1>4, <1>5, <1>7, <1>8 DEF IInv

LEMMA LockStep ==
    ASSUME IInv, NEW t \in Threads, Lock(t)
    PROVE  IInv' /\ t \in done
<1>1. Inside(t) /\ at' = [at EXCEPT ![t] = "program"] /\ at[t] = "lock"
  BY DEF Lock, Goes, Inside
<1>2. Rest /\ t \in done
  BY <1>1, Working DEF Place
<1>3. \A u \in Threads : at'[u] = "program" /\ call'[u] = None
  BY <1>1 DEF Lock, IInv, TypeInv, Alone, Inside
<1>4. TypeInv'
  BY <1>1 DEF Lock, IInv, TypeInv, Points
<1>5. done' = {}
  BY <1>1 DEF Lock, IInv, TypeInv, Alone, Inside, DoneInside
<1>6. Alone' /\ Placed' /\ DoneInside'
  BY <1>3, <1>5 DEF Alone, Placed, DoneInside, Inside
<1>7. RegistersAtRest'
  BY <1>2 DEF Lock, RegistersAtRest, Rest
<1>. QED  BY <1>2, <1>4, <1>6, <1>7 DEF IInv

\* What the interface is doing is the work of the thread that is in a call.
LEMMA FinishStep ==
    ASSUME IInv, Finish
    PROVE  /\ IInv'
           /\ \E t \in Threads :
                 /\ call[t] = running /\ done' = done \cup {t}
                 /\ t \in done => content' = content
<1>1. PICK t \in Threads : Inside(t)
  BY DEF Finish, IInv, RegistersAtRest, Inside
<1>. DEFINE w == call[t]
<1>2. w \in Calls!Work /\ Place(t)
  BY <1>1, Working
<1>3. at[t] \in {"read", "size", "wait"} /\ running = w
  BY <1>1, <1>2 DEF Finish, Place, Rest, Inside, IInv, TypeInv, Points
<1>4. {u \in Threads : call[u] = running /\ at[u] # "program"} = {t}
  BY <1>1, <1>3 DEF IInv, Alone, Inside
<1>5. done' = done \cup {t} /\ content' = Calls!After(w, content)
  BY <1>3, <1>4 DEF Finish
<1>6. content' \in [Calls!Cells -> Calls!States] /\ Calls!After(w, content') = content'
  BY <1>2, <1>5, AfterType, AfterTwice DEF IInv, TypeInv
<1>7. bits' = bits \ {"STRT"} /\ running' = None
  BY DEF Finish
<1>8. TypeInv'
  BY <1>5, <1>6, <1>7 DEF Finish, IInv, TypeInv
<1>9. Place(t)'
  <2>1. Signed(w, bits')
    BY <1>2, <1>3, <1>7, Asks DEF Place, Signed
  <2>. QED  BY <1>2, <1>3, <1>5, <1>6, <1>7, <2>1 DEF Finish, Place, Signed, Asked, SnbOf
<1>10. Alone' /\ RegistersAtRest'
  BY <1>1 DEF Finish, IInv, Alone, RegistersAtRest, Inside
<1>11. Placed' /\ DoneInside'
  BY <1>1, <1>5, <1>9 DEF Finish, IInv, Alone, Placed, DoneInside, Inside
<1>12. t \in done => content' = content
  BY <1>1, <1>2, <1>5 DEF Place
<1>. QED  BY <1>3, <1>5, <1>8, <1>10, <1>11, <1>12 DEF IInv

LEMMA PowerLossStep ==
    ASSUME IInv, PowerLoss
    PROVE  IInv'
<1>1. content' \in [Calls!Cells -> Calls!States]
  BY DEF PowerLoss, IInv, TypeInv
<1>2. TypeInv'
  BY <1>1 DEF PowerLoss, IInv, TypeInv, Points
<1>3. Alone' /\ Placed' /\ DoneInside' /\ RegistersAtRest'
  BY DEF PowerLoss, Alone, Placed, DoneInside, RegistersAtRest, Inside
<1>. QED  BY <1>2, <1>3 DEF IInv

LEMMA Unmoved ==
    ASSUME IInv, UNCHANGED vars
    PROVE  IInv'
BY DEF IInv, vars, regs, TypeInv, Alone, Placed, Place, Rest, Signed, DoneInside, Inside,
       RegistersAtRest

LEMMA Invariance == IInv /\ [Next]_vars => IInv'
<1>. SUFFICES ASSUME IInv, [Next]_vars PROVE IInv'  OBVIOUS
<1>1. ASSUME NEW t \in Threads, Step(t) PROVE IInv'
  BY <1>1, UnlockStep, CheckStep, StartEraseStep, ReadStep, StoreSizeStep, ProgramSteps,
     WaitStep, ClearSteps, LockStep DEF Step
<1>2. ASSUME NEW t \in Threads, NEW w \in Calls!Work, Enter(t, w) PROVE IInv'
  BY <1>2, EnterStep
<1>. QED  BY <1>1, <1>2, FinishStep, PowerLossStep, Unmoved DEF Next

-----------------------------------------------------------------------------
(* The theorems.                                                           *)

\* Between two calls of the driver CR is locked and clear, and the interface
\* is idle, whatever was erased or programmed before, and after any loss of
\* power.
THEOREM AtRest == Spec => []RegistersAtRest
<1>1. IInv => RegistersAtRest  BY DEF IInv
<1>. QED  BY Initially, Invariance, <1>1, PTL DEF Spec

\* What a step is for a program that knows calls only.
LEMMA StepRefines ==
    ASSUME IInv, [Next]_vars
    PROVE  [Calls!Next]_Calls!vars
<1>1. ASSUME NEW t \in Threads, Step(t) PROVE [Calls!Next]_Calls!vars
  <2>1. CASE Lock(t)
    <3>1. Calls!Return(t)
      BY <2>1, LockStep DEF Lock, Calls!Return
    <3>. QED  BY <3>1 DEF Calls!Next
  <2>2. CASE Check(t)
    <3>1. call' = call /\ content' = content /\ done' = done
      BY <2>2, CheckStep DEF Check
    <3>. QED  BY <3>1 DEF Calls!vars
  <2>3. CASE ~Lock(t) /\ ~Check(t)
    <3>1. call' = call /\ content' = content /\ done' = done
      BY <1>1, <2>3 DEF Step, Unlock, StartErase, ReadCR, StoreSize, StartProgram, StoreData,
                        Wait, Clear, ClearSector
    <3>. QED  BY <3>1 DEF Calls!vars
  <2>. QED  BY <2>1, <2>2, <2>3
<1>2. ASSUME NEW t \in Threads, NEW w \in Calls!Work, Enter(t, w) PROVE [Calls!Next]_Calls!vars
  <2>1. Calls!Call(t, w)
    BY <1>2, EnterStep DEF Enter, Calls!Call
  <2>. QED  BY <2>1 DEF Calls!Next
<1>3. CASE Finish
  <2>1. PICK t \in Threads : /\ call[t] = running /\ done' = done \cup {t}
                             /\ t \in done => content' = content
    BY <1>3, FinishStep
  <2>2. CASE t \in done
    BY <1>3, <2>1, <2>2 DEF Finish, Calls!vars
  <2>3. CASE t \notin done
    <3>1. Calls!Do(t)
      BY <1>3, <2>1, <2>3 DEF Finish, Calls!Do
    <3>. QED  BY <3>1 DEF Calls!Next
  <2>. QED  BY <2>2, <2>3
<1>4. CASE PowerLoss
  <2>1. PICK torn \in [Calls!Cells -> Calls!States] :
            content' = [x \in Calls!Cells |->
                          IF running # None /\ x \in Calls!Target(running) THEN torn[x]
                          ELSE content[x]]
    BY <1>4 DEF PowerLoss
  <2>2. call' = [t \in Threads |-> None] /\ done' = {}
    BY <1>4 DEF PowerLoss
  <2>3. CASE running = None
    <3>1. PICK t \in Threads : TRUE
      BY FlashAssumption
    <3>2. content \in [Calls!Cells -> Calls!States]
      BY DEF IInv, TypeInv
    <3>3. content' = [x \in Calls!Cells |-> IF call[t] # None /\ x \in Calls!Target(call[t])
                                           THEN content[x] ELSE content[x]]
      BY <2>1, <2>3
    <3>4. Calls!PowerLoss
      BY <2>2, <3>2, <3>3, Zenon DEF Calls!PowerLoss
    <3>. QED  BY <3>4 DEF Calls!Next
  <2>4. CASE running # None
    <3>1. PICK t \in Threads : Inside(t)
      BY <2>4 DEF IInv, RegistersAtRest, Inside
    <3>2. call[t] = running
      BY <2>4, <3>1, Working DEF Place, Rest, Inside, IInv, TypeInv, Points
    <3>3. content' = [x \in Calls!Cells |-> IF call[t] # None /\ x \in Calls!Target(call[t])
                                           THEN torn[x] ELSE content[x]]
      BY <2>1, <3>2
    <3>4. Calls!PowerLoss
      BY <2>1, <2>2, <3>3, Zenon DEF Calls!PowerLoss
    <3>. QED  BY <3>4 DEF Calls!Next
  <2>. QED  BY <2>3, <2>4
<1>5. CASE UNCHANGED vars
  BY <1>5 DEF vars, Calls!vars
<1>. QED  BY <1>1, <1>2, <1>3, <1>4, <1>5 DEF Next

\* A call of the driver does its work, whole and on nothing else, before it
\* returns, and none is refused: the driver and the flash interface together
\* implement FlashCalls.
THEOREM Implements == Spec => ImplementsCalls
<1>1. Init => Calls!Init
  BY DEF Init, Calls!Init
<1>. QED  BY Initially, Invariance, StepRefines, <1>1, PTL DEF Spec, ImplementsCalls, Calls!Spec
=============================================================================
