--------------------------- MODULE FileLoopProofs ---------------------------
(***************************************************************************)
(* Proofs about FileLoop, for any processes, any size of knbuf and any     *)
(* chunk and message lengths: type correctness with the bound on the       *)
(* position, and exactly what cat prints of chrdev_demo and what echo      *)
(* leaves in it.                                                           *)
(***************************************************************************)
EXTENDS FileLoop, Integers, TLAPS

Bytes == {Stale} \cup (Users \X Nat)

Programs == [prog : {"cat", "echo"}, dev : Devices, len : Lengths, left : Nat, pos : Nat,
             at : Nat, got : Seq(Bytes), alone : BOOLEAN]

(* TypeOK is not inductive: a read that is under way began before the end  *)
(* of the file, and a write has something to write.                        *)
Within(u) ==
  Prog(u) # "none" =>
    /\ run[u].left <= run[u].len
    /\ Prog(u) = "cat" => run[u].at <= 1 + ReadCopies(u) /\ run[u].pos < Size(u) + ReadReturns(u)
    /\ InRead(u) => run[u].pos < Size(u)
    /\ Prog(u) = "echo" => run[u].at <= 1 + WriteCopies(u) /\ run[u].pos = 0

Typed == /\ knbuf \in [1 .. KNBUFLEN -> Bytes]
         /\ run \in [Users -> {None} \cup Programs]

TypeInv == Typed /\ \A u \in Users : Within(u)

(* A program is alone only as long as nobody else runs an echo.            *)
AloneInv ==
  \A u \in Users : Prog(u) # "none" /\ run[u].alone => \A w \in Users \ {u} : Prog(w) # "echo"

(* A cat that is alone has printed whole chunks, and of the chunk it reads *)
(* what it has copied so far.                                              *)
Cell(u, j) == ((j - 1) % run[u].len) + 1
CellByte(u, j) == IF Cell(u, j) <= KNBUFLEN THEN knbuf[Cell(u, j)] ELSE Stale

Copied(u) == IF run[u].at = 0 THEN 0 ELSE run[u].at - 1

Prints(u) ==
  Chrdev(u, "cat") =>
    /\ \E q \in Nat : run[u].pos = run[u].len * q
    /\ Len(run[u].got) = run[u].pos + Copied(u)
    /\ \A j \in 1 .. Len(run[u].got) : run[u].got[j] = CellByte(u, j)

PrintInv == \A u \in Users : Prints(u)

(* An echo that is alone has filled knbuf whole times, unless it is at its *)
(* end, and each cell holds the last byte of its residue class so far.     *)
Stored(u) == run[u].len - run[u].left + Copied(u)

Class(j) == j % KNBUFLEN

HasLast(buf, u, i, m) ==
  \E j \in 1 .. m : buf[i] = <<u, j>> /\ Class(j) = Class(i) /\ m < j + KNBUFLEN

Stores(u) ==
  Chrdev(u, "echo") =>
    /\ run[u].left # 0 => \E q \in Nat : run[u].len - run[u].left = KNBUFLEN * q
    /\ \A i \in 1 .. KNBUFLEN : i <= Stored(u) => HasLast(knbuf, u, i, Stored(u))

StoreInv == \A u \in Users : Stores(u)

-----------------------------------------------------------------------------
USE FileLoopAssumption

(* How much a call copies and returns.                                     *)
LEMMA CallShape ==
  ASSUME NEW u, run[u] \in Programs
  PROVE  /\ Size(u) \in Nat \ {0} /\ ReadReturns(u) \in Nat \ {0}
         /\ ReadCopies(u) \in Nat /\ ReadCopies(u) <= ReadReturns(u)
         /\ WriteCopies(u) \in Nat /\ WriteCopies(u) <= run[u].left
         /\ run[u].dev = "chrdev" =>
              /\ Size(u) = KNBUFLEN /\ ReadReturns(u) = run[u].len
              /\ ReadCopies(u) = Smaller(run[u].len, KNBUFLEN)
              /\ WriteCopies(u) = Smaller(run[u].left, KNBUFLEN)
<1>1. /\ run[u].dev \in {"chrdev", "gpio", "keyirq"} /\ run[u].left \in Nat
      /\ run[u].len \in Nat \ {0}
  BY DEF Programs
<1>2. CASE run[u].dev = "chrdev"
  BY <1>1, <1>2 DEF Size, ReadReturns, ReadCopies, WriteCopies, Smaller
<1>3. CASE run[u].dev \in {"gpio", "keyirq"}
  BY <1>1, <1>3 DEF Size, ReadReturns, ReadCopies, WriteCopies
<1> QED
  BY <1>1, <1>2, <1>3

(* The same program goes on.                                               *)
GoesOn(u) == /\ run'[u] \in Programs
             /\ run'[u].prog = run[u].prog /\ run'[u].dev = run[u].dev
             /\ run'[u].len = run[u].len /\ run'[u].alone = run[u].alone

Padding(u) == [i \in 1 .. ReadReturns(u) - ReadCopies(u) |-> Stale]

(* What becomes of the record a step changes.                              *)
Becomes(u, a, l, p, g) ==
  run'[u] = [run[u] EXCEPT !.at = a, !.left = l, !.pos = p, !.got = g]

LEMMA Advanced ==
  ASSUME NEW u, run[u] \in Programs, NEW a \in Nat, NEW l \in Nat, NEW p \in Nat,
         NEW g \in Seq(Bytes), Becomes(u, a, l, p, g)
  PROVE  /\ GoesOn(u) /\ run'[u].at = a /\ run'[u].left = l
         /\ run'[u].pos = p /\ run'[u].got = g
<1> DEFINE T == Seq(Bytes)
<1>1. /\ g \in T
      /\ run[u] \in [prog : {"cat", "echo"}, dev : Devices, len : Lengths, left : Nat,
                     pos : Nat, at : Nat, got : T, alone : BOOLEAN]
  BY DEF Programs
<1> HIDE DEF T
<1>2. run'[u] \in [prog : {"cat", "echo"}, dev : Devices, len : Lengths, left : Nat,
                  pos : Nat, at : Nat, got : T, alone : BOOLEAN]
  BY <1>1 DEF Becomes
<1>3. run'[u] \in Programs
  BY <1>2 DEF Programs, T
<1> QED
  BY <1>1, <1>3 DEF GoesOn, Becomes

(* The fields a step does not name keep their values.                      *)
LEMMA Unchanged ==
  ASSUME NEW u, run[u] \in Programs, NEW a, NEW l, NEW p, NEW g,
         \/ /\ run'[u] = [run[u] EXCEPT !.at = a]
            /\ l = run[u].left /\ p = run[u].pos /\ g = run[u].got
         \/ /\ run'[u] = [run[u] EXCEPT !.at = a, !.left = l]
            /\ p = run[u].pos /\ g = run[u].got
         \/ /\ run'[u] = [run[u] EXCEPT !.at = a, !.got = g]
            /\ l = run[u].left /\ p = run[u].pos
         \/ /\ run'[u] = [run[u] EXCEPT !.at = a, !.pos = p, !.got = g]
            /\ l = run[u].left
  PROVE  Becomes(u, a, l, p, g)
<1> DEFINE T == Seq(Bytes)
<1>1. run[u] \in [prog : {"cat", "echo"}, dev : Devices, len : Lengths, left : Nat,
                 pos : Nat, at : Nat, got : T, alone : BOOLEAN]
  BY DEF Programs
<1> HIDE DEF T
<1>2. CASE /\ run'[u] = [run[u] EXCEPT !.at = a]
           /\ l = run[u].left /\ p = run[u].pos /\ g = run[u].got
  BY <1>1, <1>2 DEF Becomes
<1>3. CASE /\ run'[u] = [run[u] EXCEPT !.at = a, !.left = l]
           /\ p = run[u].pos /\ g = run[u].got
  BY <1>1, <1>3 DEF Becomes
<1>4. CASE /\ run'[u] = [run[u] EXCEPT !.at = a, !.got = g]
           /\ l = run[u].left /\ p = run[u].pos
  BY <1>1, <1>4 DEF Becomes
<1>5. CASE /\ run'[u] = [run[u] EXCEPT !.at = a, !.pos = p, !.got = g]
           /\ l = run[u].left
  BY <1>1, <1>5 DEF Becomes
<1> QED
  BY <1>2, <1>3, <1>4, <1>5

(* A step of the program u, in terms of its own record.                    *)
ReadStep(u) ==
  /\ Prog(u) = "cat" /\ GoesOn(u) /\ run'[u].left = run[u].left /\ UNCHANGED knbuf
  /\ \/ /\ run[u].at = 0 /\ ~AtEnd(u) /\ run'[u].at = 1
        /\ run'[u].pos = run[u].pos /\ run'[u].got = run[u].got
     \/ /\ run[u].at \in 1 .. ReadCopies(u) /\ run'[u].at = run[u].at + 1
        /\ run'[u].pos = run[u].pos
        /\ run'[u].got = Append(run[u].got, IF run[u].dev = "chrdev"
                                              THEN knbuf[run[u].at] ELSE Stale)
     \/ /\ run[u].at > 0 /\ run[u].at = ReadCopies(u) + 1 /\ run'[u].at = 0
        /\ run'[u].pos = run[u].pos + ReadReturns(u)
        /\ run'[u].got = run[u].got \o Padding(u)

WriteStep(u) ==
  /\ Prog(u) = "echo" /\ GoesOn(u) /\ run'[u].pos = run[u].pos
  /\ \/ /\ run[u].at = 0 /\ run[u].left > 0 /\ run'[u].at = 1
        /\ run'[u].left = run[u].left /\ UNCHANGED knbuf
     \/ /\ run[u].at \in 1 .. WriteCopies(u) /\ run'[u].at = run[u].at + 1
        /\ run'[u].left = run[u].left
        /\ knbuf' = IF run[u].dev = "chrdev"
                      THEN [knbuf EXCEPT ![run[u].at] =
                              <<u, run[u].len - run[u].left + run[u].at>>]
                      ELSE knbuf
     \/ /\ run[u].at > 0 /\ run[u].at = WriteCopies(u) + 1 /\ run'[u].at = 0
        /\ run'[u].left = run[u].left - WriteCopies(u) /\ UNCHANGED knbuf

LEMMA ProgramSteps ==
  ASSUME TypeInv, NEW u \in Users, Step(u)
  PROVE  /\ run[u] \in Programs /\ \A w \in Users \ {u} : run'[w] = run[w]
         /\ \/ run'[u] = None /\ UNCHANGED knbuf
            \/ ReadStep(u)
            \/ WriteStep(u)
<1> DEFINE r == run[u]
<1>1. Prog(u) \in {"cat", "echo"}
  BY DEF Step, Read, CopyOut, ReadReturn, CatStops, Write, CopyIn, WriteReturn,
         WriteInvalid, EchoStops, Fault, InRead, InWrite
<1>2. /\ r \in Programs /\ run \in [Users -> {None} \cup Programs]
      /\ knbuf \in [1 .. KNBUFLEN -> Bytes]
  BY <1>1 DEF TypeInv, Typed, Prog, None
<1>3. /\ ReadReturns(u) \in Nat /\ ReadCopies(u) \in Nat /\ WriteCopies(u) \in Nat
      /\ WriteCopies(u) <= r.left /\ ReadCopies(u) <= ReadReturns(u)
      /\ r.dev = "chrdev" => ReadCopies(u) <= KNBUFLEN
      /\ r.at \in Nat /\ r.left \in Nat /\ r.pos \in Nat /\ r.got \in Seq(Bytes)
  BY <1>2, CallShape DEF Smaller, Programs
<1>4. CASE Exit(u)
  BY <1>2, <1>4 DEF Exit
<1>5. CASE Read(u)
  <2>1. run'[u] = [r EXCEPT !.at = 1] /\ \A w \in Users \ {u} : run'[w] = run[w]
    BY <1>2, <1>5 DEF Read
  <2> QED
    BY <1>2, <1>5, <2>1 DEF Read, ReadStep, GoesOn, Programs
<1>6. CASE CopyOut(u)
  <2> DEFINE b == IF r.dev = "chrdev" THEN knbuf[r.at] ELSE Stale
  <2>1. /\ run'[u] = [r EXCEPT !.at = r.at + 1, !.got = Append(r.got, b)]
        /\ \A w \in Users \ {u} : run'[w] = run[w]
    BY <1>2, <1>6 DEF CopyOut
  <2>2. r.at \in 1 .. ReadCopies(u) /\ Prog(u) = "cat" /\ UNCHANGED knbuf
    BY <1>2, <1>3, <1>6 DEF CopyOut, InRead, Programs
  <2>3. b \in Bytes
    BY <1>2, <1>3, <2>2 DEF Bytes
  <2>4. Append(r.got, b) \in Seq(Bytes) /\ r.at + 1 \in Nat
    BY <1>3, <2>3
  <2> HIDE DEF b
  <2>5. Becomes(u, r.at + 1, r.left, r.pos, Append(r.got, b))
    BY <1>2, <2>1, Unchanged
  <2>6. /\ GoesOn(u) /\ run'[u].left = r.left /\ run'[u].at = r.at + 1
        /\ run'[u].pos = r.pos /\ run'[u].got = Append(r.got, b)
    <3> DEFINE g == Append(r.got, b)
    <3>1. g \in Seq(Bytes) /\ Becomes(u, r.at + 1, r.left, r.pos, g)
      BY <2>4, <2>5
    <3> HIDE DEF g
    <3>2. /\ GoesOn(u) /\ run'[u].left = r.left /\ run'[u].at = r.at + 1
          /\ run'[u].pos = r.pos /\ run'[u].got = g
      BY <1>2, <1>3, <2>4, <3>1, Advanced
    <3> QED
      BY <3>2 DEF g
  <2> QED
    BY <1>2, <2>1, <2>2, <2>6 DEF ReadStep, b
<1>7. CASE ReadReturn(u)
  <2>1. /\ run'[u] = [r EXCEPT !.at = 0, !.pos = r.pos + ReadReturns(u),
                              !.got = r.got \o Padding(u)]
        /\ \A w \in Users \ {u} : run'[w] = run[w]
    BY <1>2, <1>7 DEF ReadReturn, Padding
  <2>2. r.at > 0 /\ r.at = ReadCopies(u) + 1 /\ Prog(u) = "cat" /\ UNCHANGED knbuf
    BY <1>2, <1>7 DEF ReadReturn, InRead
  <2>3. r.got \o Padding(u) \in Seq(Bytes) /\ r.pos + ReadReturns(u) \in Nat
    <3>1. Padding(u) \in Seq(Bytes)
      BY <1>3 DEF Padding, Bytes
    <3> QED
      BY <1>3, <3>1
  <2>4. Becomes(u, 0, r.left, r.pos + ReadReturns(u), r.got \o Padding(u))
    BY <1>2, <2>1, Unchanged
  <2>5. /\ GoesOn(u) /\ run'[u].left = r.left /\ run'[u].at = 0
        /\ run'[u].pos = r.pos + ReadReturns(u) /\ run'[u].got = r.got \o Padding(u)
    <3> DEFINE g == r.got \o Padding(u)
    <3>1. g \in Seq(Bytes) /\ Becomes(u, 0, r.left, r.pos + ReadReturns(u), g)
      BY <2>3, <2>4
    <3> HIDE DEF g
    <3>2. /\ GoesOn(u) /\ run'[u].left = r.left /\ run'[u].at = 0
          /\ run'[u].pos = r.pos + ReadReturns(u) /\ run'[u].got = g
      BY <1>2, <1>3, <2>3, <3>1, Advanced
    <3> QED
      BY <3>2 DEF g
  <2> QED
    BY <1>2, <2>1, <2>2, <2>5 DEF ReadStep
<1>8. CASE Write(u)
  <2>1. run'[u] = [r EXCEPT !.at = 1] /\ \A w \in Users \ {u} : run'[w] = run[w]
    BY <1>2, <1>8 DEF Write
  <2> QED
    BY <1>2, <1>8, <2>1 DEF Write, WriteStep, GoesOn, Programs
<1>9. CASE CopyIn(u)
  <2>1. /\ run'[u] = [r EXCEPT !.at = r.at + 1]
        /\ \A w \in Users \ {u} : run'[w] = run[w]
    BY <1>2, <1>9 DEF CopyIn
  <2>2. r.at \in 1 .. WriteCopies(u) /\ Prog(u) = "echo" /\ r.at + 1 \in Nat
    BY <1>3, <1>9 DEF CopyIn, InWrite
  <2>3. Becomes(u, r.at + 1, r.left, r.pos, r.got)
    BY <1>2, <2>1, Unchanged
  <2>4. /\ GoesOn(u) /\ run'[u].left = r.left /\ run'[u].at = r.at + 1
        /\ run'[u].pos = r.pos
    BY <1>2, <1>3, <2>2, <2>3, Advanced
  <2>5. knbuf' = IF r.dev = "chrdev"
                   THEN [knbuf EXCEPT ![r.at] = <<u, r.len - r.left + r.at>>] ELSE knbuf
    BY <1>9 DEF CopyIn
  <2> QED
    BY <1>2, <2>1, <2>2, <2>4, <2>5 DEF WriteStep
<1>10. CASE WriteReturn(u)
  <2>1. /\ run'[u] = [r EXCEPT !.at = 0, !.left = r.left - WriteCopies(u)]
        /\ \A w \in Users \ {u} : run'[w] = run[w]
    BY <1>2, <1>10 DEF WriteReturn
  <2>2. r.left - WriteCopies(u) \in Nat
    BY <1>3
  <2>3. Becomes(u, 0, r.left - WriteCopies(u), r.pos, r.got)
    BY <1>2, <2>1, Unchanged
  <2>4. /\ GoesOn(u) /\ run'[u].left = r.left - WriteCopies(u) /\ run'[u].at = 0
        /\ run'[u].pos = r.pos
    BY <1>2, <1>3, <2>2, <2>3, Advanced
  <2> QED
    BY <1>2, <1>10, <2>1, <2>4 DEF WriteStep, WriteReturn, InWrite
<1> QED
  BY <1>4, <1>5, <1>6, <1>7, <1>8, <1>9, <1>10
     DEF Step, CatStops, EchoStops, WriteInvalid, Fault

-----------------------------------------------------------------------------
LEMMA CallUnmoved ==
  ASSUME NEW u, run[u] \in Programs, GoesOn(u)
  PROVE  /\ Size(u)' = Size(u) /\ ReadReturns(u)' = ReadReturns(u)
         /\ ReadCopies(u)' = ReadCopies(u)
         /\ run'[u].left = run[u].left => WriteCopies(u)' = WriteCopies(u)
         /\ WriteCopies(u)' \in Nat
<1>1. /\ Size(u)' = Size(u) /\ ReadReturns(u)' = ReadReturns(u)
      /\ ReadCopies(u)' = ReadCopies(u)
      /\ run'[u].left = run[u].left => WriteCopies(u)' = WriteCopies(u)
  BY DEF GoesOn, Size, ReadReturns, ReadCopies, WriteCopies, Smaller
<1>2. /\ run'[u].dev \in {"chrdev", "gpio", "keyirq"} /\ run'[u].left \in Nat
  BY DEF GoesOn, Programs
<1>3. WriteCopies(u)' \in Nat
  BY <1>2 DEF WriteCopies, Smaller
<1> QED
  BY <1>1, <1>3

(* A program that does not move stays where it was.                        *)
LEMMA WithinUnmoved ==
  ASSUME NEW u, Within(u),
         \/ run'[u] = run[u]
         \/ run[u] \in Programs /\ run'[u] = [run[u] EXCEPT !.alone = FALSE]
  PROVE  Within(u)'
<1>1. /\ run'[u].prog = run[u].prog /\ run'[u].dev = run[u].dev
      /\ run'[u].len = run[u].len /\ run'[u].left = run[u].left
      /\ run'[u].pos = run[u].pos /\ run'[u].at = run[u].at
  BY DEF Programs
<1>2. /\ Prog(u)' = Prog(u) /\ Size(u)' = Size(u) /\ ReadReturns(u)' = ReadReturns(u)
      /\ ReadCopies(u)' = ReadCopies(u) /\ WriteCopies(u)' = WriteCopies(u)
  BY <1>1 DEF Prog, Size, ReadReturns, ReadCopies, WriteCopies, Smaller
<1> QED
  BY <1>1, <1>2 DEF Within, InRead

LEMMA InitTypeInv == Init => TypeInv
BY DEF Init, TypeInv, Typed, Within, Prog, InRead, None, Bytes

(* A step of a program.                                                    *)
LEMMA StepTypeInv ==
  ASSUME TypeInv, NEW u \in Users, Step(u)
  PROVE  TypeInv'
<1>1. /\ run[u] \in Programs /\ Within(u) /\ Typed
      /\ \A w \in Users \ {u} : run'[w] = run[w] /\ Within(w)
  BY ProgramSteps DEF TypeInv
<1>2. /\ run[u].at \in Nat /\ run[u].left \in Nat /\ run[u].pos \in Nat
      /\ run[u].len \in Nat \ {0}
  BY <1>1 DEF Programs
<1>3. run' \in [Users -> {None} \cup Programs]
  <2>1. run'[u] \in {None} \cup Programs
    BY ProgramSteps DEF ReadStep, WriteStep, GoesOn
  <2>2. DOMAIN run' = Users /\ run' = [w \in Users |-> run'[w]]
    BY <1>1 DEF Typed, Step, Read, CopyOut, ReadReturn, CatStops, Write, CopyIn, WriteReturn,
                WriteInvalid, EchoStops, Fault, Exit
  <2> QED
    BY <1>1, <2>1, <2>2 DEF Typed
<1>4. \A w \in Users \ {u} : Within(w)'
  BY <1>1, WithinUnmoved
<1>5. CASE run'[u] = None /\ UNCHANGED knbuf
  <2>1. Within(u)'
    BY <1>5 DEF Within, Prog, None
  <2> QED
    BY <1>1, <1>3, <1>4, <1>5, <2>1 DEF TypeInv, Typed
<1>6. CASE ReadStep(u)
  <2>1. /\ GoesOn(u) /\ Prog(u) = "cat" /\ UNCHANGED knbuf /\ run'[u].left = run[u].left
        /\ Prog(u)' = "cat" /\ run'[u].len = run[u].len
    BY <1>6 DEF ReadStep, GoesOn, Prog
  <2>2. /\ run[u].left <= run[u].len /\ run[u].pos < Size(u) + ReadReturns(u)
        /\ run[u].at > 0 => run[u].pos < Size(u)
    BY <1>1, <2>1 DEF Within, InRead
  <2>3. /\ run'[u].at <= 1 + ReadCopies(u) /\ run'[u].pos < Size(u) + ReadReturns(u)
        /\ run'[u].at > 0 => run'[u].pos < Size(u)
    BY <1>1, <1>2, <1>6, <2>2, CallShape DEF ReadStep, AtEnd
  <2>4. Within(u)'
    BY <1>1, <2>1, <2>2, <2>3, CallUnmoved DEF Within, InRead
  <2> QED
    BY <1>1, <1>3, <1>4, <2>1, <2>4 DEF TypeInv, Typed
<1>7. CASE WriteStep(u)
  <2>1. /\ GoesOn(u) /\ Prog(u) = "echo" /\ run'[u].pos = run[u].pos
        /\ Prog(u)' = "echo" /\ run'[u].len = run[u].len
    BY <1>7 DEF WriteStep, GoesOn, Prog
  <2>2. run[u].left <= run[u].len /\ run[u].pos = 0
    BY <1>1, <2>1 DEF Within
  <2>3. run'[u].left <= run[u].len
    BY <1>1, <1>2, <1>7, <2>2, CallShape DEF WriteStep
  <2>4. run'[u].at <= 1 + WriteCopies(u)'
    BY <1>1, <1>2, <1>7, <2>1, CallShape, CallUnmoved DEF WriteStep
  <2>5. Within(u)'
    BY <2>1, <2>2, <2>3, <2>4 DEF Within, InRead
  <2>6. knbuf' \in [1 .. KNBUFLEN -> Bytes]
    <3>1. /\ knbuf \in [1 .. KNBUFLEN -> Bytes]
          /\ <<u, run[u].len - run[u].left + run[u].at>> \in Bytes
      BY <1>1, <1>2, <2>2 DEF Typed, Bytes
    <3>2. \/ knbuf' = knbuf
          \/ knbuf' = [knbuf EXCEPT ![run[u].at] = <<u, run[u].len - run[u].left + run[u].at>>]
      BY <1>7 DEF WriteStep
    <3> QED
      BY <3>1, <3>2
  <2> QED
    BY <1>3, <1>4, <2>5, <2>6 DEF TypeInv, Typed
<1> QED
  BY <1>5, <1>6, <1>7, ProgramSteps

(* A program starts; what changes for the others is whether they are alone.*)
LEMMA OpenOthers ==
  ASSUME TypeInv, NEW u \in Users, NEW prog, NEW dev, NEW len, Open(u, prog, dev, len),
         NEW w \in Users, w # u
  PROVE  /\ Prog(w)' = Prog(w)
         /\ \/ run'[w] = run[w] /\ (prog = "echo" => Prog(w) = "none")
            \/ /\ run[w] \in Programs /\ run'[w] \in Programs
               /\ run'[w] = [run[w] EXCEPT !.alone = FALSE]
<1>1. run'[w] = IF prog = "echo" /\ Prog(w) # "none"
                  THEN [run[w] EXCEPT !.alone = FALSE] ELSE run[w]
  BY DEF Open
<1>2. CASE run'[w] = run[w] /\ (prog = "echo" => Prog(w) = "none")
  BY <1>2 DEF Prog
<1>3. CASE prog = "echo" /\ Prog(w) # "none"
  <2>1. run[w] \in Programs /\ run'[w] = [run[w] EXCEPT !.alone = FALSE]
    BY <1>1, <1>3 DEF TypeInv, Typed, Prog, None
  <2> DEFINE T == Seq(Bytes)
  <2>2. run[w] \in [prog : {"cat", "echo"}, dev : Devices, len : Lengths, left : Nat,
                   pos : Nat, at : Nat, got : T, alone : BOOLEAN]
    BY <2>1 DEF Programs
  <2> HIDE DEF T
  <2>3. /\ run'[w].prog = run[w].prog
        /\ run'[w] \in [prog : {"cat", "echo"}, dev : Devices, len : Lengths, left : Nat,
                        pos : Nat, at : Nat, got : T, alone : BOOLEAN]
    BY <2>1, <2>2
  <2> QED
    BY <2>1, <2>3 DEF Programs, T, Prog
<1> QED
  BY <1>1, <1>2, <1>3

LEMMA OpenSteps ==
  ASSUME NEW u \in Users, NEW prog \in {"cat", "echo"}, NEW dev \in Devices,
         NEW len \in Lengths, Open(u, prog, dev, len)
  PROVE  /\ Prog(u) = "none" /\ UNCHANGED knbuf /\ DOMAIN run' = Users
         /\ run'[u] \in Programs /\ (prog = "cat" => dev # "keyirq")
         /\ run'[u].prog = prog /\ run'[u].dev = dev /\ run'[u].len = len
         /\ run'[u].left = len /\ run'[u].pos = 0 /\ run'[u].at = 0 /\ run'[u].got = <<>>
         /\ run'[u].alone => \A w \in Users : Prog(w) # "echo"
<1> DEFINE first == Launch(prog, dev, len, \A w \in Users : Prog(w) # "echo")
<1>1. /\ Prog(u) = "none" /\ UNCHANGED knbuf /\ (prog = "cat" => dev # "keyirq")
      /\ run'[u] = first /\ DOMAIN run' = Users
  BY DEF Open
<1>2. first \in Programs
  <2>1. <<>> \in Seq(Bytes) /\ len \in Nat
    OBVIOUS
  <2> QED
    BY <2>1 DEF Launch, Programs
<1>3. /\ first.prog = prog /\ first.dev = dev /\ first.len = len /\ first.left = len
      /\ first.pos = 0 /\ first.at = 0 /\ first.got = <<>>
      /\ first.alone => \A w \in Users : Prog(w) # "echo"
  BY DEF Launch
<1> HIDE DEF first
<1> QED
  BY <1>1, <1>2, <1>3

LEMMA OpenTypeInv ==
  ASSUME TypeInv, NEW u \in Users, NEW prog \in {"cat", "echo"}, NEW dev \in Devices,
         NEW len \in Lengths, Open(u, prog, dev, len)
  PROVE  TypeInv'
<1>1. ASSUME NEW w \in Users \ {u} PROVE Within(w)'
  <2>1. \/ run'[w] = run[w]
        \/ run[w] \in Programs /\ run'[w] = [run[w] EXCEPT !.alone = FALSE]
    BY OpenOthers
  <2> QED
    BY <2>1, WithinUnmoved DEF TypeInv
<1>2. Within(u)'
  <2>1. /\ run'[u].prog = prog /\ run'[u].len = len /\ run'[u].left = len
        /\ run'[u].pos = 0 /\ run'[u].at = 0 /\ run'[u].dev = dev
    BY OpenSteps
  <2>2. /\ Size(u)' \in Nat \ {0} /\ ReadReturns(u)' \in Nat \ {0}
        /\ ReadCopies(u)' \in Nat /\ WriteCopies(u)' \in Nat
    <3>1. dev \in {"chrdev", "gpio", "keyirq"} /\ len \in Nat \ {0}
      OBVIOUS
    <3> QED
      BY <2>1, <3>1 DEF Size, ReadReturns, ReadCopies, WriteCopies, Smaller
  <2> QED
    BY <2>1, <2>2 DEF Within, InRead, Prog
<1>3. run' \in [Users -> {None} \cup Programs] /\ knbuf' = knbuf
  <2>1. ASSUME NEW w \in Users PROVE run'[w] \in {None} \cup Programs
    <3>1. CASE w = u
      BY <3>1, OpenSteps
    <3>2. CASE w # u
      <4>1. run'[w] = run[w] \/ run'[w] \in Programs
        BY <3>2, OpenOthers
      <4> QED
        BY <4>1 DEF TypeInv, Typed
    <3> QED
      BY <3>1, <3>2
  <2>2. run' = [w \in Users |-> run'[w]]
    BY DEF Open
  <2> QED
    BY <2>1, <2>2, OpenSteps
<1> QED
  BY <1>1, <1>2, <1>3 DEF TypeInv, Typed

LEMMA NextTypeInv == TypeInv /\ [Next]_vars => TypeInv'
<1> SUFFICES ASSUME TypeInv, [Next]_vars
             PROVE  TypeInv'
  OBVIOUS
<1>1. CASE UNCHANGED vars
  BY <1>1, WithinUnmoved DEF vars, TypeInv, Typed
<1>2. CASE Next
  BY <1>2, StepTypeInv, OpenTypeInv DEF Next
<1> QED
  BY <1>1, <1>2

LEMMA TypeInvGivesTypeOK == TypeInv => TypeOK
<1> SUFFICES ASSUME TypeInv, NEW u \in Users, run[u] # None
             PROVE  /\ run[u].prog \in {"cat", "echo"} /\ run[u].dev \in Devices
                    /\ run[u].len \in Lengths /\ run[u].left \in 0 .. run[u].len
                    /\ run[u].at \in 0 .. 1 + IF run[u].prog = "cat" THEN ReadCopies(u)
                                                                    ELSE WriteCopies(u)
                    /\ run[u].pos < Size(u) + ReadReturns(u)
  BY DEF TypeInv, Typed, TypeOK, Bytes
<1>1. run[u] \in Programs /\ Within(u)
  BY DEF TypeInv, Typed
<1> QED
  BY <1>1, CallShape DEF Within, Prog, Programs

(* Whatever is read, written and interrupted, every variable has its type, *)
(* and no position gets further than one read behind the end.              *)
THEOREM FilesTypeCorrect == Spec => []TypeOK
<1> QED
  BY InitTypeInv, NextTypeInv, TypeInvGivesTypeOK, PTL DEF Spec

-----------------------------------------------------------------------------
(* How long a program is alone.                                            *)
LEMMA InitAlone == Init => AloneInv
BY DEF Init, AloneInv, Prog, None

LEMMA StepAlone ==
  ASSUME TypeInv, AloneInv, NEW u \in Users, Step(u)
  PROVE  AloneInv'
<1>1. ASSUME NEW x \in Users, Prog(x)' # "none"
      PROVE  Prog(x)' = Prog(x) /\ run'[x].alone = run[x].alone
  BY <1>1, ProgramSteps DEF ReadStep, WriteStep, GoesOn, Prog, None
<1>2. SUFFICES ASSUME NEW x \in Users, Prog(x)' # "none", run'[x].alone,
                      NEW w \in Users \ {x}, Prog(w)' = "echo"
               PROVE  FALSE
  BY DEF AloneInv
<1>3. Prog(x) # "none" /\ run[x].alone /\ Prog(w) = "echo"
  BY <1>1, <1>2
<1> QED
  BY <1>3 DEF AloneInv

LEMMA OpenAlone ==
  ASSUME TypeInv, AloneInv, NEW u \in Users, NEW prog \in {"cat", "echo"},
         NEW dev \in Devices, NEW len \in Lengths, Open(u, prog, dev, len)
  PROVE  AloneInv'
<1> SUFFICES ASSUME NEW x \in Users, Prog(x)' # "none", run'[x].alone,
                    NEW w \in Users \ {x}, Prog(w)' = "echo"
             PROVE  FALSE
  BY DEF AloneInv
<1>1. Prog(u) = "none" /\ Prog(u)' = prog /\ (run'[u].alone => \A v \in Users : Prog(v) # "echo")
  BY OpenSteps DEF Prog
<1>2. CASE x = u
  <2>1. Prog(w)' = Prog(w)
    BY <1>2, OpenOthers
  <2> QED
    BY <1>1, <1>2, <2>1
<1>3. CASE x # u
  <2>1. /\ Prog(x)' = Prog(x)
        /\ run'[x] = run[x] /\ (prog = "echo" => Prog(x) = "none")
    <3>1. /\ Prog(x)' = Prog(x)
          /\ \/ run'[x] = run[x] /\ (prog = "echo" => Prog(x) = "none")
             \/ run[x] \in Programs /\ run'[x] = [run[x] EXCEPT !.alone = FALSE]
      BY <1>3, OpenOthers
    <3>2. run[x] \in Programs => ~[run[x] EXCEPT !.alone = FALSE].alone
      BY DEF Programs
    <3> QED
      BY <3>1, <3>2
  <2>2. w = u => prog = "echo"
    BY <1>1
  <2>3. w # u => Prog(w)' = Prog(w)
    BY OpenOthers
  <2> QED
    BY <2>1, <2>2, <2>3 DEF AloneInv
<1> QED
  BY <1>2, <1>3

LEMMA NextAlone == TypeInv /\ AloneInv /\ [Next]_vars => AloneInv'
<1> SUFFICES ASSUME TypeInv, AloneInv, [Next]_vars
             PROVE  AloneInv'
  OBVIOUS
<1>1. CASE UNCHANGED vars
  BY <1>1 DEF vars, AloneInv, Prog
<1>2. CASE Next
  BY <1>2, StepAlone, OpenAlone DEF Next
<1> QED
  BY <1>1, <1>2

(* Next to a program that is alone nobody changes knbuf.                   *)
LEMMA AloneKeepsBuffer ==
  ASSUME TypeInv, AloneInv, NEW u \in Users, Step(u),
         NEW w \in Users, w # u, Prog(w) # "none", run[w].alone
  PROVE  knbuf' = knbuf /\ run'[w] = run[w]
BY ProgramSteps DEF AloneInv, ReadStep, WriteStep

-----------------------------------------------------------------------------
(* Division with remainder.                                                *)
LEMMA DivMod ==
  ASSUME NEW n \in Nat \ {0}, NEW a \in Nat
  PROVE  a \div n \in Nat /\ a % n \in 0 .. n - 1 /\ a = n * (a \div n) + (a % n)
OBVIOUS

LEMMA NextMultiple ==
  ASSUME NEW n \in Nat \ {0}, NEW p \in Nat, NEW q \in Nat, p < q
  PROVE  n * p + n <= n * q
<1>1. PICK d \in Nat : q = p + 1 + d
  <2>1. q - (p + 1) \in Nat
    OBVIOUS
  <2> QED
    BY <2>1
<1>2. n * q = n * p + n + n * d /\ n * d \in Nat
  BY <1>1
<1> QED
  BY <1>2

LEMMA Quotient ==
  ASSUME NEW n \in Nat \ {0}, NEW q \in Nat, NEW i \in 0 .. n - 1
  PROVE  (n * q + i) % n = i /\ (n * q + i) \div n = q
<1> DEFINE a == n * q + i
<1>1. a \in Nat
  OBVIOUS
<1>2. a \div n \in Nat /\ a % n \in 0 .. n - 1 /\ a = n * (a \div n) + (a % n)
  BY <1>1, DivMod
<1>3. ~(a \div n < q) /\ ~(q < a \div n)
  BY <1>2, NextMultiple
<1>4. a \div n = q
  BY <1>2, <1>3
<1> QED
  BY <1>2, <1>4

(* Two numbers of the same residue class are at least n apart.             *)
LEMMA SameResidue ==
  ASSUME NEW n \in Nat \ {0}, NEW a \in Nat, NEW b \in Nat, a < b, a % n = b % n
  PROVE  a + n <= b
<1> DEFINE p == a \div n
           q == b \div n
           r == a % n
           t == b % n
<1>1. p \in Nat /\ r \in Nat /\ a = n * p + r
  OBVIOUS
<1>2. q \in Nat /\ t \in Nat /\ b = n * q + t /\ t = r
  OBVIOUS
<1> HIDE DEF p, q, r, t
<1>3. ~(p = q)
  BY <1>1, <1>2
<1>4. n * p \in Nat /\ n * q \in Nat
  BY <1>1, <1>2
<1>5. ~(q < p)
  <2>1. q < p => n * q + n <= n * p
    BY <1>1, <1>2, NextMultiple
  <2> QED
    BY <1>1, <1>2, <1>4, <2>1
<1>6. n * p + n <= n * q
  BY <1>1, <1>2, <1>3, <1>5, NextMultiple
<1> QED
  BY <1>1, <1>2, <1>4, <1>6

-----------------------------------------------------------------------------
LEMMA InitPrints == Init => PrintInv
BY DEF Init, PrintInv, Prints, Chrdev, Prog, None

(* A program that is alone and does not move: nobody changed knbuf.        *)
LEMMA PrintsUnmoved ==
  ASSUME NEW u, Prints(u), run'[u] = run[u], Chrdev(u, "cat") => knbuf' = knbuf
  PROVE  Prints(u)'
BY DEF Prints, Chrdev, Prog, CellByte, Cell, Copied

(* Position p + i of a whole number of chunks is cell i of the next one.   *)
LEMMA CellOf ==
  ASSUME NEW u, run[u] \in Programs, NEW q \in Nat, run[u].pos = run[u].len * q,
         NEW i \in 1 .. run[u].len
  PROVE  Cell(u, run[u].pos + i) = i
<1> DEFINE n == run[u].len
           p == run[u].pos
<1>1. n \in Nat \ {0} /\ p \in Nat /\ p = n * q /\ i \in 1 .. n
  BY DEF Programs
<1>2. Cell(u, p + i) = (((p + i) - 1) % n) + 1
  BY DEF Cell
<1> HIDE DEF n, p
<1>3. (p + i) - 1 = n * q + (i - 1) /\ i - 1 \in 0 .. n - 1
  BY <1>1
<1>4. (n * q + (i - 1)) % n = i - 1
  BY <1>1, <1>3, Quotient
<1> QED
  BY <1>1, <1>2, <1>3, <1>4 DEF p

LEMMA Appended ==
  ASSUME NEW S, NEW q \in Seq(S), NEW e \in S
  PROVE  /\ Len(q) \in Nat /\ Len(Append(q, e)) = Len(q) + 1
         /\ \A j \in 1 .. Len(q) : Append(q, e)[j] = q[j]
         /\ Append(q, e)[Len(q) + 1] = e
OBVIOUS

LEMMA Joined ==
  ASSUME NEW S, NEW q \in Seq(S), NEW n \in Nat, NEW e \in S
  PROVE  LET t == q \o [i \in 1 .. n |-> e]
         IN  /\ Len(q) \in Nat /\ Len(t) = Len(q) + n
             /\ \A j \in 1 .. Len(q) : t[j] = q[j]
             /\ \A j \in Len(q) + 1 .. Len(q) + n : t[j] = e
<1> DEFINE pad == [i \in 1 .. n |-> e]
<1>1. pad \in Seq(S) /\ Len(pad) = n /\ \A i \in 1 .. n : pad[i] = e
  OBVIOUS
<1> HIDE DEF pad
<1>2. /\ Len(q) \in Nat /\ Len(q \o pad) = Len(q) + n
      /\ \A j \in 1 .. Len(q) : (q \o pad)[j] = q[j]
      /\ \A j \in Len(q) + 1 .. Len(q) + n : (q \o pad)[j] = pad[j - Len(q)]
  BY <1>1
<1>3. \A j \in Len(q) + 1 .. Len(q) + n : j - Len(q) \in 1 .. n
  BY <1>2
<1> QED
  BY <1>1, <1>2, <1>3 DEF pad

LEMMA ReadPrints ==
  ASSUME TypeInv, NEW u \in Users, Prints(u), run[u] \in Programs, ReadStep(u)
  PROVE  Prints(u)'
<1> SUFFICES ASSUME Chrdev(u, "cat")
             PROVE  /\ \E q \in Nat : run'[u].pos = run'[u].len * q
                    /\ Len(run'[u].got) = run'[u].pos + Copied(u)'
                    /\ \A j \in 1 .. Len(run'[u].got) : run'[u].got[j] = CellByte(u, j)'
  BY DEF Prints, Chrdev, ReadStep, GoesOn, Prog
<1> DEFINE n == run[u].len
           copies == Smaller(n, KNBUFLEN)
<1>1. /\ run[u].dev = "chrdev" /\ run'[u].len = n /\ UNCHANGED knbuf
      /\ ReadCopies(u) = copies /\ ReadReturns(u) = n
  BY CallShape DEF Chrdev, ReadStep, GoesOn
<1>2. /\ n \in Nat \ {0} /\ run[u].pos \in Nat /\ run[u].at \in Nat
      /\ run[u].got \in Seq(Bytes) /\ Len(run[u].got) \in Nat
      /\ copies \in Nat /\ copies <= n /\ copies <= KNBUFLEN
      /\ copies < n => copies = KNBUFLEN
  <2>1. n \in Nat \ {0} /\ run[u].pos \in Nat /\ run[u].at \in Nat /\ run[u].got \in Seq(Bytes)
    BY DEF Programs
  <2>2. Len(run[u].got) \in Nat
    BY <2>1
  <2> HIDE DEF n
  <2> QED
    BY <2>1, <2>2 DEF Smaller
<1>3. PICK q \in Nat : run[u].pos = n * q
  BY DEF Prints
<1>4. /\ Len(run[u].got) = run[u].pos + Copied(u)
      /\ \A j \in 1 .. Len(run[u].got) : run[u].got[j] = CellByte(u, j)
  BY DEF Prints
<1>5. \A j : CellByte(u, j)' = CellByte(u, j)
  BY <1>1 DEF CellByte, Cell
<1>6. \A i \in 1 .. n : Cell(u, run[u].pos + i) = i
  BY <1>3, CellOf
<1> HIDE DEF n, copies
<1>7. CASE /\ run[u].at = 0 /\ run'[u].at = 1
           /\ run'[u].pos = run[u].pos /\ run'[u].got = run[u].got
  BY <1>1, <1>3, <1>4, <1>5, <1>7 DEF Copied
<1>8. CASE /\ run[u].at \in 1 .. copies /\ run'[u].at = run[u].at + 1
           /\ run'[u].pos = run[u].pos
           /\ run'[u].got = Append(run[u].got, knbuf[run[u].at])
  <2>1. Copied(u) = run[u].at - 1 /\ Copied(u)' = run[u].at
    BY <1>2, <1>8 DEF Copied
  <2>0. knbuf[run[u].at] \in Bytes
    BY <1>2, <1>8 DEF TypeInv, Typed
  <2>4. /\ Len(run'[u].got) = Len(run[u].got) + 1
        /\ \A j \in 1 .. Len(run[u].got) : run'[u].got[j] = run[u].got[j]
        /\ run'[u].got[Len(run[u].got) + 1] = knbuf[run[u].at]
    BY <1>2, <1>8, <2>0, Appended
  <2>2. Len(run'[u].got) = run[u].pos + run[u].at /\ Len(run[u].got) + 1 = run[u].pos + run[u].at
    BY <1>2, <1>4, <1>8, <2>1, <2>4
  <2>3. ASSUME NEW j \in 1 .. Len(run'[u].got)
        PROVE  run'[u].got[j] = CellByte(u, j)
    <3>1. CASE j \in 1 .. Len(run[u].got)
      BY <1>4, <2>4, <3>1
    <3>2. CASE j = run[u].pos + run[u].at
      <4>1. run[u].at \in 1 .. n /\ run[u].at <= KNBUFLEN
        BY <1>2, <1>8
      <4>2. CellByte(u, j) = knbuf[run[u].at]
        BY <1>6, <3>2, <4>1 DEF CellByte
      <4> QED
        BY <2>2, <2>4, <3>2, <4>2
    <3> QED
      BY <1>2, <2>2, <3>1, <3>2
  <2> QED
    BY <1>1, <1>3, <1>5, <1>8, <2>1, <2>2, <2>3
<1>9. CASE /\ run[u].at > 0 /\ run[u].at = copies + 1 /\ run'[u].at = 0
           /\ run'[u].pos = run[u].pos + n
           /\ run'[u].got = run[u].got \o Padding(u)
  <2>1. Copied(u) = copies /\ Copied(u)' = 0
    BY <1>2, <1>9 DEF Copied
  <2>2. Padding(u) = [i \in 1 .. n - copies |-> Stale] /\ n - copies \in Nat
    BY <1>1, <1>2 DEF Padding
  <2>3. /\ Len(run[u].got) = run[u].pos + copies /\ Len(run'[u].got) = run[u].pos + n
        /\ \A j \in 1 .. Len(run[u].got) : run'[u].got[j] = run[u].got[j]
        /\ \A j \in Len(run[u].got) + 1 .. Len(run'[u].got) : run'[u].got[j] = Stale
    <3>1. Stale \in Bytes
      BY DEF Bytes
    <3>2. /\ Len(run'[u].got) = Len(run[u].got) + (n - copies)
          /\ \A j \in 1 .. Len(run[u].got) : run'[u].got[j] = run[u].got[j]
          /\ \A j \in Len(run[u].got) + 1 .. Len(run[u].got) + (n - copies) :
               run'[u].got[j] = Stale
      BY <1>2, <1>9, <2>2, <3>1, Joined
    <3>3. Len(run[u].got) = run[u].pos + copies
      BY <1>4, <2>1
    <3>4. Len(run'[u].got) = run[u].pos + n
      BY <1>2, <3>2, <3>3
    <3> QED
      BY <3>2, <3>3, <3>4
  <2>4. ASSUME NEW j \in 1 .. Len(run'[u].got)
        PROVE  run'[u].got[j] = CellByte(u, j)
    <3>1. CASE j \in 1 .. Len(run[u].got)
      BY <1>4, <2>3, <3>1
    <3>2. CASE j \in Len(run[u].got) + 1 .. Len(run'[u].got)
      <4>1. /\ j - run[u].pos \in 1 .. n /\ j - run[u].pos > KNBUFLEN
            /\ run[u].pos + (j - run[u].pos) = j
        <5> DEFINE p == run[u].pos
        <5>1. p \in Nat /\ j \in (p + copies) + 1 .. p + n
          BY <1>2, <2>3, <3>2
        <5> HIDE DEF p
        <5>2. copies < n /\ j - p > copies /\ j - p \in 1 .. n /\ p + (j - p) = j
          BY <1>2, <5>1
        <5> QED
          BY <1>2, <5>2 DEF p
      <4>2. Cell(u, j) > KNBUFLEN
        BY <1>6, <4>1
      <4>3. CellByte(u, j) = Stale
        <5>1. Cell(u, j) \in Nat
          BY <1>2, <1>6, <4>1
        <5> QED
          BY <4>2, <5>1 DEF CellByte
      <4> QED
        BY <2>3, <3>2, <4>3
    <3> QED
      BY <1>2, <3>1, <3>2
  <2>5. run'[u].pos = n * (q + 1) /\ q + 1 \in Nat
    <3>1. n * (q + 1) = n * q + n
      BY <1>2
    <3> QED
      BY <1>3, <1>9, <3>1
  <2>6. Len(run'[u].got) = run'[u].pos + 0
    BY <1>2, <1>9, <2>3
  <2>7. \A j \in 1 .. Len(run'[u].got) : run'[u].got[j] = CellByte(u, j)'
    BY <1>5, <2>4
  <2>8. \E p \in Nat : run'[u].pos = run'[u].len * p
    BY <1>1, <2>5
  <2> QED
    BY <2>1, <2>6, <2>7, <2>8
<1> QED
  BY <1>1, <1>7, <1>8, <1>9 DEF ReadStep

LEMMA NextPrints == TypeInv /\ AloneInv /\ PrintInv /\ [Next]_vars => PrintInv'
<1> SUFFICES ASSUME TypeInv, AloneInv, PrintInv, [Next]_vars, NEW w \in Users
             PROVE  Prints(w)'
  BY DEF PrintInv
<1>0. Prints(w)
  BY DEF PrintInv
<1>1. CASE UNCHANGED vars
  BY <1>0, <1>1, PrintsUnmoved DEF vars
<1>2. ASSUME NEW u \in Users, Step(u)
      PROVE  Prints(w)'
  <2>1. CASE w # u
    <3>1. Chrdev(w, "cat") => knbuf' = knbuf
      BY <1>2, <2>1, AloneKeepsBuffer DEF Chrdev
    <3>2. run'[w] = run[w]
      BY <1>2, <2>1, ProgramSteps
    <3> QED
      BY <1>0, <3>1, <3>2, PrintsUnmoved
  <2>2. CASE w = u /\ run'[u] = None
    BY <2>2 DEF Prints, Chrdev, Prog, None
  <2>3. CASE w = u /\ ReadStep(u)
    BY <1>0, <1>2, <2>3, ProgramSteps, ReadPrints
  <2>4. CASE w = u /\ WriteStep(u)
    BY <2>4 DEF WriteStep, GoesOn, Prints, Chrdev, Prog
  <2> QED
    BY <1>2, <2>1, <2>2, <2>3, <2>4, ProgramSteps
<1>3. ASSUME NEW u \in Users, NEW prog \in {"cat", "echo"}, NEW dev \in Devices,
             NEW len \in Lengths, Open(u, prog, dev, len)
      PROVE  Prints(w)'
  <2>1. CASE w = u
    <3>1. run'[u].pos = 0 /\ run'[u].at = 0 /\ run'[u].got = <<>> /\ run'[u].len \in Nat
      BY <1>3, OpenSteps
    <3>2. \E q \in Nat : run'[u].pos = run'[u].len * q
      <4>1. run'[u].pos = run'[u].len * 0
        BY <3>1
      <4> QED
        BY <4>1
    <3> QED
      BY <2>1, <3>1, <3>2 DEF Prints, Copied
  <2>2. CASE w # u
    <3>1. knbuf' = knbuf
      BY <1>3, OpenSteps
    <3>2. \/ run'[w] = run[w]
          \/ run[w] \in Programs /\ run'[w] = [run[w] EXCEPT !.alone = FALSE]
      BY <1>3, <2>2, OpenOthers
    <3>3. CASE run'[w] = run[w]
      BY <1>0, <3>1, <3>3, PrintsUnmoved
    <3>4. CASE run[w] \in Programs /\ run'[w] = [run[w] EXCEPT !.alone = FALSE]
      <4>1. ~run'[w].alone
        BY <3>4 DEF Programs
      <4> QED
        BY <4>1 DEF Prints, Chrdev
    <3> QED
      BY <3>2, <3>3, <3>4
  <2> QED
    BY <2>1, <2>2
<1> QED
  BY <1>1, <1>2, <1>3 DEF Next

(* A cat on chrdev_demo that no echo overlaps prints the first bytes of    *)
(* knbuf once per chunk, and nothing of the driver's behind the last cell, *)
(* whatever the size of knbuf and of the chunks and however many others    *)
(* read at the same time.                                                  *)
THEOREM CatPrintsFirstBytes == Spec => CatPrints
<1> DEFINE Printed(u) ==
             LET len == run[u].len
                 cell(j) == ((j - 1) % len) + 1
                 reads == (KNBUFLEN + len - 1) \div len
             IN  run[u].got = [j \in 1 .. reads * len |->
                                 IF cell(j) <= KNBUFLEN THEN knbuf[cell(j)] ELSE Stale]
<1>1. ASSUME TypeInv, PrintInv, NEW u \in Users, Chrdev(u, "cat"), CatStops(u)
      PROVE  Printed(u)
  <2> DEFINE n == run[u].len
             p == run[u].pos
             got == run[u].got
  <2>1. run[u] \in Programs /\ Within(u) /\ Prints(u) /\ Prog(u) = "cat"
    BY <1>1 DEF TypeInv, Typed, PrintInv, Chrdev, Prog, None
  <2>2. n \in Nat \ {0} /\ p \in Nat /\ got \in Seq(Bytes)
    BY <2>1 DEF Programs
  <2>3. p >= KNBUFLEN /\ p < KNBUFLEN + n /\ run[u].at = 0
    BY <1>1, <2>1, CallShape DEF CatStops, AtEnd, ReadRefused, Within, Chrdev
  <2>4. Len(got) = p /\ \A j \in 1 .. Len(got) : got[j] = CellByte(u, j)
    BY <1>1, <2>1, <2>2, <2>3 DEF Prints, Copied
  <2>5. PICK q \in Nat : p = n * q
    BY <1>1, <2>1 DEF Prints
  <2>6. got = [j \in 1 .. Len(got) |-> CellByte(u, j)]
    BY <2>2, <2>4
  <2> HIDE DEF n, p, got
  <2>7. (KNBUFLEN + n - 1) \div n = q
    <3> DEFINE i == (KNBUFLEN + n - 1) - p
    <3>1. i \in 0 .. n - 1 /\ KNBUFLEN + n - 1 = p + i
      BY <2>2, <2>3
    <3> HIDE DEF i
    <3>2. (n * q + i) \div n = q
      BY <2>2, <3>1, Quotient
    <3> QED
      BY <2>5, <3>1, <3>2
  <2>8. Len(got) = ((KNBUFLEN + n - 1) \div n) * n
    BY <2>2, <2>4, <2>5, <2>7
  <2> QED
    BY <2>6, <2>8 DEF CellByte, Cell, n, got
<1>2. TypeInv /\ PrintInv => [\A u \in Users : Chrdev(u, "cat") /\ CatStops(u) => Printed(u)]_vars
  BY <1>1
<1> QED
  BY InitTypeInv, InitAlone, InitPrints, NextTypeInv, NextAlone, NextPrints, <1>2,
     PTL DEF Spec, CatPrints

-----------------------------------------------------------------------------
LEMMA SameClass ==
  ASSUME NEW q \in Nat, NEW a \in Nat, NEW b \in Nat, b = KNBUFLEN * q + a
  PROVE  Class(b) = Class(a)
<1> DEFINE p == a \div KNBUFLEN
           r == a % KNBUFLEN
<1>1. p \in Nat /\ r \in 0 .. KNBUFLEN - 1 /\ a = KNBUFLEN * p + r
  OBVIOUS
<1> HIDE DEF p, r
<1>2. b = KNBUFLEN * (q + p) + r
  BY <1>1
<1>3. (KNBUFLEN * (q + p) + r) % KNBUFLEN = r
  BY <1>1, Quotient
<1> QED
  BY <1>2, <1>3 DEF r, Class

LEMMA NextInClass ==
  ASSUME NEW a \in Nat, NEW b \in Nat, b = a + KNBUFLEN
  PROVE  Class(b) = Class(a)
<1>1. \A q \in Nat : b = KNBUFLEN * q + a => Class(b) = Class(a)
  BY SameClass
<1>2. b = KNBUFLEN * 1 + a
  OBVIOUS
<1> QED
  BY <1>1, <1>2, Zenon

LEMMA ClassApart ==
  ASSUME NEW a \in Nat, NEW b \in Nat, a < b, Class(a) = Class(b)
  PROVE  a + KNBUFLEN <= b
BY SameResidue DEF Class

LEMMA InitStores == Init => StoreInv
BY DEF Init, StoreInv, Stores, Chrdev, Prog, None

LEMMA StoresUnmoved ==
  ASSUME NEW u, Stores(u), run'[u] = run[u], Chrdev(u, "echo") => knbuf' = knbuf
  PROVE  Stores(u)'
BY DEF Stores, Chrdev, Prog, Stored, HasLast, Copied

(* Byte m + 1 goes to its cell; the last bytes of the other cells stay     *)
(* the last ones, for no other cell is of its residue class.               *)
LEMMA ByteStored ==
  ASSUME Typed, NEW u \in Users, NEW q \in Nat, NEW c \in 1 .. KNBUFLEN,
         NEW m \in Nat, m + 1 = KNBUFLEN * q + c,
         knbuf' = [knbuf EXCEPT ![c] = <<u, m + 1>>],
         \A i \in 1 .. KNBUFLEN : i <= m => HasLast(knbuf, u, i, m)
  PROVE  \A i \in 1 .. KNBUFLEN : i <= m + 1 => HasLast(knbuf', u, i, m + 1)
<1> SUFFICES ASSUME NEW i \in 1 .. KNBUFLEN, i <= m + 1
             PROVE  \E j \in 1 .. m + 1 :
                      knbuf'[i] = <<u, j>> /\ Class(j) = Class(i)
                        /\ m + 1 < j + KNBUFLEN
  BY DEF HasLast
<1>0. Class(m + 1) = Class(c)
  BY SameClass
<1>1. CASE i = c
  <2>1. knbuf'[i] = <<u, m + 1>>
    BY <1>1 DEF Typed
  <2> QED
    BY <1>0, <1>1, <2>1
<1>2. CASE i # c
  <2>1. knbuf'[i] = knbuf[i]
    BY <1>2 DEF Typed
  <2>2. i <= m
    <3>1. CASE q = 0
      BY <1>2, <3>1
    <3>2. CASE q > 0
      <4>1. KNBUFLEN * 0 + KNBUFLEN <= KNBUFLEN * q
        BY <3>2, NextMultiple
      <4>2. KNBUFLEN * q \in Nat
        OBVIOUS
      <4> QED
        BY <4>1, <4>2
    <3> QED
      BY <3>1, <3>2
  <2>3. PICK j \in 1 .. m : /\ knbuf[i] = <<u, j>> /\ Class(j) = Class(i)
                            /\ m < j + KNBUFLEN
    BY <2>2 DEF HasLast
  <2>4. m + 1 # j + KNBUFLEN
    <3>1. SUFFICES ASSUME m + 1 = j + KNBUFLEN PROVE FALSE
      OBVIOUS
    <3>2. Class(m + 1) = Class(j)
      BY <3>1, NextInClass
    <3>3. Class(i) = Class(c)
      BY <1>0, <2>3, <3>2
    <3>4. /\ i < c => i + KNBUFLEN <= c
          /\ c < i => c + KNBUFLEN <= i
      BY <3>3, ClassApart
    <3> QED
      BY <1>2, <3>4
  <2> QED
    BY <2>1, <2>3, <2>4
<1> QED
  BY <1>1, <1>2

LEMMA WriteStores ==
  ASSUME TypeInv, NEW u \in Users, Stores(u), run[u] \in Programs, WriteStep(u)
  PROVE  Stores(u)'
<1> SUFFICES ASSUME Chrdev(u, "echo")
             PROVE  /\ run'[u].left # 0 =>
                          \E q \in Nat : run'[u].len - run'[u].left = KNBUFLEN * q
                    /\ \A i \in 1 .. KNBUFLEN :
                          i <= Stored(u)' => HasLast(knbuf', u, i, Stored(u)')
  BY DEF Stores, Chrdev, WriteStep, GoesOn, Prog
<1> DEFINE len == run[u].len
           left == run[u].left
           pos == run[u].at
           copies == Smaller(left, KNBUFLEN)
           m == Stored(u)
<1>1. /\ run[u].dev = "chrdev" /\ run'[u].len = len /\ WriteCopies(u) = copies
  BY CallShape DEF Chrdev, WriteStep, GoesOn
<1>2. /\ len \in Nat /\ left \in Nat /\ left <= len /\ pos \in Nat
      /\ Stored(u) = len - left + Copied(u)
  BY DEF TypeInv, Within, Chrdev, Programs, Stored, Prog
<1>3. /\ copies \in Nat /\ copies <= left /\ copies <= KNBUFLEN
      /\ copies < left => copies = KNBUFLEN
  BY <1>2 DEF Smaller
<1>4. /\ left # 0 => \E q \in Nat : len - left = KNBUFLEN * q
      /\ \A i \in 1 .. KNBUFLEN : i <= m => HasLast(knbuf, u, i, m)
  BY DEF Stores
<1>5. Stored(u)' = len - run'[u].left + Copied(u)'
  BY <1>1 DEF Stored
<1> HIDE DEF len, left, copies
<1>6. CASE /\ pos = 0 /\ run'[u].at = 1 /\ run'[u].left = left /\ UNCHANGED knbuf
  <2>1. Stored(u)' = m
    BY <1>2, <1>5, <1>6 DEF Copied
  <2> HIDE DEF m
  <2> QED
    BY <1>1, <1>4, <1>6, <2>1
<1>7. CASE /\ pos \in 1 .. copies /\ run'[u].at = pos + 1 /\ run'[u].left = left
           /\ knbuf' = [knbuf EXCEPT ![pos] = <<u, len - left + pos>>]
  <2>1. left # 0 /\ pos \in 1 .. KNBUFLEN
    BY <1>3, <1>7
  <2>2. PICK q \in Nat : len - left = KNBUFLEN * q
    BY <1>4, <2>1
  <2>3. /\ m \in Nat /\ m + 1 = len - left + pos /\ Stored(u)' = m + 1
    BY <1>2, <1>5, <1>7 DEF Copied
  <2>4. m + 1 = KNBUFLEN * q + pos
    BY <2>2, <2>3
  <2>5. knbuf' = [knbuf EXCEPT ![pos] = <<u, m + 1>>] /\ Typed
    BY <1>7, <2>3 DEF TypeInv
  <2> HIDE DEF m, pos
  <2>6. \A i \in 1 .. KNBUFLEN : i <= m + 1 => HasLast(knbuf', u, i, m + 1)
    BY <1>4, <2>1, <2>3, <2>4, <2>5, ByteStored
  <2> QED
    BY <1>1, <1>4, <1>7, <2>3, <2>6 DEF HasLast
<1>8. CASE /\ pos > 0 /\ pos = copies + 1 /\ run'[u].at = 0
           /\ run'[u].left = left - copies /\ UNCHANGED knbuf
  <2>1. Stored(u)' = m
    BY <1>2, <1>3, <1>5, <1>8 DEF Copied
  <2>2. ASSUME left - copies # 0
        PROVE  \E q \in Nat : len - (left - copies) = KNBUFLEN * q
    <3>1. copies = KNBUFLEN /\ left # 0
      BY <1>2, <1>3, <2>2
    <3>2. PICK q \in Nat : len - left = KNBUFLEN * q
      BY <1>4, <3>1
    <3>3. KNBUFLEN * (q + 1) = KNBUFLEN * q + KNBUFLEN
      OBVIOUS
    <3>4. len - (left - copies) = KNBUFLEN * (q + 1) /\ q + 1 \in Nat
      BY <1>2, <3>1, <3>2, <3>3
    <3> QED
      BY <3>4
  <2> QED
    BY <1>1, <1>4, <1>8, <2>1, <2>2 DEF HasLast
<1> QED
  BY <1>1, <1>6, <1>7, <1>8 DEF WriteStep, len, left

LEMMA NextStores == TypeInv /\ AloneInv /\ StoreInv /\ [Next]_vars => StoreInv'
<1> SUFFICES ASSUME TypeInv, AloneInv, StoreInv, [Next]_vars, NEW w \in Users
             PROVE  Stores(w)'
  BY DEF StoreInv
<1>0. Stores(w)
  BY DEF StoreInv
<1>1. CASE UNCHANGED vars
  BY <1>0, <1>1, StoresUnmoved DEF vars
<1>2. ASSUME NEW u \in Users, Step(u)
      PROVE  Stores(w)'
  <2>1. CASE w # u
    <3>1. Chrdev(w, "echo") => knbuf' = knbuf
      BY <1>2, <2>1, AloneKeepsBuffer DEF Chrdev
    <3>2. run'[w] = run[w]
      BY <1>2, <2>1, ProgramSteps
    <3> QED
      BY <1>0, <3>1, <3>2, StoresUnmoved
  <2>2. CASE w = u /\ run'[u] = None
    BY <2>2 DEF Stores, Chrdev, Prog, None
  <2>3. CASE w = u /\ WriteStep(u)
    BY <1>0, <1>2, <2>3, ProgramSteps, WriteStores
  <2>4. CASE w = u /\ ReadStep(u)
    BY <2>4 DEF ReadStep, GoesOn, Stores, Chrdev, Prog
  <2> QED
    BY <1>2, <2>1, <2>2, <2>3, <2>4, ProgramSteps
<1>3. ASSUME NEW u \in Users, NEW prog \in {"cat", "echo"}, NEW dev \in Devices,
             NEW len \in Lengths, Open(u, prog, dev, len)
      PROVE  Stores(w)'
  <2>1. CASE w = u
    <3>1. run'[u].at = 0 /\ run'[u].left = run'[u].len /\ run'[u].len \in Nat
      BY <1>3, OpenSteps
    <3>2. Stored(u)' = 0 /\ run'[u].len - run'[u].left = 0
      BY <3>1 DEF Stored, Copied
    <3>3. \E q \in Nat : run'[u].len - run'[u].left = KNBUFLEN * q
      <4>1. run'[u].len - run'[u].left = KNBUFLEN * 0
        BY <3>2
      <4> QED
        BY <4>1
    <3> QED
      BY <2>1, <3>2, <3>3 DEF Stores
  <2>2. CASE w # u
    <3>1. knbuf' = knbuf
      BY <1>3, OpenSteps
    <3>2. \/ run'[w] = run[w]
          \/ run[w] \in Programs /\ run'[w] = [run[w] EXCEPT !.alone = FALSE]
      BY <1>3, <2>2, OpenOthers
    <3>3. CASE run'[w] = run[w]
      BY <1>0, <3>1, <3>3, StoresUnmoved
    <3>4. CASE run[w] \in Programs /\ run'[w] = [run[w] EXCEPT !.alone = FALSE]
      <4>1. ~run'[w].alone
        BY <3>4 DEF Programs
      <4> QED
        BY <4>1 DEF Stores, Chrdev
    <3> QED
      BY <3>2, <3>3, <3>4
  <2> QED
    BY <2>1, <2>2
<1> QED
  BY <1>1, <1>2, <1>3 DEF Next

(* When an echo on chrdev_demo that no other overlaps is done, each cell   *)
(* of knbuf it reached holds the last byte of the message that belongs     *)
(* there, whatever the sizes of knbuf and of the message: a message longer *)
(* than knbuf wraps around to its beginning.                               *)
THEOREM EchoStoresLastBytes == Spec => EchoStores
<1> DEFINE Kept(u) ==
             \A i \in 1 .. Smaller(run[u].len, KNBUFLEN) :
               LET bytes == {j \in 1 .. run[u].len : j % KNBUFLEN = i % KNBUFLEN}
               IN  knbuf[i] = <<u, CHOOSE j \in bytes : \A k \in bytes : k <= j>>
<1>1. ASSUME TypeInv, StoreInv, NEW u \in Users, Chrdev(u, "echo"), EchoStops(u)
      PROVE  Kept(u)
  <2> DEFINE len == run[u].len
  <2>1. run[u] \in Programs /\ Stores(u)
    BY <1>1 DEF TypeInv, Typed, StoreInv, Chrdev, Prog, None
  <2>2. len \in Nat /\ run[u].left = 0 /\ run[u].at = 0
    BY <1>1, <2>1 DEF Programs, EchoStops, WriteRefused, Chrdev
  <2>3. Stored(u) = len
    BY <2>2 DEF Stored, Copied
  <2> HIDE DEF len
  <2>4. ASSUME NEW i \in 1 .. Smaller(len, KNBUFLEN)
        PROVE  LET bytes == {j \in 1 .. len : Class(j) = Class(i)}
               IN  knbuf[i] = <<u, CHOOSE j \in bytes : \A k \in bytes : k <= j>>
    <3> DEFINE bytes == {j \in 1 .. len : Class(j) = Class(i)}
               Last(j) == j \in bytes /\ \A k \in bytes : k <= j
    <3>1. i \in 1 .. KNBUFLEN /\ i <= len
      BY <2>2 DEF Smaller
    <3>2. HasLast(knbuf, u, i, len)
      BY <1>1, <2>1, <2>3, <3>1 DEF Stores
    <3>3. PICK j \in 1 .. len : knbuf[i] = <<u, j>> /\ Class(j) = Class(i) /\ len < j + KNBUFLEN
      BY <3>2 DEF HasLast
    <3>4. ASSUME NEW k \in bytes PROVE k <= j
      <4>1. k \in Nat /\ j \in Nat /\ k <= len /\ Class(j) = Class(k)
        BY <2>2, <3>3
      <4>2. j < k => j + KNBUFLEN <= k
        BY <4>1, ClassApart
      <4> QED
        BY <2>2, <3>3, <4>1, <4>2
    <3>5. Last(j)
      BY <3>3, <3>4
    <3>6. \A k : Last(k) => k = j
      BY <2>2, <3>5
    <3>7. (CHOOSE k \in bytes : \A x \in bytes : x <= k) = j
      BY <3>5, <3>6
    <3> QED
      BY <3>3, <3>7
  <2> QED
    BY <2>4 DEF len, Class
<1>2. TypeInv /\ StoreInv => [\A u \in Users : Chrdev(u, "echo") /\ EchoStops(u) => Kept(u)]_vars
  BY <1>1
<1> QED
  BY InitTypeInv, InitAlone, InitStores, NextTypeInv, NextAlone, NextStores, <1>2,
     PTL DEF Spec, EchoStores
=============================================================================
