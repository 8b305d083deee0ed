------------------------------ MODULE FileLoop ------------------------------
(***************************************************************************)
(* cat and echo on the device files, as the comments of the drivers        *)
(* propose to try them: cat reads chunks until a read returns 0 or fails,  *)
(* echo writes its message and goes on with what a write left over.  The   *)
(* drivers differ in how read moves the position, how much they copy and   *)
(* what they return; chrdev_demo keeps the bytes in knbuf, shared by all   *)
(* processes without a lock, and copies them one at a time.                *)
(***************************************************************************)
EXTENDS Naturals, Sequences

CONSTANTS Users,       \* processes
          Devices,     \* the devices they use: chrdev, gpio, keyirq
          KNBUFLEN,    \* cells of knbuf (32 in the code)
          Lengths      \* chunk sizes of cat and message lengths of echo

ASSUME FileLoopAssumption ==
         /\ Devices \subseteq {"chrdev", "gpio", "keyirq"}
         /\ KNBUFLEN \in Nat \ {0} /\ Lengths \subseteq Nat \ {0}

VARIABLES knbuf,       \* chrdev_demo_dev->knbuf: <<u, j>> is byte j of u's message
          run          \* the program each process runs, see Launch

vars == <<knbuf, run>>

Stale == <<>>          \* a byte no driver has put there
None == [prog |-> "none"]

Init == /\ knbuf = [i \in 1 .. KNBUFLEN |-> Stale]
        /\ run = [u \in Users |-> None]

Prog(u) == run[u].prog
Smaller(a, b) == IF a < b THEN a ELSE b

(* len: chunk size or message length; left: bytes still to be written; pos *)
(* of the open file; at: 0 in user space, else the next byte to copy; got: *)
(* what the reads returned so far; alone: no echo overlaps the program.    *)
Launch(prog, dev, len, alone) ==
  [prog |-> prog, dev |-> dev, len |-> len, left |-> len, pos |-> 0, at |-> 0,
   got |-> <<>>, alone |-> alone]

(* A process opens a device; reading keyirq is another module's subject.   *)
Open(u, prog, dev, len) ==
  /\ Prog(u) = "none"
  /\ prog = "cat" => dev # "keyirq"
  /\ run' = [v \in Users |->
               IF v = u
                 THEN Launch(prog, dev, len, \A w \in Users : Prog(w) # "echo")
                 ELSE IF prog = "echo" /\ Prog(v) # "none"
                        THEN [run[v] EXCEPT !.alone = FALSE] ELSE run[v]]
  /\ UNCHANGED knbuf

Exit(u) == run' = [run EXCEPT ![u] = None] /\ UNCHANGED knbuf

-----------------------------------------------------------------------------
(* read.                                                                   *)
Size(u) == IF run[u].dev = "chrdev" THEN KNBUFLEN ELSE 3
(* Faulty variant: > instead of >=.                                        *)
AtEndStrict(u) == run[u].pos > Size(u)
AtEnd(u) == run[u].pos >= Size(u)
ReadRefused(u) == run[u].dev = "gpio" /\ run[u].len < 2
ReadCopies(u) == IF run[u].dev = "chrdev" THEN Smaller(run[u].len, KNBUFLEN) ELSE 3
ReadReturns(u) == IF run[u].dev = "chrdev" THEN run[u].len ELSE 3

InRead(u) == Prog(u) = "cat" /\ run[u].at > 0

Read(u) == /\ Prog(u) = "cat" /\ run[u].at = 0
           /\ ~AtEnd(u) /\ ~ReadRefused(u)
           /\ run' = [run EXCEPT ![u].at = 1]
           /\ UNCHANGED knbuf

(* 0 at the end of the file, or -ENOMEM: cat stops.                        *)
CatStops(u) == /\ Prog(u) = "cat" /\ run[u].at = 0
               /\ AtEnd(u) \/ ReadRefused(u)
               /\ Exit(u)

(* copy_to_user starts at the beginning of knbuf whatever pos is.          *)
CopyOut(u) ==
  /\ InRead(u) /\ run[u].at <= ReadCopies(u)
  /\ run' = [run EXCEPT ![u].at = @ + 1,
                        ![u].got = Append(@, IF run[u].dev = "chrdev"
                                               THEN knbuf[run[u].at] ELSE Stale)]
  /\ UNCHANGED knbuf

(* Faulty variants: the position stays (got is emptied to keep the variant *)
(* finite); the position moves by one.                                     *)
ReadReturnNoMove(u) ==
  /\ InRead(u) /\ run[u].at = ReadCopies(u) + 1
  /\ run' = [run EXCEPT ![u].at = 0, ![u].got = <<>>]
  /\ UNCHANGED knbuf

ReadReturnByOne(u) ==
  /\ InRead(u) /\ run[u].at = ReadCopies(u) + 1
  /\ run' = [run EXCEPT ![u].at = 0, ![u].pos = @ + 1]
  /\ UNCHANGED knbuf

(* The bytes between what was copied and what is returned were not there.  *)
ReadReturn(u) ==
  /\ InRead(u) /\ run[u].at = ReadCopies(u) + 1
  /\ run' = [run EXCEPT ![u].at = 0,
                        ![u].pos = @ + ReadReturns(u),
                        ![u].got = @ \o [i \in 1 .. ReadReturns(u) - ReadCopies(u) |-> Stale]]
  /\ UNCHANGED knbuf

-----------------------------------------------------------------------------
(* write of what is left of the message.                                   *)
WriteRefused(u) == run[u].dev = "gpio" /\ run[u].left \notin {1, 2}
WriteCopies(u) == CASE run[u].dev = "chrdev" -> Smaller(run[u].left, KNBUFLEN)
                    [] run[u].dev = "gpio" -> run[u].left
                    [] run[u].dev = "keyirq" -> 0

InWrite(u) == Prog(u) = "echo" /\ run[u].at > 0

Write(u) == /\ Prog(u) = "echo" /\ run[u].at = 0
            /\ run[u].left > 0 /\ ~WriteRefused(u)
            /\ run' = [run EXCEPT ![u].at = 1]
            /\ UNCHANGED knbuf

EchoStops(u) == /\ Prog(u) = "echo" /\ run[u].at = 0
                /\ run[u].left = 0 \/ WriteRefused(u)
                /\ Exit(u)

(* copy_from_user; only chrdev_demo keeps the bytes, from the start of     *)
(* knbuf on.                                                               *)
CopyIn(u) ==
  /\ InWrite(u) /\ run[u].at <= WriteCopies(u)
  /\ run' = [run EXCEPT ![u].at = @ + 1]
  /\ LET byte == <<u, run[u].len - run[u].left + run[u].at>>
     IN  knbuf' = IF run[u].dev = "chrdev"
                    THEN [knbuf EXCEPT ![run[u].at] = byte] ELSE knbuf

(* Faulty variants: 0 is returned; len is returned although less was       *)
(* copied.                                                                 *)
WriteReturnZero(u) == /\ InWrite(u) /\ run[u].at = WriteCopies(u) + 1
                      /\ run' = [run EXCEPT ![u].at = 0]
                      /\ UNCHANGED knbuf

WriteReturnLen(u) == /\ InWrite(u) /\ run[u].at = WriteCopies(u) + 1
                     /\ run' = [run EXCEPT ![u].at = 0, ![u].left = 0]
                     /\ UNCHANGED knbuf

(* The bytes copied are what write returns; keyirq_demo_write returns 0.   *)
WriteReturn(u) == /\ InWrite(u) /\ run[u].at = WriteCopies(u) + 1
                  /\ run' = [run EXCEPT ![u].at = 0, ![u].left = @ - WriteCopies(u)]
                  /\ UNCHANGED knbuf

(* The text is no command of the GPIO drivers.                             *)
WriteInvalid(u) == /\ InWrite(u) /\ run[u].dev = "gpio"
                   /\ run[u].at = WriteCopies(u) + 1
                   /\ Exit(u)

(* A fault in the middle of a copy: -EFAULT, and the program gives up.     *)
Fault(u) == /\ \/ InRead(u) /\ run[u].at <= ReadCopies(u)
               \/ InWrite(u) /\ run[u].at <= WriteCopies(u)
            /\ Exit(u)

-----------------------------------------------------------------------------
Step(u) == \/ Read(u) \/ CopyOut(u) \/ ReadReturn(u) \/ CatStops(u)
           \/ Write(u) \/ CopyIn(u) \/ WriteReturn(u) \/ WriteInvalid(u) \/ EchoStops(u)
           \/ Fault(u)

Next == \E u \in Users :
          \/ Step(u)
          \/ \E prog \in {"cat", "echo"}, dev \in Devices, len \in Lengths :
               Open(u, prog, dev, len)

(* A program that has started goes on running; none of them ever blocks.   *)
Spec == Init /\ [][Next]_vars /\ \A u \in Users : WF_vars(Step(u))

-----------------------------------------------------------------------------
(* Every variable has its type; a read starts only before the end, so the  *)
(* position stays less than one read behind it.                            *)
TypeOK ==
  /\ knbuf \in [1 .. KNBUFLEN -> {Stale} \cup (Users \X Nat)]
  /\ \A u \in Users :
       \/ run[u] = None
       \/ /\ run[u].prog \in {"cat", "echo"} /\ run[u].dev \in Devices
          /\ run[u].len \in Lengths /\ run[u].left \in 0 .. run[u].len
          /\ run[u].at \in 0 .. 1 + IF run[u].prog = "cat" THEN ReadCopies(u)
                                                         ELSE WriteCopies(u)
          /\ run[u].pos < Size(u) + ReadReturns(u)

(* cat on a device file ends: every read moves the position towards the    *)
(* end, whatever the others write meanwhile.                               *)
CatEnds == \A u \in Users : Prog(u) = "cat" ~> Prog(u) = "none"

(* echo ends: a write takes something or refuses.                          *)
EchoEnds == \A u \in Users : Prog(u) = "echo" ~> Prog(u) = "none"

Chrdev(u, prog) == Prog(u) = prog /\ run[u].dev = "chrdev" /\ run[u].alone

(* What cat has printed when it stops and no echo ran meanwhile: for each  *)
(* chunk the first bytes of knbuf, never the later ones, and behind the    *)
(* last cell of knbuf bytes nobody stored.  Only a chunk of the size of    *)
(* the buffer prints the buffer.  This is what the code does; the comment  *)
(* of chrdev_demo_read says otherwise, see ReadStartsAtPos.                *)
CatPrints ==
  [][\A u \in Users :
       Chrdev(u, "cat") /\ CatStops(u) =>
         LET len == run[u].len
             cell(j) == ((j - 1) % len) + 1
             reads == (KNBUFLEN + len - 1) \div len
         IN  run[u].got = [j \in 1 .. reads * len |->
                             IF cell(j) <= KNBUFLEN THEN knbuf[cell(j)] ELSE Stale]]_vars

(* What is in knbuf when an echo stops that no other overlapped: byte j of *)
(* the message in cell j, and the bytes of a message longer than knbuf     *)
(* over its first ones.                                                    *)
EchoStores ==
  [][\A u \in Users :
       Chrdev(u, "echo") /\ EchoStops(u) =>
         \A i \in 1 .. Smaller(run[u].len, KNBUFLEN) :
           LET bytes == {j \in 1 .. run[u].len : j % KNBUFLEN = i % KNBUFLEN}
           IN  knbuf[i] = <<u, CHOOSE j \in bytes : \A k \in bytes : k <= j>>]_vars

(* pos says where in the file to start reading, as the comment of          *)
(* chrdev_demo_read has it: a read no echo overlaps returns the bytes     *)
(* of knbuf from pos on, as far as there are any.  The code copies from    *)
(* the start of knbuf, so a second read with cells left breaks this.       *)
ReadStartsAtPos ==
  [][\A u \in Users :
       Chrdev(u, "cat") /\ ReadReturn(u) =>
         \A i \in run[u].pos + 1 .. Smaller(run[u].pos + ReadCopies(u), KNBUFLEN) :
           run[u].got[i] = knbuf[i]]_vars
=============================================================================
