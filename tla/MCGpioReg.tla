----------------------------- MODULE MCGpioReg ------------------------------
(* GpioReg with a few processes, which are interchangeable.  PinView leaves *)
(* out the answers of finished reads, which no action reads.               *)
EXTENDS GpioReg, TLC

ProcSymmetry == Permutations(Procs)
PinView == <<ddr, dr, stage, pc, cmd, word, seen, poss, pure, neighbour>>
=============================================================================
