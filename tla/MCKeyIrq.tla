------------------------------ MODULE MCKeyIrq ------------------------------
(* KeyIrq on small sets of processes.  The processes are interchangeable.  *)
(* KernelView leaves out the user buffers and the results of past calls:   *)
(* no action reads them, and it is used only with invariants that do not.  *)
EXTENDS KeyIrqLatch, TLC

ReaderSymmetry == Permutations(Readers)
KernelView == <<level, pending, hpc, hval, event, key_state, wq_head, pc,
                nonblock, signal>>
=============================================================================
