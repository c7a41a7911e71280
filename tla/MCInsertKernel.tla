--------------------------- MODULE MCInsertKernel ---------------------------
(* Launches for the model checker.  The first is of one thread block of    *)
(* four threads, of one of two chunks of two threads, or of two thread    *)
(* blocks; the second finds what it left in the pools and in shared memory.*)
EXTENDS InsertKernel

FirstAndSecond ==
  << {[kind |-> "element", blocks |-> 1, threads |-> 4, stride |-> 2],
      [kind |-> "blocked", blocks |-> 1, threads |-> 4, stride |-> 2],
      [kind |-> "sphere", blocks |-> 1, threads |-> 3, stride |-> 4],
      [kind |-> "element", blocks |-> 2, threads |-> 2, stride |-> 1]},
     {[kind |-> "element", blocks |-> 1, threads |-> 2, stride |-> 1],
      [kind |-> "blocked", blocks |-> 1, threads |-> 4, stride |-> 2],
      [kind |-> "sphere", blocks |-> 1, threads |-> 3, stride |-> 4]} >>
=============================================================================
