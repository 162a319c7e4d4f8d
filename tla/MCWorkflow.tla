------------------------------ MODULE MCWorkflow ------------------------------
(* Instances of Workflow for TLC: devices and threads are model values,    *)
(* interchangeable; every property checked with symmetry is a safety one.  *)
EXTENDS Workflow, TLC

ThreadSymmetry == Permutations(Threads)
DeviceSymmetry == Permutations(Devices)
=============================================================================
