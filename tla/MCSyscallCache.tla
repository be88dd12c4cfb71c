--------------------------- MODULE MCSyscallCache ---------------------------
(***************************************************************************)
(* The syscall cache with as many elements as threads.                     *)
(***************************************************************************)
EXTENDS SyscallCache
=============================================================================
