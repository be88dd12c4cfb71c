--------------------------- MODULE MCSyscallCheck ---------------------------
(* Addresses: 3 and 4 are kernel text, 6 and 2 (the bound itself) are not. *)
EXTENDS SyscallCheck

=============================================================================
