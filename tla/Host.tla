-------------------------------- MODULE Host --------------------------------
(***************************************************************************)
(* Kernel version and distribution of the host, and the features KRIe      *)
(* derives from them (src/pkg/kernel, events/syscall_helpers.go).          *)
(*                                                                         *)
(* A release string is what versionRegex extracts from it: three numbers,  *)
(* the last one NoPatch when its group is empty; a string the expression   *)
(* rejects is Malformed, and a source that is not there is Absent.         *)
(***************************************************************************)
EXTENDS Integers

NoPatch == -1
Malformed == [major |-> -1, minor |-> -1, patch |-> -1]
Absent == [major |-> -2, minor |-> -2, patch |-> -2]

(* strconv.ParseUint(s, 10, 8): an error when the number needs more than   *)
(* eight bits, and then the largest value that does not.                   *)
Fits8(n) == n \in 0..255
Unsaturated(n) == IF n < 0 THEN 0 ELSE n      \* mutant: every bit is kept
Saturate8(n) == IF n < 0 THEN 0 ELSE IF n > 255 THEN 255 ELSE n

VersionCode(major, minor, patch) == major * 65536 + minor * 256 + patch

Major(v) == (v \div 65536) % 256
Minor(v) == (v \div 256) % 256
Patch(v) == v % 256

(* 4.14 and 4.19 announce sublevel 255 before they reach it.               *)
ClampPatch(major, minor, patch) ==
    IF \/ major = 4 /\ minor = 14 /\ patch >= 252
       \/ major = 4 /\ minor = 19 /\ patch >= 222
    THEN 255 ELSE patch

Parses(r) == Fits8(r.major) /\ Fits8(r.minor)

ParseReleaseString(r) ==
    VersionCode(r.major, r.minor, ClampPatch(r.major, r.minor, Saturate8(r.patch)))

(* The signature file is final when it exists; a Debian version that does  *)
(* not parse falls back to the release.                                    *)
HostVersion(e) ==
    IF e.signature # Absent THEN e.signature
    ELSE IF Parses(e.debian) THEN e.debian
    ELSE e.release

(* The host as NewHost caches it; currentHost is nil after a failure.      *)
NoHost == [known |-> FALSE, code |-> 0, os |-> "none"]
newHost(e) == [known |-> TRUE, code |-> ParseReleaseString(HostVersion(e)), os |-> e.os]
HostDetectable(e) == Parses(HostVersion(e)) /\ e.os # "none"

(* What KRIe does, as a function of the host it knows.                     *)
AtLeast(h, major, minor) == h.known /\ h.code >= VersionCode(major, minor, 0)
Before(h, major, minor) == h.known /\ h.code < VersionCode(major, minor, 0)
IsRH7Kernel(h) == h.os = "rh7"
IsRH8Kernel(h) == h.os = "rh8"

ShouldUseSyscallExitTracepoints(h) == Before(h, 4, 12) \/ IsRH7Kernel(h)
IsBPFSendSignalHelperAvailable(h) == AtLeast(h, 5, 3)
IsBPFOverrideReturnAvailable(h) == AtLeast(h, 4, 16) \/ IsRH7Kernel(h) \/ IsRH8Kernel(h)
IsCgroupSysctlProgramAvailable(h) == AtLeast(h, 5, 2)
HasOneMillionInstructionsAvailable(h) == AtLeast(h, 5, 3)
IsBPFLSMAvailable(h) == AtLeast(h, 5, 7)
GetCheckHelperCallInputType(h) == IF AtLeast(h, 5, 14) THEN 2 ELSE 1
=============================================================================
