------------------------ MODULE MCAttendanceRecording ------------------------
(* Finite instances of AttendanceRecording for TLC. *)
EXTENDS AttendanceRecording, TLC

Symmetry == Permutations(Students) \cup Permutations(Charges) \cup Permutations(Calls)
=============================================================================
