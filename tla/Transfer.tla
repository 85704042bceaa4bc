------------------------------ MODULE Transfer ------------------------------
(***************************************************************************)
(* What an upload promises its caller, the executor: files appear on Drive *)
(* whole, the caller is given a file that is there or an error, never      *)
(* both, and, when the upload is of the kind that is not repeated blindly  *)
(* (once), no second file appears.  An error leaves open whether a file is *)
(* there, or still comes.  Module Upload implements this.                  *)
(***************************************************************************)
CONSTANTS None, File

VARIABLES
  once,     \* no second file may appear
  stored,   \* the files on Drive
  given,    \* the file the caller was given, or None
  failed    \* the caller was given an error

vars == <<once, stored, given, failed>>

Init == once \in BOOLEAN /\ stored = {} /\ given = None /\ failed = FALSE

Store(f) ==
  /\ once => stored = {}
  /\ stored' = stored \union {f}
  /\ UNCHANGED <<once, given, failed>>

Return(f) ==
  /\ given = None /\ ~failed /\ f \in stored
  /\ given' = f
  /\ UNCHANGED <<once, stored, failed>>

Fail ==
  /\ given = None /\ ~failed
  /\ failed' = TRUE
  /\ UNCHANGED <<once, stored, given>>

Next == (\E f \in File : Store(f) \/ Return(f)) \/ Fail

Spec == Init /\ [][Next]_vars
=============================================================================
