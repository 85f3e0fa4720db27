--------------------------- MODULE ConsoleCommon ---------------------------
(* What the modules of the web console share. *)

CONSTANT Null   \* undefined, null, or nothing there

=============================================================================
