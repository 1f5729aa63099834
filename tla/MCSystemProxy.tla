---------------------------- MODULE MCSystemProxy ----------------------------
(***************************************************************************)
(* Small instances of SystemProxy: which calls fail on which platform.     *)
(***************************************************************************)
EXTENDS SystemProxy

Calls == {"query", "save", "open", "apply", "load", "restore", "remove"}
All == {"windows", "macos", "gnome"}

\* Every failure but two: a restore that macOS ignores, and an apply that Windows
\* leaves half done.
Survivable == (All \X Calls) \ {<<"macos", "restore">>, <<"windows", "apply">>}
=============================================================================
