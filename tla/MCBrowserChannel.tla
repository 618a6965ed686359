-------------------------- MODULE MCBrowserChannel --------------------------
(***************************************************************************)
(* The instances of BrowserChannel that TLC checks: limits so small that   *)
(* the buffer and the history overflow, and the faults a run lets happen.  *)
(***************************************************************************)
EXTENDS BrowserChannel

EveryKind == {"chat", "transient", "snapshot"}
ChatAndTransient == {"chat", "transient"}

AllFaults == {"death", "break", "hide", "reload", "disconnect"}
OnlyDeath == {"death"}
=============================================================================
