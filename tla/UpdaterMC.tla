----------------------------- MODULE UpdaterMC ------------------------------
(* Two branches; the second commit of each asks for another system.        *)
EXTENDS Updater

MCBranches == {"release", "staging"}

MCOs ==
  [v \in Versions |->
     CASE v = <<"staging", 1>> -> "agnos2"
       [] v = <<"release", 1>> -> "agnos3"
       [] OTHER -> "agnos1"]
=============================================================================
