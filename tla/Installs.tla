------------------------------ MODULE Installs ------------------------------
(***************************************************************************)
(* What updates promise: the device runs one whole published version, and  *)
(* it changes in one step, to a version that was made ready before.        *)
(***************************************************************************)
EXTENDS Naturals

CONSTANTS
  Versions,       \* the versions there may ever be
  None            \* no version

VARIABLES
  published,      \* the versions the server has had
  installed,      \* the version the device starts
  ready           \* the version to be installed at the next start, or None

Init ==
  /\ published \subseteq Versions
  /\ installed \in published
  /\ ready = None

Publish == published \subseteq published' /\ published' \subseteq Versions
           /\ UNCHANGED <<installed, ready>>

MakeReady == ready' \in published /\ UNCHANGED <<published, installed>>

Discard == ready' = None /\ UNCHANGED <<published, installed>>

Install ==
  /\ ready # None
  /\ installed' = ready /\ ready' = None
  /\ UNCHANGED published

Next == Publish \/ MakeReady \/ Discard \/ Install

Spec == Init /\ [][Next]_<<published, installed, ready>>
=============================================================================
