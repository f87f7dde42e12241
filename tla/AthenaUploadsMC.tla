-------------------------- MODULE AthenaUploadsMC --------------------------
(***************************************************************************)
(* An instance of AthenaUploads: athenad, with sunnylinkd beside it.       *)
(***************************************************************************)
EXTENDS AthenaUploads

CONSTANTS
  athenad, sunnylinkd,
  SunnyThreads      \* the threads of sunnylinkd

OfThread == [t \in Threads |-> IF t \in SunnyThreads THEN sunnylinkd ELSE athenad]
=============================================================================
