---------------------------- MODULE AtomicStore -----------------------------
(***************************************************************************)
(* What the params store promises: whoever reads a key finds a whole value, *)
(* it changes in one step, and a loss of power takes back only what nobody *)
(* was told is kept.                                                       *)
(***************************************************************************)
CONSTANTS
  Keys,
  Values,
  None            \* what reading an absent key gives

VARIABLES
  store,          \* store[k]: the value of k
  kept            \* kept[k]: the values k may have after a loss of power

Init ==
  /\ store = [k \in Keys |-> None]
  /\ kept = [k \in Keys |-> {None}]

Write(k, v) ==
  /\ store' = [store EXCEPT ![k] = v]
  /\ kept' = [kept EXCEPT ![k] = @ \cup {v}]

Confirm(K) ==
  /\ kept' = [k \in Keys |-> IF k \in K THEN {store[k]} ELSE kept[k]]
  /\ UNCHANGED store

PowerLoss ==
  /\ store' \in [Keys -> Values \cup {None}]
  /\ \A k \in Keys : store'[k] \in kept[k]
  /\ kept' = [k \in Keys |-> {store'[k]}]

Next ==
  \/ \E k \in Keys, v \in Values \cup {None} : Write(k, v)
  \/ \E K \in SUBSET Keys : Confirm(K)
  \/ PowerLoss

Spec == Init /\ [][Next]_<<store, kept>>
=============================================================================
