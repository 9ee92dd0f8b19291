---------------------------- MODULE RunContract ----------------------------
(***************************************************************************)
(* What an acquisition run promises to whoever started it, without its     *)
(* threads: frames are accepted one after the other, they reach the disk   *)
(* in exactly that order, each under the number of its place, and a run    *)
(* that ends "clean" has every accepted frame on disk.                     *)
(***************************************************************************)
EXTENDS Integers, Sequences

CONSTANT Frame

VARIABLES accepted, \* the frames the run took in, in order
          stored,   \* <<number, frame>> for every frame on disk
          outcome   \* "on" until the run returns "clean" or "failed"

vars == <<accepted, stored, outcome>>

\* The first n accepted frames under their numbers.
Prefix(n) == {<<i, accepted[i + 1]>> : i \in 0 .. n - 1}

Init == accepted = <<>> /\ stored = {} /\ outcome = "on"

Accept ==
  /\ outcome = "on"
  /\ \E f \in Frame : accepted' = Append(accepted, f)
  /\ UNCHANGED <<stored, outcome>>

Store ==
  /\ outcome = "on"
  /\ \E n \in 0 .. Len(accepted) - 1 :
       stored = Prefix(n) /\ stored' = Prefix(n + 1)
  /\ UNCHANGED <<accepted, outcome>>

Return ==
  /\ outcome = "on"
  /\ outcome' \in {"clean", "failed"}
  /\ outcome' = "clean" => stored = Prefix(Len(accepted))
  /\ UNCHANGED <<accepted, stored>>

Next == Accept \/ Store \/ Return

Spec == Init /\ [][Next]_vars
=============================================================================
