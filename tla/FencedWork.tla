----------------------------- MODULE FencedWork -----------------------------
(***************************************************************************)
(* What a leased work table promises, without clocks, owners or rows.  An  *)
(* item is worked on by successive generations; a generation is either     *)
(* returned, overtaken by the next, or finishes the item for good.  An     *)
(* item is given up only when its budget of generations is spent.  In one  *)
(* step any number of items may be given up, and at most one may be taken  *)
(* or finished.                                                            *)
(***************************************************************************)
EXTENDS Integers

CONSTANT Items

VARIABLE item

Phases == {"absent", "open", "held", "done", "dead"}
Item   == [phase : Phases, gen : Nat, budget : Nat]

Init == item = [i \in Items |-> [phase |-> "absent", gen |-> 0, budget |-> 0]]

Add(a, b) ==
  a.phase = "absent" /\ b.phase = "open" /\ b.gen = 0 /\ b.budget > 0

Keeps(a, b) == b.gen = a.gen /\ b.budget = a.budget

Take(a, b) ==
  /\ a.phase \in {"open", "held"} /\ a.gen < a.budget
  /\ b = [phase |-> "held", gen |-> a.gen + 1, budget |-> a.budget]

Return(a, b) ==
  a.phase = "held" /\ b.phase = "open" /\ a.gen < a.budget /\ Keeps(a, b)

Finish(a, b) == a.phase = "held" /\ b.phase = "done" /\ Keeps(a, b)

GiveUp(a, b) ==
  a.phase = "held" /\ b.phase = "dead" /\ a.gen = a.budget /\ Keeps(a, b)

Moves(a, b) ==
  a = b \/ Add(a, b) \/ Take(a, b) \/ Return(a, b) \/ Finish(a, b) \/ GiveUp(a, b)

Served(a, b) == Take(a, b) \/ Finish(a, b)

Next ==
  /\ item' = [i \in Items |-> item'[i]]
  /\ \A i \in Items : Moves(item[i], item'[i])
  /\ \A i, j \in Items :
       Served(item[i], item'[i]) /\ Served(item[j], item'[j]) => i = j

Spec == Init /\ [][Next]_item
=============================================================================
