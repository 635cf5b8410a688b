---------------------------- MODULE TeamBalance ----------------------------
(***************************************************************************)
(* lang/python/make_team.py: values are dealt to groups from the highest   *)
(* to the lowest, each to a group whose sum is the least so far.  The code *)
(* sorts the groups before each value and takes the first; which of equal  *)
(* groups that is does not matter here and is left open.  A group is the   *)
(* set of the places of its values.                                        *)
(***************************************************************************)
EXTENDS Integers

CONSTANTS Groups,   \* range(1, groups + 1)
          N,        \* how many values
          Values    \* what randint gives

ASSUME TeamAssumption == N \in Nat /\ Values \subseteq Nat

VARIABLES values,   \* sorted
          next,     \* the place of the one to be dealt
          group,    \* load_balance_groups
          load      \* the sum of each

teamVars == <<values, next, group, load>>

\* values.sort() without the reverse.
Sorted_slip(v) == \A j, k \in 1 .. N : j < k => v[j] <= v[k]
Sorted(v)      == \A j, k \in 1 .. N : j < k => v[j] >= v[k]

TeamInit == /\ values \in {v \in [1 .. N -> Values] : Sorted(v)}
            /\ next = 1
            /\ group = [g \in Groups |-> {}] /\ load = [g \in Groups |-> 0]

append(g) == /\ group' = [group EXCEPT ![g] = @ \cup {next}]
             /\ load' = [load EXCEPT ![g] = @ + values[next]]

deal == /\ next <= N
        /\ \E g \in Groups : /\ \A h \in Groups : load[g] <= load[h]
                             /\ append(g)
        /\ next' = next + 1
        /\ UNCHANGED values

TeamSpec == TeamInit /\ [][deal]_teamVars

-----------------------------------------------------------------------------
(* Properties.                                                             *)

TeamTypeOK == /\ values \in [1 .. N -> Values]
              /\ next \in 1 .. N + 1
              /\ group \in [Groups -> SUBSET (1 .. next - 1)]
              /\ load \in [Groups -> Nat]

\* At any time, a value that leaves its group, for whichever other, leaves it
\* no fuller than that other is already: no single move makes the fullest group
\* and the one it goes to more equal (make_team.py:9, 15-17).
NoMoveHelps ==
  \A g, h \in Groups : \A k \in group[g] : load[g] - values[k] <= load[h]
=============================================================================
