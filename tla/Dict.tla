---------------------------------- MODULE Dict ---------------------------------
(***************************************************************************)
(* What the users of Jsi_Hash rely on: a finite map from keys to values,   *)
(* in which a key that was put is found until it is removed, with the      *)
(* value put last, and whose size is the number of keys.  A key may be     *)
(* there with no value (None).                                             *)
(***************************************************************************)
EXTENDS FiniteSets

CONSTANTS Keys, Values, None

VARIABLES present,   \* the keys of the map
          value,     \* the value of every key that is present
          answer     \* what the last operation returned

Reply(op, k, res) == [op |-> op, key |-> k, res |-> res]

Init == /\ present = {}
        /\ value = [k \in Keys |-> None]
        /\ answer = Reply("none", None, None)

\* A key is created, or found, and given a value or left with the one it has.
Put(k) ==
  /\ present' = present \cup {k}
  /\ answer' = Reply("put", k, k \notin present)
  /\ \/ \E v \in Values : value' = [value EXCEPT ![k] = v]
     \/ k \in present /\ UNCHANGED value
     \/ k \notin present /\ value' = [value EXCEPT ![k] = None]

Get(k) ==
  /\ answer' = Reply("get", k, IF k \in present THEN value[k] ELSE None)
  /\ UNCHANGED <<present, value>>

Has(k) ==
  /\ answer' = Reply("has", k, k \in present)
  /\ UNCHANGED <<present, value>>

Remove(k) ==
  /\ k \in present
  /\ present' = present \ {k}
  /\ value' = [value EXCEPT ![k] = None]
  /\ answer' = Reply("remove", k, None)

Size == /\ answer' = Reply("size", None, Cardinality(present))
        /\ UNCHANGED <<present, value>>

Next == Size \/ \E k \in Keys : Put(k) \/ Get(k) \/ Has(k) \/ Remove(k)

Spec == Init /\ [][Next]_<<present, value, answer>>

=============================================================================
