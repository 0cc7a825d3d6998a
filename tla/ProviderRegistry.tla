--------------------------- MODULE ProviderRegistry ---------------------------
(***************************************************************************)
(* What the provider store promises a caller who has it to itself: a table *)
(* of provider records in which a record is registered, one of its fields  *)
(* is set, or it is removed, each in one step.  ProviderStore.tla is the   *)
(* code's implementation, several database calls per operation.            *)
(***************************************************************************)
CONSTANTS
  Providers,  \* provider ids
  Values,     \* the values a field can take; two values differ or are equal
  Unset,      \* the value of a field nobody has written
  Absent      \* the table entry of an id with no row

\* The parts of a provider that are written independently of each other.
\* "account" is the surface, credential reference and custom endpoint, which
\* only CreateProvider writes.
Settable == {"name", "models", "catalog", "quota"}
Fields == Settable \cup {"account"}
Payloads == [Fields -> Values \cup {Unset}]

\* A provider as the connect paths build it: it has never been probed.
NewPayloads ==
  {v \in Payloads : /\ v["name"] # Unset
                    /\ v["account"] # Unset
                    /\ v["catalog"] = Unset
                    /\ v["quota"] = Unset}

VARIABLE table

Init == table = [p \in Providers |-> Absent]

Register(p) == \E v \in NewPayloads : table' = [table EXCEPT ![p] = v]

Set(p, f) ==
  /\ table[p] # Absent
  /\ \E v \in Values : table' = [table EXCEPT ![p] = [@ EXCEPT ![f] = v]]

Remove(p) == table' = [table EXCEPT ![p] = Absent]

Next ==
  \E p \in Providers :
    \/ Register(p)
    \/ \E f \in Settable : Set(p, f)
    \/ Remove(p)

Spec == Init /\ [][Next]_table
===============================================================================
