---------------------------- MODULE MCRangeLookup ----------------------------
(***************************************************************************)
(* RangeLookup against a reference definition, on every table of up to     *)
(* three ranges over four addresses: nested, overlapping, equal and empty  *)
(* ranges among them.  TLC evaluates the assumptions with the run of the   *)
(* module that extends this one.                                           *)
(***************************************************************************)
EXTENDS RangeLookup

Address == 0..3
Ranges == [start : Address, end : Address]
Tables == {t \in UNION {[1..n -> Ranges] : n \in 0..3} : Table(t)}

\* The reference: the last range in the table that contains the address.
Reference(t, x) == Last({i \in DOMAIN t : Contains(t[i], x)})

\* The binary search and the walk back find what a scan of the table finds.
ASSUME FindIsReference == \A t \in Tables, x \in Address : Find(t, x) = Reference(t, x)

\* An address resolves in the table of its own family, and in neither when one
\* of the two did not load.
ASSUME FamiliesApart ==
    LET v4 == <<[start |-> 0, end |-> 1]>>
        v6 == <<[start |-> 0, end |-> 0], [start |-> 1, end |-> 1]>>
        Of(f) == [family |-> f, key |-> 1]
    IN  /\ Resolve(Load(v4, v6), Of("inet")) = 1
        /\ Resolve(Load(v4, v6), Of("inet6")) = 2
        /\ \A f \in {"inet", "inet6"} :
             Resolve(Load(v4, NotParsed), Of(f)) = 0 /\ Resolve(Load(NotParsed, v6), Of(f)) = 0
=============================================================================
