---------------------------- MODULE RangeLookup -----------------------------
(***************************************************************************)
(* The offline tables of the network panel: countries (web/netmon/geoip.go) *)
(* and autonomous systems (web/netmon/asn.go), one table for each address  *)
(* family.  A table is a sequence of ranges sorted by their starts; both   *)
(* kinds are searched in the same way.                                     *)
(*                                                                         *)
(* An address is a number: the keys are big-endian, of one width.  Reading *)
(* a CSV line is left out; what a table is made of are the lines that      *)
(* parse.  sort.Slice is not stable, so ranges with one start come in any  *)
(* order, and a range may be empty (its end before its start).             *)
(***************************************************************************)
EXTENDS Naturals, Sequences

Range == [start : Nat, end : Nat]

\* What newCountryDB and newASNDB sort their rows to.
Table(t) ==
    /\ t \in Seq(Range)
    /\ \A i, j \in DOMAIN t : i < j => t[i].start <= t[j].start

\* maxend[i]: the running maximum of the ends, at i the greatest of the first i.
MaxEnd(t, i) ==
    CHOOSE e \in {t[k].end : k \in 1..i} : \A k \in 1..i : t[k].end <= e

Contains(r, x) == r.start <= x /\ x <= r.end

IsLast(i, S) == i \in S /\ \A j \in S : j <= i

\* The greatest of some indexes, 0 if there are none.
Last(S) == IF S = {} THEN 0 ELSE CHOOSE i \in S : IsLast(i, S)

\* sort.Search, and one index back.
LastStart(t, x) == Last({i \in DOMAIN t : t[i].start <= x})

\* The indexes the walk back from i reaches: it ends where no range at or before
\* an index ends late enough.
Reached(t, x, i) == {j \in 1..i - 1 : \A m \in j..i - 1 : MaxEnd(t, m) >= x}

\* lookup and find: the index of a range with the address, or 0.
Find(t, x) ==
    LET i == LastStart(t, x)
    IN  IF i = 0 THEN 0
        ELSE IF x <= t[i].end THEN i
        ELSE Last({j \in Reached(t, x, i) : Contains(t[j], x)})

-----------------------------------------------------------------------------
(* The two tables of a kind.                                               *)

NotParsed == <<>>

\* loadGeoIP and loadASN: both families or none.
Load(v4, v6) ==
    IF v4 = NotParsed \/ v6 = NotParsed
    THEN [ready |-> FALSE, v4 |-> NotParsed, v6 |-> NotParsed]
    ELSE [ready |-> TRUE, v4 |-> v4, v6 |-> v6]

\* country and asnLookup: the range of an address in the table of its family; an
\* address mapped into IPv6 is one of IPv4.
Resolve(db, ip) ==
    IF ~db.ready THEN 0
    ELSE Find(IF ip.family = "inet6" THEN db.v6 ELSE db.v4, ip.key)
=============================================================================
