------------------------------ MODULE AddrBook ------------------------------
(***************************************************************************)
(* What the address manager promises about network addresses, without      *)
(* buckets, identifiers and positions: an address is unknown, new or tried, *)
(* only a new address is forgotten and only to make room for another one,  *)
(* and a tried address that makes room for another one is new again.       *)
(***************************************************************************)
EXTENDS FiniteSets, Integers

CONSTANT Addrs  \* the network addresses (CNetAddr, without a port)

VARIABLES
    status,  \* what is known of every address
    saved    \* what peers.dat says of every address

book == <<status, saved>>

Unknown == [a \in Addrs |-> "unknown"]
New == {a \in Addrs : status[a] = "new"}
Tried == {a \in Addrs : status[a] = "tried"}

Init ==
    /\ status = Unknown
    /\ saved = Unknown

\* At most one address, chosen from S, makes room for another one.
AtMostOneOf(S) == {R \in SUBSET S : Cardinality(R) <= 1}

\* Somebody names the address a that has not been tried.
Learn(a) ==
    /\ a \notin Tried
    /\ \E dropped \in AtMostOneOf(New \ {a}) :
          status' = [x \in Addrs |-> IF x = a THEN "new"
                                     ELSE IF x \in dropped THEN "unknown"
                                     ELSE status[x]]
    /\ UNCHANGED saved

\* A connection to the new address a has worked.
Promote(a) ==
    /\ a \in New
    /\ \E demoted \in AtMostOneOf(Tried) :
          status' = [x \in Addrs |-> IF x = a THEN "tried"
                                     ELSE IF x \in demoted THEN "new"
                                     ELSE status[x]]
    /\ UNCHANGED saved

Save ==
    /\ saved' = status
    /\ UNCHANGED status

\* The program starts again, with the saved addresses or, when peers.dat
\* cannot be read, with none.
Restart ==
    /\ status' \in {saved, Unknown}
    /\ UNCHANGED saved

Next ==
    \/ \E a \in Addrs : Learn(a) \/ Promote(a)
    \/ Save
    \/ Restart

Spec == Init /\ [][Next]_book

=============================================================================
