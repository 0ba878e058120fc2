------------------------------ MODULE MCAddrMan ------------------------------
(***************************************************************************)
(* Addresses and buckets for AddrMan: few enough buckets, with few enough  *)
(* places, that they are full, that two sources give one address different *)
(* buckets and that the home bucket of an evicted entry may be full.  x2 is *)
(* the address of x1 with another port.                                    *)
(***************************************************************************)
EXTENDS AddrMan

CONSTANTS x1, x2, y1, z1, x, y, z, s, t

MCServices == {x1, x2, y1, z1}
MCAddrs == {x, y, z}
MCAddrOf == [p \in MCServices |-> CASE p = y1 -> y [] p = z1 -> z [] OTHER -> x]
MCSources == {s, t}

\* The source s names x and y for bucket 0 and z for bucket 1; t the other way.
MCNewBucketOf ==
    [p \in MCServices \X MCSources |-> IF (p[1] = z1) = (p[2] = t) THEN 0 ELSE 1]
MCTriedBucketOf == [p \in MCServices |-> 0]

=============================================================================
