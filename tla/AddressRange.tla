---------------------------- MODULE AddressRange ----------------------------
(***************************************************************************)
(* IPv4 subnets and ranges of hosts as people type them for a discovery or *)
(* an exclusion (internal/nocdata/range.go).  An end of a range is an      *)
(* address, or one number that stands for an octet of the subnet; a single *)
(* host is a range from itself to itself.                                  *)
(***************************************************************************)
EXTENDS Integers

Octet == 0 .. 255
Address == [1 .. 4 -> Octet]
Number == [1 .. 1 -> Octet]
Target == [ip : Address, ones : 0 .. 32, lo : Number \cup Address, hi : Number \cup Address]

(* How many values of octet i share its bits under the mask.  The powers   *)
(* are a table: the provers know nothing of 2 ^ k.                         *)
PowerOf2 == <<2, 4, 8, 16, 32, 64, 128>>
Block(ones, i) ==
    IF ones >= 8 * i THEN 1 ELSE IF ones <= 8 * i - 8 THEN 256
    ELSE PowerOf2[8 * i - ones]

Masked(ones, ip) == [i \in 1 .. 4 |-> ip[i] - (ip[i] % Block(ones, i))]
Network(t) == Masked(t.ones, t.ip)
Contains(t, ip) == Masked(t.ones, ip) = Network(t)

shorthandHostOctetIndex(ones) == IF ones = 8 THEN 2 ELSE IF ones = 16 THEN 3 ELSE 4

(* The octet a number stands for depends on the mask; those after it are 0. *)
parseRangeEndpoint(t, end) ==
    LET octet == shorthandHostOctetIndex(t.ones) IN
    IF end \in Address THEN end
    ELSE [i \in 1 .. 4 |-> IF i < octet THEN Network(t)[i] ELSE IF i = octet THEN end[1] ELSE 0]

(* compareIPv4(a, b) < 0: the first octet that differs decides.            *)
Before(a, b) == \E i \in 1 .. 4 : a[i] < b[i] /\ \A k \in 1 .. i - 1 : a[k] = b[k]

Start(t) == parseRangeEndpoint(t, t.lo)
End(t) == parseRangeEndpoint(t, t.hi)

(* No error: both ends are in the subnet and in order.                     *)
parseRangeBounds(t) ==
    Contains(t, Start(t)) /\ Contains(t, End(t)) /\ ~Before(End(t), Start(t))

HostMatchesIPv4Spec(t, ip) ==
    /\ Contains(t, ip) /\ parseRangeBounds(t)
    /\ ~Before(ip, Start(t)) /\ ~Before(End(t), ip)

ipv4ToUint32(ip) == ((ip[1] * 256 + ip[2]) * 256 + ip[3]) * 256 + ip[4]

(* The walk counts from the number of one end to that of the other and     *)
(* stops when its 32-bit counter is past the end.  No counter is past      *)
(* LastAddress: a walk that ends there wraps and comes by every address,   *)
(* again and again.                                                        *)
LastAddress == [i \in 1 .. 4 |-> 255]
WalkEnds(t) == End(t) # LastAddress
WalkIPv4Range(t, ip) ==
    \/ ~WalkEnds(t)
    \/ ipv4ToUint32(ip) \in ipv4ToUint32(Start(t)) .. ipv4ToUint32(End(t))
=============================================================================
