------------------------------ MODULE IpPrefix ------------------------------
(***************************************************************************)
(* Addresses, prefixes and networks (prefix_t of                           *)
(* src/src/libpatricia/patricia.hpp, subnet_cidr_mask_t of                 *)
(* src/src/fastnetmon_networks.hpp).  An address is a function from bit    *)
(* positions, the most significant first, to 0 and 1.  A prefix is an      *)
(* address and a length; the bits past the length are its host bits, which *)
(* the program keeps but which do not tell two networks apart.             *)
(***************************************************************************)
EXTENDS Naturals

CONSTANT MaxBits    \* maxbits of the tree: 32 or 128 in the program

ASSUME MaxBitsAssumption == MaxBits \in Nat \ {0}

Address == [0 .. MaxBits - 1 -> {0, 1}]
Prefix  == [addr : Address, bitlen : 0 .. MaxBits]

\* comp_with_mask: the first n bits of two addresses are the same.
comp_with_mask(a, b, n) == \A i \in 0 .. n - 1 : a[i] = b[i]

\* The network address under convert_cidr_to_binary_netmask: host bits cleared.
Network(p) == [p EXCEPT !.addr = [i \in 0 .. MaxBits - 1 |->
                                     IF i < p.bitlen THEN p.addr[i] ELSE 0]]

Covers(n, p) == n.bitlen <= p.bitlen /\ comp_with_mask(n.addr, p.addr, n.bitlen)
=============================================================================
