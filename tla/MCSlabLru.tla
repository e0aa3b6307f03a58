------------------------------ MODULE MCSlabLru ------------------------------
(* A small instance of SlabLru for TLC.                                    *)
EXTENDS SlabLru, TLC

CONSTANTS ip_a, ip_b, ip_c, ip_d

MCIp     == {ip_a, ip_b, ip_c, ip_d}
MCDenied == {ip_d}
MCSymmetry == Permutations({ip_a, ip_b, ip_c})
=============================================================================
