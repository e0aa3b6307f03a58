------------------------------ MODULE MCPodRate ------------------------------
(* Small pools of guests for TLC.                                          *)
EXTENDS PodRate

CONSTANTS ip_a, ip_b, g1, g2

MCIp     == {ip_a, ip_b}
MCGuests == {g1, g2}
=============================================================================
