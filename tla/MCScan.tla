-------------------------------- MODULE MCScan --------------------------------
(* Scan for TLC: two Preparations with an image each, one of which comes with    *)
(* an SBOM. The images are reached through one registry each.                    *)
EXTENDS Scan

Releases == 1 .. 2
OneImage == <<{"a"}, {"b"}>>
OwnRegistry == [d \in Digests |-> d]
===============================================================================
