---------------------------- MODULE MCDataDevice ----------------------------
(* Two applications, a small text and one that is larger than a pipe.      *)
EXTENDS DataDevice

CONSTANTS c1, c2
MCClients == {c1, c2}
MCSizes   == <<1, 2>>

=============================================================================
