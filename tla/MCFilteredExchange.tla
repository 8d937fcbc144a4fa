-------------------------- MODULE MCFilteredExchange --------------------------
(* Two clients and one message of each kind: whatever one client sends can   *)
(* stand before or after what the other sends.                               *)
EXTENDS FilteredExchange

CONSTANTS c1, c2, small, large

MCClients == {c1, c2}
MCMessages == {small, large}
MCDropped == {large}

=============================================================================
