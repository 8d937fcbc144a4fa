--------------------------- MODULE MCNetfilterHook ---------------------------
(* A message of each verdict, and what is read of a payload that is cut: a    *)
(* packet for each way through the hook.                                      *)
EXTENDS NetfilterHook

MCProcessMessage(m) ==
  CASE m = "good" -> {NF_ACCEPT}
    [] m = "bad"  -> {NF_DROP}
    [] m = "cut"  -> Verdicts

Frame(len, msg) == [len |-> len, msg |-> msg]

Packet(nonlinear, frame) ==
  [tcp |-> TRUE, loopback |-> TRUE, my_port |-> TRUE, psh |-> TRUE,
   nonlinear |-> nonlinear, frame |-> frame]

\* Lengths at the borders: empty, smallest, greatest accepted, first refused,
\* and one that is negative as an int.
MCFrames ==
  {Frame(1, "good"), Frame(BUFFER_SIZE - 1, "bad"), Frame(2, "cut")} \cup
  {Frame(n, "bad") : n \in {0, BUFFER_SIZE, INT_MAX + 1}}

Pushed == {Packet(nl, f) : nl \in BOOLEAN, f \in MCFrames \cup {NULL}}

MCPackets ==
  {p \in Pushed : p.nonlinear => p.frame # NULL /\ p.frame.len \in 1..BUFFER_SIZE}
  \cup {[Packet(TRUE, Frame(BUFFER_SIZE - 1, "bad")) EXCEPT !.psh = FALSE],
        [Packet(FALSE, Frame(1, "bad")) EXCEPT !.my_port = FALSE],
        [Packet(FALSE, Frame(1, "bad")) EXCEPT !.loopback = FALSE],
        [Packet(FALSE, Frame(1, "bad")) EXCEPT !.tcp = FALSE]}

=============================================================================
