--------------------------- MODULE MCChannelSync ---------------------------
(* Small instances of ChannelSync for TLC. *)
EXTENDS ChannelSync, TLC

CONSTANT r1

OneReplica == {r1}

NotInBuffer == {Foreign}
NoHandshake == {None}
Either == {1, Foreign}

\* Bound: two faults of the server in one behaviour, of any kinds; connections
\* and requests break on top of them.
TwoFaults ==
  bounds.crash + bounds.seq + bounds.append + bounds.handler + bounds.lost <= 2
=============================================================================
