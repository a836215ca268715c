----------------------------- MODULE MCAppPort -----------------------------
(***************************************************************************)
(* AppPort for TLC: one DDR line of one word of one lane, which the CPU    *)
(* reads and writes and the LCD scans.                                     *)
(***************************************************************************)
EXTENDS AppPort

CONSTANTS l1

MCLine == {l1}
MCWordIdx == {0}
MCLane == {0}
MCByte == {0, 1}
MCRequests ==
  [we : BOOLEAN, line : MCLine, word : MCWordIdx, dat_w : {[i \in MCLane |-> 1]}, sel : {MCLane}]
MCFbLine == [b \in 0..FbBeats - 1 |-> l1]
NoLocks == {FALSE}

\* Progress does not depend on data: words without lanes, one request of a kind.
NoLanes == {}
BareRequests ==
  [we : BOOLEAN, line : MCLine, word : MCWordIdx, dat_w : {<<>>}, sel : {{}}]
=============================================================================
