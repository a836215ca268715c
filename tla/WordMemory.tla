---------------------------- MODULE WordMemory -----------------------------
(***************************************************************************)
(* What a bus master may rely on when it talks to DDR: a memory of words   *)
(* that takes one request at a time, performs it atomically at some moment *)
(* between accepting and acknowledging it, and acknowledges it exactly     *)
(* once, a read with the word it found.  A write touches only the byte     *)
(* lanes it selects.  This is the contract of wb_if as the CPU uses it     *)
(* (src/rtl/lib/bus_if.sv, src/rtl/core/cpu.sv), and what DdrBridge is     *)
(* shown to implement.                                                     *)
(***************************************************************************)
CONSTANTS Line, WordIdx, Lane, Byte, Requests, NoAck

Word == [Lane -> Byte]

VARIABLES
  mem,      \* mem[l][w]: the word at line l, word w
  phase,    \* of the one request: "idle", "accepted", "performed"
  cur,      \* the request last accepted
  found,    \* the word the last read performed found
  ack       \* what the master sees: NoAck, or the data of an acknowledgement

wmVars == <<mem, phase, cur, found, ack>>

Init ==
  /\ mem \in [Line -> [WordIdx -> Word]]
  /\ phase = "idle" /\ ack = NoAck
  /\ cur \in [we : BOOLEAN, line : Line, word : WordIdx, dat_w : Word, sel : SUBSET Lane]
  /\ found \in Word

Accept(r) ==
  /\ phase = "idle" /\ ack = NoAck
  /\ phase' = "accepted" /\ cur' = r
  /\ UNCHANGED <<mem, found, ack>>

\* The byte lanes of word w the request selects take its data.
Written(w) == [i \in Lane |-> IF i \in cur.sel THEN cur.dat_w[i] ELSE w[i]]

Perform ==
  /\ phase = "accepted" /\ phase' = "performed"
  /\ IF cur.we
     THEN /\ mem' = [mem EXCEPT ![cur.line][cur.word] = Written(@)]
          /\ UNCHANGED found
     ELSE /\ found' = mem[cur.line][cur.word]
          /\ UNCHANGED mem
  /\ UNCHANGED <<cur, ack>>

\* An acknowledged read carries the word it found; a write carries the word
\* the last read found.
Acknowledge ==
  /\ phase = "performed" /\ phase' = "idle"
  /\ ack' = found
  /\ UNCHANGED <<mem, cur, found>>

\* The acknowledgement lasts one cycle.
EndAck ==
  /\ ack # NoAck /\ ack' = NoAck
  /\ UNCHANGED <<mem, phase, cur, found>>

Next == (\E r \in Requests : Accept(r)) \/ Perform \/ Acknowledge \/ EndAck

Spec == Init /\ [][Next]_wmVars
=============================================================================
