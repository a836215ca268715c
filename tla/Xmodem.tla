------------------------------- MODULE Xmodem ------------------------------
(***************************************************************************)
(* Loading a boot image over the serial line: the receiver in the boot ROM *)
(* (src/program/boot/xmodem.c) and the sender on the host                  *)
(* (src/program/tools/xmodem_send.py).                                     *)
(*                                                                         *)
(* The line carries bytes; noise garbles one, or spoils its framing so     *)
(* that the UART reports an error, or loses an answer.  A checksum never   *)
(* matches data it was not computed from, and noise never makes a block    *)
(* number together with its complement.  Answers take far less time than   *)
(* the receiver's one-second timeout, and that is shorter than the         *)
(* sender's: a timeout strikes only when nothing is on the line.           *)
(***************************************************************************)
EXTENDS Integers, SequencesExt

CONSTANTS
  Image,         \* the image: a sequence of blocks, each a sequence of bytes
  BlockMod,      \* block numbers wrap: 256
  MaxRetries,    \* XMODEM_MAX_RETRIES and the sender's --retries
  Noise,         \* what noise makes of a byte: another, or ERR
  MaxFaults      \* bound on what the line does to one transfer

SOH == 1
EOT == 4
ACK == 6
NAK == 21
CAN == 24
CRC_REQUEST == 67
ERR == -1        \* the UART reports a framing error or an overrun
TIMEOUT == -2

DataSize == Len(Image[1])
Byte == 0..255

\* send_image refuses an image of more than 255 blocks.
ASSUME XmodemAssumption ==
  /\ Image \in Seq(Seq(Byte)) /\ Noise \subseteq Byte \union {ERR}
  /\ BlockMod \in 2..256 /\ Len(Image) \in 1..BlockMod - 1
  /\ MaxRetries \in Nat \ {0} /\ MaxFaults \in Nat
  /\ \A n \in DOMAIN Image : Len(Image[n]) = DataSize
  /\ \A a, b \in Noise : a + b # BlockMod - 1

\* The checksum, one symbol for its two bytes: each block of the image has its
\* own, and data that is no block of the image has one that never comes.
crc16_ccitt(data) ==
  IF \E n \in DOMAIN Image : Image[n] = data
  THEN 256 + CHOOSE n \in DOMAIN Image : Image[n] = data ELSE 256

Frame(n) == <<SOH, n % BlockMod, BlockMod - 1 - (n % BlockMod)>> \o Image[n] \o <<crc16_ccitt(Image[n])>>

VARIABLES
  line, reply,       \* bytes on their way to the receiver, and to the sender
  garbled, lost,     \* what has happened to either
  s_pc, index, attempt,                                            \* sender
  r_pc, got, expected_block, stored, sync_started, sync_retries, block_retries

sender == <<s_pc, index, attempt>>
receiver == <<r_pc, got, expected_block, stored, sync_started, sync_retries, block_retries>>
xmodemVars == <<line, reply, garbled, lost, sender, receiver>>

Running == r_pc \in {"control", "second", "block"}

\* The header is in the first block and says how many blocks there are.
Complete == Len(stored) >= Len(Image)

XmodemInit ==
  /\ line = <<>> /\ reply = <<CRC_REQUEST>> /\ garbled = 0 /\ lost = 0
  /\ s_pc = "sync" /\ index = 1 /\ attempt = 1
  /\ r_pc = "control" /\ got = <<>> /\ expected_block = 1 /\ stored = <<>>
  /\ sync_started = FALSE /\ sync_retries = 1 /\ block_retries = 0

----------------------------------------------------------------------------
\* The receiver.

\* The top of the loop, after answering out; until a block has begun to come,
\* and at most MaxRetries times, the request for one goes out again.
Again(out, started) ==
  /\ r_pc' = "control" /\ got' = <<>> /\ sync_started' = started
  /\ IF ~started /\ sync_retries < MaxRetries
     THEN reply' = reply \o out \o <<CRC_REQUEST>> /\ sync_retries' = sync_retries + 1
     ELSE reply' = reply \o out /\ UNCHANGED sync_retries

Return(result, out) ==
  /\ r_pc' = result /\ reply' = reply \o out
  /\ got' = <<>> /\ UNCHANGED <<sync_started, sync_retries>>
cancel_transfer == <<CAN, CAN>>

\* One more failure: give up after MaxRetries of them in a row.
Retry(result, out, started) ==
  /\ block_retries' = block_retries + 1
  /\ IF block_retries + 1 >= MaxRetries THEN Return(result, cancel_transfer) ELSE Again(out, started)
  /\ UNCHANGED <<expected_block, stored>>

Control(c) ==
  /\ r_pc = "control"
  /\ \/ /\ c = TIMEOUT /\ UNCHANGED <<block_retries, expected_block, stored>>
        /\ IF sync_retries >= MaxRetries THEN Return("timeout", cancel_transfer)
           ELSE Again(<<>>, sync_started)
     \/ c = ERR /\ Retry("uart", <<NAK>>, sync_started)
     \/ /\ c = CAN /\ r_pc' = "second"
        /\ UNCHANGED <<got, expected_block, stored, sync_started, sync_retries, block_retries, reply>>
     \/ /\ c = EOT
        /\ IF Complete THEN Return("ok", <<ACK>>) ELSE Return("image", cancel_transfer)
        /\ UNCHANGED <<block_retries, expected_block, stored>>
     \/ /\ c = SOH
        /\ r_pc' = "block" /\ sync_started' = TRUE
        /\ UNCHANGED <<got, expected_block, stored, sync_retries, block_retries, reply>>
     \/ c \notin {TIMEOUT, ERR, CAN, EOT, SOH} /\ Retry("protocol", <<>>, sync_started)

SecondCan(c) ==
  /\ r_pc = "second"
  /\ IF c = CAN THEN Return("cancelled", <<>>) ELSE Again(<<>>, sync_started)
  /\ UNCHANGED <<block_retries, expected_block, stored>>

\* store_block: a block past the end of the image is refused.
Store(data) ==
  IF Complete
  THEN Return("image", cancel_transfer) /\ UNCHANGED <<block_retries, expected_block, stored>>
  ELSE /\ stored' = Append(stored, data)
       /\ expected_block' = (expected_block + 1) % BlockMod /\ block_retries' = 0
       /\ Again(<<ACK>>, sync_started)

\* Mutant: a block that comes a second time is stored a second time.
BlockEnd_stores_duplicates(b) ==
  IF b[1] + b[2] # BlockMod - 1 \/ b[DataSize + 3] # crc16_ccitt(SubSeq(b, 3, DataSize + 2))
  THEN Retry("crc", <<NAK>>, sync_started)
  ELSE Store(SubSeq(b, 3, DataSize + 2))

\* Mutant: a block that comes a second time is refused like any other.
BlockEnd_refuses_duplicates(b) ==
  IF b[1] + b[2] # BlockMod - 1 \/ b[DataSize + 3] # crc16_ccitt(SubSeq(b, 3, DataSize + 2))
  THEN Retry("crc", <<NAK>>, sync_started)
  ELSE IF b[1] # expected_block THEN Retry("protocol", <<NAK>>, sync_started)
  ELSE Store(SubSeq(b, 3, DataSize + 2))

\* What the loop does with a frame whose bytes have all come in.
BlockEnd(b) ==
  IF b[1] + b[2] # BlockMod - 1 \/ b[DataSize + 3] # crc16_ccitt(SubSeq(b, 3, DataSize + 2))
  THEN Retry("crc", <<NAK>>, sync_started)
  ELSE IF b[1] = (expected_block - 1) % BlockMod
  THEN /\ block_retries' = 0 /\ Again(<<ACK>>, sync_started)
       /\ UNCHANGED <<expected_block, stored>>
  ELSE IF b[1] # expected_block THEN Retry("protocol", <<NAK>>, sync_started)
  ELSE Store(SubSeq(b, 3, DataSize + 2))

\* receive_block: a byte that does not come ends it, but the block number and
\* its complement are both waited for.
Block(c) ==
  /\ r_pc = "block"
  /\ LET b == Append(got, c)
         failed == Len(b) >= 2 /\ \E i \in DOMAIN b : b[i] < 0
     IN IF failed THEN Retry("byte", <<NAK>>, sync_started)
        ELSE IF Len(b) < DataSize + 3
        THEN /\ got' = b
             /\ UNCHANGED <<r_pc, expected_block, stored, sync_started, sync_retries, block_retries, reply>>
        ELSE BlockEnd(b)

Receive(c) == Control(c) \/ SecondCan(c) \/ Block(c)

\* getc_timeout.
GetByte ==
  /\ line # <<>> /\ Receive(Head(line))
  /\ line' = Tail(line)
  /\ UNCHANGED <<garbled, lost, sender>>

Timeout ==
  /\ line = <<>> /\ reply = <<>> /\ Receive(TIMEOUT)
  /\ UNCHANGED <<line, garbled, lost, sender>>

----------------------------------------------------------------------------
\* The sender.

\* What an answer, or none, means for what was sent last.
Outcome(c) ==
  CASE c = ACK -> "next"
    [] c \in {NAK, TIMEOUT} /\ attempt < MaxRetries -> "again"
    [] OTHER -> "fail"

Fail == s_pc' = "failed" /\ UNCHANGED <<index, attempt, line>>
SendFrame(n, try) ==
  s_pc' = "block" /\ index' = n /\ attempt' = try /\ line' = line \o Frame(n)
SendEot(try) == s_pc' = "eot" /\ attempt' = try /\ line' = Append(line, EOT) /\ UNCHANGED index

\* wait_for_crc_request
Sync(c) ==
  /\ s_pc = "sync"
  /\ IF c = CRC_REQUEST THEN SendFrame(1, 1)
     ELSE IF c = TIMEOUT THEN Fail ELSE UNCHANGED <<sender, line>>

SendBlock(c) ==
  /\ s_pc = "block"
  /\ CASE Outcome(c) = "next" -> IF index < Len(Image) THEN SendFrame(index + 1, 1) ELSE SendEot(1)
       [] Outcome(c) = "again" -> SendFrame(index, attempt + 1)
       [] Outcome(c) = "fail" -> Fail

EndTransfer(c) ==
  /\ s_pc = "eot"
  /\ CASE Outcome(c) = "next" -> s_pc' = "done" /\ UNCHANGED <<index, attempt, line>>
       [] Outcome(c) = "again" -> SendEot(attempt + 1)
       [] Outcome(c) = "fail" -> Fail

Answer(c) == Sync(c) \/ SendBlock(c) \/ EndTransfer(c)

GetAnswer ==
  /\ reply # <<>> /\ Answer(Head(reply))
  /\ reply' = Tail(reply)
  /\ UNCHANGED <<garbled, lost, receiver>>

\* The receiver, whose timeouts are shorter, has nothing left to say.
NoAnswer ==
  /\ line = <<>> /\ reply = <<>>
  /\ r_pc = "control" => sync_started
  /\ r_pc \notin {"block", "second"}
  /\ Answer(TIMEOUT)
  /\ UNCHANGED <<reply, garbled, lost, receiver>>

----------------------------------------------------------------------------
\* The line.

Garble ==
  /\ garbled + lost < MaxFaults /\ garbled' = garbled + 1
  /\ \E i \in DOMAIN line, b \in Noise : line' = [line EXCEPT ![i] = b]
  /\ UNCHANGED <<reply, lost, sender, receiver>>

LoseAnswer ==
  /\ garbled + lost < MaxFaults /\ lost' = lost + 1
  /\ reply # <<>> /\ reply' = Tail(reply)
  /\ UNCHANGED <<line, garbled, sender, receiver>>

XmodemNext == GetByte \/ Timeout \/ GetAnswer \/ NoAnswer \/ Garble \/ LoseAnswer

XmodemSpec == XmodemInit /\ [][XmodemNext]_xmodemVars

\* Both programs run; the line need not do anything.
ReceiverStep == GetByte \/ Timeout
SenderStep == GetAnswer \/ NoAnswer
XmodemFairness == WF_xmodemVars(ReceiverStep) /\ WF_xmodemVars(SenderStep)

----------------------------------------------------------------------------
\* Properties

\* What has been stored is the beginning of the image, each block once and in
\* its place, whatever was repeated, damaged or taken for something else, and
\* the loader reports success only with the whole of it in memory.
LoadedWhole == IsPrefix(stored, Image) /\ (r_pc = "ok" => stored = Image)

\* Lost answers, fewer of them than the programs try again, only delay the
\* loading: requests and blocks are sent again, and a block that comes twice is
\* acknowledged and not stored.
LoadSucceeds == [](garbled = 0 /\ lost < MaxRetries) => <>(r_pc = "ok")
=============================================================================
