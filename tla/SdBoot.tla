------------------------------- MODULE SdBoot -------------------------------
(***************************************************************************)
(* Booting from the SD card: the shell's sdload (app/main.c), the FAT      *)
(* loader (boot/fatboot.c, boot/boot_image.c), the card driver             *)
(* (drivers/sdcard.c), the host (rtl/peripheral/sdhost_mmio.sv) and, as    *)
(* external, a card that may fail to hear, to answer or to be understood.  *)
(*                                                                         *)
(* Contents are counted in units, of which a sector has SectorUnits and    *)
(* the image's header takes one.  A sector is a record with one field for  *)
(* each thing the loader may take it for.  Numbers of sectors wrap as a    *)
(* uint32_t does.  The host's steps are its states; the two of sending a   *)
(* command, the two of an answer and the four of a block are one each.     *)
(***************************************************************************)
EXTENDS Integers, SequencesExt

CONSTANTS Cards,         \* a sequence of cards: hc (addressed by sector, not
                         \* by unit), blocks, and what is to come of loading:
                         \* rc and payload
          Blank,         \* a sector of zeroes
          SectorUnits,   \* 512 bytes
          FatPer,        \* entries of the table in a sector
          EndOfChain,    \* 0x0FFFFFF8
          LbaMod,        \* 2^32
          Room,          \* BOOT_IMAGE_LOAD_LIMIT less the load address
          InitTries,     \* turns of the loop over CMD41
          MaxAttempts,   \* of reading a block
          MaxNoise,      \* bound: the faults of the card and its wires
          MaxBoots       \* bound: how often the user asks

ASSUME SdBootAssumption ==
    /\ {SectorUnits, FatPer, LbaMod, InitTries, MaxAttempts} \subseteq Nat \ {0}
    /\ {EndOfChain, Room, MaxNoise, MaxBoots} \subseteq Nat
    /\ EndOfChain + SectorUnits < LbaMod

VARIABLES state, status, cmd_idx, cmd_arg,      \* the host
          op_read, op_error, resp0, data_buf,
          card, mode, sent, answer,             \* the card and the wires
          noise, early,     \* faults so far, and whether any was not a read's
          drv,              \* where sd_cmd is
          g_rca, g_high_capacity,
          b,                \* the loader's variables
          boots

hostVars   == <<state, status, cmd_idx, cmd_arg, op_read, op_error, resp0, data_buf>>
cardVars   == <<card, mode, sent, answer, noise, early>>
driverVars == <<drv, g_rca, g_high_capacity, b, boots>>
sdVars     == <<hostVars, cardVars, driverVars>>

Garbled == -1
Flags   == {"ready", "hc", "rca"}     \* the bits of an answer that are looked at

-----------------------------------------------------------------------------
(* The card.  It answers what its mode allows, and may take its time to    *)
(* be ready.                                                               *)

Answer(m, r) == {[mode |-> m, resp |-> r]}
Answers(cmd, arg) ==
    CASE cmd \in {8, 55} /\ mode = "idle" -> Answer("idle", {})
      [] cmd = 41 /\ mode = "idle" ->
            Answer("idle", {}) \cup
            Answer("ready", {"ready"} \cup IF Cards[card].hc THEN {"hc"} ELSE {})
      [] cmd = 2 /\ mode = "ready" -> Answer("ident", {})
      [] cmd = 3 /\ mode = "ident" -> Answer("stby", {"rca"})
      [] cmd = 7 /\ mode = "stby" /\ arg = 1 -> Answer("tran", {})
      [] cmd \in {16, 17} /\ mode = "tran" -> Answer("tran", {})
      [] OTHER -> {}

(* The sectors a read address stands for: one, or none.                    *)
Addressed(arg) ==
    {n \in DOMAIN Cards[card].blocks :
        arg = IF Cards[card].hc THEN n ELSE n * SectorUnits}

Noise == /\ noise < MaxNoise /\ noise' = noise + 1
         /\ early' = (early \/ sent[1] # 17)
Quiet == UNCHANGED <<noise, early>>

-----------------------------------------------------------------------------
(* The host *)

DoneStatus(err) == (status \cap {"READ"}) \cup {"DONE"} \cup IF err THEN {"ERR"} ELSE {}

(* S_DONE is entered, and the status register follows at once.             *)
Finish(err) ==
    /\ state' = "S_DONE" /\ op_error' = err /\ status' = DoneStatus(err)

(* The host's own S_IDLE, where a command starts.                          *)
(* Mutant: the error of the last command stays.                            *)
HostIdle_keeps_error ==
    /\ state = "S_IDLE" /\ "BUSY" \in status /\ "DONE" \notin status
    /\ state' = "S_CMD_BITS"
    /\ sent' = <<cmd_idx, cmd_arg>>
    /\ resp0' = {} /\ op_read' = ("READ" \in status)
    /\ UNCHANGED <<op_error, status, cmd_idx, cmd_arg, data_buf, card, mode, answer, noise, early>>

HostIdle ==
    /\ state = "S_IDLE" /\ "BUSY" \in status /\ "DONE" \notin status
    /\ state' = "S_CMD_BITS"
    /\ sent' = <<cmd_idx, cmd_arg>>
    /\ resp0' = {} /\ op_read' = ("READ" \in status) /\ op_error' = FALSE
    /\ UNCHANGED <<status, cmd_idx, cmd_arg, data_buf, card, mode, answer, noise, early>>

S_CMD_BITS ==
    /\ state = "S_CMD_BITS"
    /\ IF cmd_idx = 0
       THEN /\ Finish(op_error) /\ answer' = {}
            /\ \/ mode' = "idle" /\ Quiet
               \/ Noise /\ UNCHANGED mode
       ELSE /\ state' = "S_RESP_WAIT" /\ UNCHANGED <<op_error, status>>
            /\ LET as == Answers(sent[1], sent[2])
               IN  \/ \E a \in as : mode' = a.mode /\ answer' = {a.resp} /\ Quiet
                   \/ as = {} /\ answer' = {} /\ UNCHANGED mode /\ Quiet
                   \/ as # {} /\ answer' = {} /\ UNCHANGED mode /\ Noise
    /\ UNCHANGED <<cmd_idx, cmd_arg, op_read, resp0, data_buf, card, sent>>

(* The answer's own checksum is not looked at.  Only what CMD3 and CMD41   *)
(* answer is read by anybody.                                              *)
S_RESP_WAIT ==
    /\ state = "S_RESP_WAIT"
    /\ \/ /\ \/ resp0' \in answer /\ Quiet
             \/ answer # {} /\ sent[1] \in {3, 41} /\ resp0' \in SUBSET Flags /\ Noise
          /\ CASE op_read -> state' = "S_DATA_WAIT" /\ UNCHANGED <<op_error, status>>
               [] ~op_read /\ cmd_idx = 7 -> state' = "S_BUSY_WAIT" /\ UNCHANGED <<op_error, status>>
               [] ~op_read /\ cmd_idx # 7 -> Finish(op_error)
       \/ Finish(TRUE) /\ UNCHANGED resp0 /\ IF answer = {} THEN Quiet ELSE Noise
    /\ UNCHANGED <<cmd_idx, cmd_arg, op_read, data_buf, card, mode, sent, answer>>

S_BUSY_WAIT ==
    /\ state = "S_BUSY_WAIT"
    /\ \/ Finish(op_error) /\ Quiet
       \/ Finish(TRUE) /\ Noise
    /\ UNCHANGED <<cmd_idx, cmd_arg, op_read, resp0, data_buf, card, mode, sent, answer>>

(* Mutant: the block's checksum is not looked at.                          *)
S_DATA_END_unchecked(good) == Finish(op_error)

S_DATA_END(good) == Finish(op_error \/ ~good)

S_DATA_WAIT ==
    /\ state = "S_DATA_WAIT"
    /\ \/ data_buf' \in Addressed(sent[2]) /\ S_DATA_END(TRUE) /\ Quiet
       \/ Addressed(sent[2]) # {} /\ data_buf' = Garbled /\ S_DATA_END(FALSE) /\ Noise
       \/ /\ Finish(TRUE) /\ UNCHANGED data_buf
          /\ IF Addressed(sent[2]) = {} THEN Quiet ELSE Noise
    /\ UNCHANGED <<cmd_idx, cmd_arg, op_read, resp0, card, mode, sent, answer>>

S_DONE ==
    /\ state = "S_DONE" /\ state' = "S_IDLE"
    /\ UNCHANGED <<status, cmd_idx, cmd_arg, op_read, op_error, resp0, data_buf, cardVars>>

HostStep ==
    /\ HostIdle \/ S_CMD_BITS \/ S_RESP_WAIT \/ S_BUSY_WAIT \/ S_DATA_WAIT \/ S_DONE
    /\ UNCHANGED driverVars

(* A write of the control register.  In S_DONE the host's own assignment   *)
(* comes last; a start while busy is ignored.                              *)
WriteCtrl(bits) ==
    status' = CASE state = "S_DONE" -> DoneStatus(op_error)
                [] state # "S_DONE" /\ "START" \in bits /\ "BUSY" \notin status ->
                     {"BUSY"} \cup (bits \cap {"READ"})
                [] OTHER -> IF "CLEAR" \in bits THEN status \ {"DONE", "ERR"} ELSE status

-----------------------------------------------------------------------------
(* The loader.  b.at says what the block being read is for.                *)

NotCalled == [at |-> "none", cmd |-> 0, arg |-> 0, read |-> FALSE]
sd_cmd(cmd, arg, read_block) ==
    drv' = [at |-> "clear", cmd |-> cmd, arg |-> arg, read |-> read_block]

Start == [at |-> "init", tries |-> 0, attempt |-> 0, part |-> 0, fat |-> 0,
          data |-> 0, spc |-> 0, cluster |-> 0, first |-> 0, s |-> 0,
          size |-> 0, remaining |-> 0, size_out |-> 0, out |-> <<>>, rc |-> "none"]

Exit(x, rc) == b' = [x EXCEPT !.at = "shell", !.rc = rc] /\ drv' = NotCalled

(* sdcard_read_block up to its first command; at is what follows it.       *)
Read(x, at, lba, hc) ==
    IF hc \/ lba * SectorUnits < LbaMod
    THEN /\ b' = [x EXCEPT !.at = at, !.attempt = 1]
         /\ sd_cmd(17, IF hc THEN lba ELSE lba * SectorUnits, TRUE)
    ELSE Exit(x, "read")

Add32(a, n) == (a + n) % LbaMod
First(x)  == Add32(x.data, (x.cluster - 2) * x.spc)
Linked(sec, x) == sec.fat[x.cluster % FatPer]
FatSector(x) == Add32(x.fat, x.cluster \div FatPer)

(* The next sector of the cluster, or the table's sector with the link.    *)
Onward(x, at, fat_at, s) ==
    IF s < x.spc THEN Read([x EXCEPT !.s = s], at, Add32(x.first, s), g_high_capacity)
                 ELSE Read(x, fat_at, FatSector(x), g_high_capacity)

(* The head of the directory's loop, and of the file's.                    *)
DirCluster(x) ==
    IF x.cluster < EndOfChain
    THEN Onward([x EXCEPT !.first = First(x)], "dir", "dirfat", 0)
    ELSE Exit(x, "missing")
FileCluster(x) ==
    IF x.remaining > 0 /\ x.cluster < EndOfChain
    THEN Onward([x EXCEPT !.first = First(x)], "file", "filefat", 0)
    ELSE Exit(x, IF x.remaining = 0 THEN "ok" ELSE "short")

looks_like_fat32_bpb(sec) ==
    /\ sec.bps = 512 /\ sec.spc # 0 /\ sec.reserved # 0
    /\ sec.fats # 0 /\ sec.fat_size # 0 /\ sec.root >= 2

PartitionSector(sec) ==
    LET part == IF ~looks_like_fat32_bpb(sec) /\ sec.sig /\ sec.type # 0 THEN sec.start ELSE 0
    IN  Read([b EXCEPT !.part = part], "bpb", part, g_high_capacity)

VolumeSector(sec) ==
    LET fat == Add32(b.part, sec.reserved)
    IN  IF sec.bps # 512 THEN Exit(b, "bpb")
        ELSE DirCluster([b EXCEPT !.spc = sec.spc, !.fat = fat,
                                  !.data = Add32(fat, sec.fats * sec.fat_size),
                                  !.cluster = sec.root])

(* A deleted entry, a part of a long name and an unused one are skipped;   *)
(* a file without clusters does not end the search.                        *)
DirectorySector(sec) ==
    LET i == SelectInSeq(sec.dir, LAMBDA e : e.kind = "file" /\ e.name = "BOOT    BIN")
        e == sec.dir[i]
        x == [b EXCEPT !.cluster = e.cluster, !.size = e.size, !.remaining = e.size]
    IN  IF i = 0 THEN Onward(b, "dir", "dirfat", b.s + 1)
        ELSE IF e.cluster = 0
        THEN Onward([b EXCEPT !.cluster = EndOfChain, !.size = e.size],
                    "dir", "dirfat", b.s + 1)
        ELSE IF e.size < 1 THEN Exit(x, "header")
        ELSE FileCluster(x)

boot_image_parse_header(hdr) ==
    hdr.magic /\ hdr.text <= Room /\ hdr.data <= Room - hdr.text

boot_image_validate_file_size(size, hdr) ==
    size >= 1 /\ hdr.text <= size - 1 /\ hdr.data = size - 1 - hdr.text

(* A sector of the file: the header is judged before anything is copied.   *)
FileSector(sec) ==
    LET n     == IF b.remaining < SectorUnits THEN b.remaining ELSE SectorUnits
        head  == b.remaining = b.size
        x     == [b EXCEPT !.remaining = @ - n,
                           !.out = @ \o SubSeq(sec.data, IF head THEN 2 ELSE 1, n),
                           !.size_out = IF head THEN sec.hdr.text + sec.hdr.data ELSE @]
    IN  IF head /\ ~boot_image_parse_header(sec.hdr) THEN Exit(b, "header")
        ELSE IF head /\ ~boot_image_validate_file_size(b.size, sec.hdr) THEN Exit(b, "size")
        ELSE IF x.remaining = 0 THEN FileCluster(x)
        ELSE Onward(x, "file", "filefat", b.s + 1)

(* The block that was read goes where it was wanted.                       *)
fatboot_load(sec) ==
    CASE b.at = "mbr"     -> PartitionSector(sec)
      [] b.at = "bpb"     -> VolumeSector(sec)
      [] b.at = "dir"     -> DirectorySector(sec)
      [] b.at = "dirfat"  -> DirCluster([b EXCEPT !.cluster = Linked(sec, b)])
      [] b.at = "file"    -> FileSector(sec)
      [] b.at = "filefat" -> FileCluster([b EXCEPT !.cluster = Linked(sec, b)])

-----------------------------------------------------------------------------
(* The driver *)

sdcard_init(ok) ==
    LET n == drv.cmd
    IN  /\ g_rca' = IF ok /\ n = 3 THEN resp0 ELSE g_rca
        /\ g_high_capacity' = IF ok /\ n = 41 THEN "hc" \in resp0 /\ "ready" \in resp0
                              ELSE g_high_capacity
        /\ CASE n # 0 /\ ~ok -> Exit(b, "init")
             [] n = 0 -> sd_cmd(8, 0, FALSE) /\ UNCHANGED b
             [] n \in {8, 55} /\ ok -> sd_cmd(IF n = 8 THEN 55 ELSE 41, 0, FALSE) /\ UNCHANGED b
             [] n = 41 /\ ok /\ "ready" \in resp0 -> sd_cmd(2, 0, FALSE) /\ UNCHANGED b
             [] n = 41 /\ ok /\ "ready" \notin resp0 ->
                   IF b.tries + 1 < InitTries
                   THEN sd_cmd(55, 0, FALSE) /\ b' = [b EXCEPT !.tries = @ + 1]
                   ELSE Exit(b, "init")
             [] n = 2 /\ ok -> sd_cmd(3, 0, FALSE) /\ UNCHANGED b
             [] n = 3 /\ ok -> IF resp0 = {} THEN Exit(b, "init")
                               ELSE sd_cmd(7, IF resp0 = {"rca"} THEN 1 ELSE 2, FALSE) /\ UNCHANGED b
             [] n = 7 /\ ok -> sd_cmd(16, 512, FALSE) /\ UNCHANGED b
             [] n = 16 /\ ok -> Read(b, "mbr", 0, g_high_capacity)

sdcard_read_block(ok) ==
    /\ IF ok THEN fatboot_load(IF data_buf = Garbled THEN Blank ELSE Cards[card].blocks[data_buf])
       ELSE IF b.attempt < MaxAttempts
       THEN b' = [b EXCEPT !.attempt = @ + 1] /\ sd_cmd(17, drv.arg, TRUE)
       ELSE Exit(b, "read")
    /\ UNCHANGED <<g_rca, g_high_capacity>>

Return(ok) == IF b.at = "init" THEN sdcard_init(ok) ELSE sdcard_read_block(ok)

DriverAt(at, then) == drv.at = at /\ drv' = [drv EXCEPT !.at = then]

(* By the time of the first write the host has left S_DONE: sd_delay lasts *)
(* longer, before the first CMD17 the shell prints, and after a CMD17 the  *)
(* SD clock is as fast as the core's.                                      *)
ClearStatus ==
    /\ state # "S_DONE"
    /\ DriverAt("clear", "set") /\ WriteCtrl({"CLEAR"})
    /\ UNCHANGED <<state, cmd_idx, cmd_arg, op_read, op_error, resp0, data_buf,
                   cardVars, g_rca, g_high_capacity, b, boots>>

SetCommand ==
    /\ DriverAt("set", "start") /\ cmd_idx' = drv.cmd /\ cmd_arg' = drv.arg
    /\ UNCHANGED <<state, status, op_read, op_error, resp0, data_buf,
                   cardVars, g_rca, g_high_capacity, b, boots>>

StartCommand ==
    /\ DriverAt("start", "poll")
    /\ WriteCtrl({"START"} \cup IF drv.read THEN {"READ"} ELSE {})
    /\ UNCHANGED <<state, cmd_idx, cmd_arg, op_read, op_error, resp0, data_buf,
                   cardVars, g_rca, g_high_capacity, b, boots>>

PollDone ==
    /\ drv.at = "poll" /\ "DONE" \in status /\ Return("ERR" \notin status)
    /\ UNCHANGED <<hostVars, card, mode, sent, answer, noise, boots>>
    /\ early' = (early \/ b'.rc = "init")

(* The host waits up to 65536 of its clocks for an answer, and as many     *)
(* again for a selected card: at the slow clock that may be longer than    *)
(* two million polls.  The clock of CMD17 is not slow.                     *)
GiveUp ==
    /\ drv.at = "poll" /\ "DONE" \notin status
    /\ drv.cmd # 17 /\ state \in {"S_RESP_WAIT", "S_BUSY_WAIT"}
    /\ Return(FALSE)
    /\ early' = TRUE
    /\ UNCHANGED <<hostVars, card, mode, sent, answer, noise, boots>>

(* The user asks again after a failure; success leaves for the image.      *)
shell_sdload ==
    /\ b.at = "shell" /\ b.rc # "ok" /\ boots < MaxBoots
    /\ boots' = boots + 1
    /\ b' = Start /\ sd_cmd(0, 0, FALSE) /\ g_high_capacity' = FALSE
    /\ UNCHANGED <<hostVars, cardVars, g_rca>>

DriverStep == ClearStatus \/ SetCommand \/ StartCommand \/ PollDone \/ GiveUp

SdInit ==
    /\ state = "S_IDLE" /\ status = {} /\ cmd_idx = 0 /\ cmd_arg = 0
    /\ op_read = FALSE /\ op_error = FALSE /\ resp0 = {} /\ data_buf = Garbled
    /\ card \in DOMAIN Cards /\ mode = "idle" /\ sent = <<0, 0>> /\ answer = {}
    /\ noise = 0 /\ early = FALSE
    /\ b = Start /\ drv = [NotCalled EXCEPT !.at = "clear"] /\ boots = 1
    /\ g_rca = {} /\ g_high_capacity = FALSE

SdNext == HostStep \/ DriverStep \/ shell_sdload

(* The host's clock and the program run; the card may do what it likes.    *)
SdSpec == SdInit /\ [][SdNext]_sdVars /\ WF_sdVars(HostStep) /\ WF_sdVars(DriverStep)

-----------------------------------------------------------------------------
(* Properties *)

(* What has been copied to memory is the beginning of the file's image and *)
(* stays below the framebuffer, and the loader reports success only with   *)
(* the whole of it there, whatever was damaged, left unanswered or taken   *)
(* for the end of another command (fatboot_load, sdcard_read_block, the    *)
(* host's S_DATA_END).                                                     *)
SdLoadedWhole ==
    LET c == Cards[card]
    IN  /\ IsPrefix(b.out, c.payload) /\ Len(b.out) <= Room
        /\ b.rc = "ok" => b.out = c.payload /\ b.size_out = Len(c.payload)

(* A card that comes up and is then disturbed fewer times than a block is  *)
(* tried does not keep the loader from the result the card's contents      *)
(* deserve: the file, or the reason why there is none.                     *)
SdLoadSucceeds ==
    [](~early /\ noise < MaxAttempts) => <>(b.at = "shell" /\ b.rc = Cards[card].rc)
=============================================================================
