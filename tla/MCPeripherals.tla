--------------------------- MODULE MCPeripherals ---------------------------
(***************************************************************************)
(* The DDR bridge and the SD card's boot path, which share no state.  Init *)
(* picks which of them a behaviour is about; the other stays as it was.    *)
(*                                                                         *)
(* The bridge has one line of two words of two byte lanes.  The requests   *)
(* read and write both words, whole and in part, so that a lost lane, a    *)
(* lost neighbour word and a stale read all show.                          *)
(*                                                                         *)
(* The cards are of both kinds, with and without a partition table.  Their *)
(* clusters 0 to 7 hold a directory of one or two clusters and BOOT.BIN:   *)
(* in pieces, in larger clusters, with its chain cut short, with a header  *)
(* that is wrong, too long or of another size, empty, or not there.        *)
(***************************************************************************)
EXTENDS DdrBridge, SdBoot

VARIABLE which

CONSTANTS l1

MCLine == {l1}
MCIdx == {0, 1}
Ones == [i \in MCIdx |-> 1]
Zeros == [i \in MCIdx |-> 0]
MCRequests ==
  [we : {FALSE}, line : MCLine, word : {1}, dat_w : {Zeros}, sel : {MCIdx}]
  \union [we : {TRUE}, line : MCLine, word : {0}, dat_w : {Ones}, sel : {MCIdx}]
  \union [we : {TRUE}, line : MCLine, word : {1}, dat_w : {Ones}, sel : {{0}}]
  \union [we : {TRUE}, line : MCLine, word : {1}, dat_w : {Zeros}, sel : {MCIdx}]

-----------------------------------------------------------------------------
Entry(kind, name, cluster, size) ==
    [kind |-> kind, name |-> name, cluster |-> cluster, size |-> size]
Boot(cluster, size) == Entry("file", "BOOT    BIN", cluster, size)
Deleted == Entry("deleted", "BOOT    BIN", 4, 3)
Other   == Entry("file", "LINUX   BIN", 4, 3)

Header(magic, text, data) == [magic |-> magic, text |-> text, data |-> data]

MCBlank ==
    [bps |-> 0, spc |-> 0, reserved |-> 0, fats |-> 0, fat_size |-> 0, root |-> 0,
     sig |-> FALSE, type |-> 0, start |-> 0, dir |-> <<>>,
     fat |-> [i \in 0 .. FatPer - 1 |-> 0],
     hdr |-> Header(FALSE, 0, 0), data |-> [i \in 1 .. SectorUnits |-> 0]]

(* A card: chain gives the clusters' links, dir the directory's sectors    *)
(* and file the file's by cluster and sector, hdr the file's header.       *)
Card(hc, part, spc, chain, dir, file, hdr, rc, payload) ==
    LET data(c) == part + 5 + (c - 2) * spc
        sector(n) ==
          LET c == 2 + (n - part - 5) \div spc
              at == <<c, (n - part - 5) % spc>>
          IN  CASE n = 0 /\ part > 0 ->
                     [MCBlank EXCEPT !.sig = TRUE, !.type = 12, !.start = part]
                [] n = part ->
                     [MCBlank EXCEPT !.bps = 512, !.spc = spc, !.reserved = 1,
                                     !.fats = 2, !.fat_size = 2, !.root = 2, !.sig = TRUE]
                [] n \in part + 1 .. part + 4 ->
                     [MCBlank EXCEPT !.fat = [i \in 0 .. FatPer - 1 |->
                                              chain[((n - part - 1) % 2) * FatPer + i + 1]]]
                [] n >= part + 5 /\ at \in DOMAIN dir -> [MCBlank EXCEPT !.dir = dir[at]]
                [] n >= part + 5 /\ at \in DOMAIN file ->
                     [MCBlank EXCEPT !.data = file[at], !.hdr = hdr]
                [] OTHER -> MCBlank
    IN  [hc |-> hc, rc |-> rc, payload |-> payload,
         blocks |-> [n \in 0 .. data(8) - 1 |-> sector(n)]]

E == EndOfChain
At(c, s, x) == <<c, s>> :> x

(* A directory of two clusters, a file of five units in clusters 5, 3, 7.  *)
Scattered(hc, part, hdr, size, link, rc, payload) ==
    Card(hc, part, 1, <<E, E, 4, link, E, 3, 0, E>>,
         At(2, 0, <<Deleted, Other>>) @@ At(4, 0, <<Entry("lfn", "BOOT    BIN", 6, 1), Boot(5, size)>>),
         At(5, 0, <<99, 1>>) @@ At(3, 0, <<2, 3>>) @@ At(7, 0, <<4, 98>>),
         hdr, rc, payload)

MCCards ==
    << Scattered(TRUE, 0, Header(TRUE, 3, 1), 5, 7, "ok", <<1, 2, 3, 4>>),
       Scattered(FALSE, 2, Header(TRUE, 1, 3), 5, 7, "ok", <<1, 2, 3, 4>>),
       \* the chain ends too early
       Scattered(TRUE, 2, Header(TRUE, 1, 3), 5, E, "short", <<1, 2, 3, 4>>),
       \* the file is shorter than its header says, and longer
       Scattered(TRUE, 0, Header(TRUE, 2, 2), 4, 7, "size", <<>>),
       Scattered(TRUE, 0, Header(TRUE, 2, 1), 5, 7, "size", <<>>),
       \* too much for the memory, by the text and by the sum
       Scattered(TRUE, 0, Header(TRUE, 6, 0), 7, 7, "header", <<>>),
       Scattered(FALSE, 0, Header(TRUE, 3, 3), 7, 7, "header", <<>>),
       \* no magic
       Scattered(TRUE, 0, Header(FALSE, 3, 1), 5, 7, "header", <<>>),
       \* clusters of two sectors, the file in 5 and 4, its end within one
       Card(FALSE, 0, 2, <<E, E, E, 0, E, 4, 0, 0>>,
            At(2, 1, <<Boot(5, 6)>>),
            At(5, 0, <<99, 1>>) @@ At(5, 1, <<2, 3>>) @@ At(4, 0, <<4, 5>>),
            Header(TRUE, 0, 5), "ok", <<1, 2, 3, 4, 5>>),
       \* a file that is all header
       Card(TRUE, 2, 1, <<E, E, E, E, 0, 0, 0, 0>>, At(2, 0, <<Boot(3, 1)>>),
            At(3, 0, <<99, 98>>), Header(TRUE, 0, 0), "ok", <<>>),
       \* an empty file has no cluster; the search goes on past the table
       Card(TRUE, 0, 1, <<E, E, E, 0, 0, 0, 0, 0>>, At(2, 0, <<Boot(0, 0)>>),
            <<>>, Header(FALSE, 0, 0), "read", <<>>),
       \* no such file
       Card(FALSE, 2, 1, <<E, E, E, 0, 0, 0, 0, 0>>, At(2, 0, <<Other>>),
            <<>>, Header(FALSE, 0, 0), "missing", <<>>),
       \* no file system
       [hc |-> TRUE, rc |-> "bpb", payload |-> <<>>, blocks |-> 0 :> MCBlank] >>

-----------------------------------------------------------------------------
MCInit ==
    /\ which \in {"bridge", "sd"}
    /\ SystemInit /\ SdInit
    /\ which # "sd" => card = 1

MCNext ==
    /\ UNCHANGED which
    /\ \/ which = "bridge" /\ BridgeNext /\ UNCHANGED sdVars
       \/ which = "sd" /\ SdNext /\ UNCHANGED bridgeVars

(* The fairness of SdSpec, for the behaviours that are about the card.     *)
MCSpec == /\ MCInit /\ [][MCNext]_<<bridgeVars, sdVars, which>>
          /\ WF_sdVars(which = "sd" /\ HostStep) /\ WF_sdVars(which = "sd" /\ DriverStep)

(* SdLoadSucceeds of SdBoot, for the behaviours that are about the card.   *)
CardBootSucceeds == which = "sd" => SdLoadSucceeds
=============================================================================
