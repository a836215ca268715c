---------------------------- MODULE MCDataPort -----------------------------
(***************************************************************************)
(* DataPort for TLC: a word of RAM, a device register and five words of    *)
(* DDR (data, code, and the two page-table entries).  Every word starts    *)
(* with a content of its own, so that a reply gone astray shows.           *)
(***************************************************************************)
EXTENDS DataPort

CONSTANTS ram1, mmio1, data1, code1, code2, pte1, pte0, rom1

MCRam == {ram1}
MCMmio == {mmio1}
MCDdr == {data1, code1, code2, pte1, pte0}
MCRom == {rom1}
MCValue == SUBSET Flags
MCZero == {}
MCContent0 ==
  [a \in MCRam \union MCMmio \union MCDdr |->
     CASE a = ram1 -> {"D"} [] a = mmio1 -> {"D", "A"} [] a = data1 -> {"A"}
       [] a = code1 -> {"L"}
       [] a = code2 -> {"L", "D"} [] a = pte1 -> {"V"} [] a = pte0 -> {"V", "L"}]
MCFetch == {code1, code2, rom1}
DdrFetch == {code1}
RomFetch == {rom1}

Access(k, a, v) == [kind |-> k, adr |-> a, dat |-> v, fn |-> "or"]
LoadStore(a, v) == {Access("load", a, MCZero), Access("store", a, v)}

\* Accesses of RAM, and a store and each kind of atomic on an entry of
\* the tables, which walks update: a store can come between LR and SC, and the
\* AMO clears the accessed and dirty bits.
MCOps ==
  LoadStore(ram1, {"L"}) \union
  {Access("store", pte0, {"V", "L", "D"}),
   Access("lr", pte0, MCZero), Access("sc", pte0, {"V", "L"}),
   [Access("amo", pte0, {"V", "L"}) EXCEPT !.fn = "and"]}

\* What competes with the fetches for the bridge.
FetchOps == {Access("store", data1, {"A", "V"})}

\* The longest operation, an AMO of two bus transactions with fetches in
\* between, and loads that the bridge and a device answer.
LiveOps == {Access("amo", data1, {"A"}), Access("load", data1, MCZero), Access("load", mmio1, MCZero)}

MmioOps == LoadStore(mmio1, {"A", "L"})
=============================================================================
