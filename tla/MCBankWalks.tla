----------------------------- MODULE MCBankWalks -----------------------------
(***************************************************************************)
(* Banks of up to three records, right or damaged, of every length around  *)
(* theirs and any count; a PA with more blocklets than are looked at.      *)
(***************************************************************************)
EXTENDS BankWalks

\* Descriptors of a plane hit without and with errors, and of a cylinder's.
Descriptors == {{}, {6, 7}, {1, 7, 8, 9, 11}}

MCForeign == [TE |-> Descriptors, TRAX |-> {-1, 7, 8, 23}, EMCA |-> {-5, 0, 14, 40}, PA |-> {}]

Records(words, sizes) == UNION {[1 .. n -> [word : words, words : sizes]] : n \in 0 .. 3}

BanksOf(walk, words, sizes, lengths, counts) ==
  [walk : {walk}, records : Records(words, sizes), length : lengths, count : counts]

TeBanks == BanksOf("TE", Descriptors, {10, 13, 20}, (0 .. 1) \cup (9 .. 64), {0})

TraxBanks == BanksOf("TRAX", {0, 8, 23}, {9, 24}, {0, 3, 11, 12, 20, 21, 26, 27, 35, 36, 50, 51, 74, 75}, -1 .. 4)

EmcaBanks == BanksOf("EMCA", {0, 14, 40}, {14, 40}, {0}, -1 .. 4)

PaBanks == {[walk |-> "PA", records |-> r, length |-> 0, count |-> Len(r)] :
              r \in Records({0, 3, 5}, {3, 5})
                      \cup {[i \in 1 .. n |-> [word |-> 2, words |-> 2]] : n \in {64, 65}}}

MCBanks == TeBanks \cup TraxBanks \cup EmcaBanks \cup PaBanks
=============================================================================
