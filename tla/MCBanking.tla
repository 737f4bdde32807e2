----------------------------- MODULE MCBanking -----------------------------
(* Two banks, a firm and a resident, each at any of the banks.               *)
EXTENDS Banking
OneFirm == {11}
OneResident == {21}
TwoBanks == {1, 2}
Anywhere == [OneFirm \cup OneResident -> TwoBanks]
=============================================================================
