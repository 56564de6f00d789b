----------------------------- MODULE MCModemAT -----------------------------
(***************************************************************************)
(* Small instances of ModemAT for TLC.                                     *)
(***************************************************************************)
EXTENDS ModemAT

\* What happens on the line, some of it at a time.
AllWeathers ==
    {{}, {"split", "late"}, {"split", "cme", "txfail"}, {"pin", "split"},
     {"pin", "cme", "late", "txfail"}}
=============================================================================
