------------------------------- MODULE MCDTLS -------------------------------
(***************************************************************************)
(* Small instances of DTLSLink for TLC: which cipher suites each side      *)
(* supports and whether the server has a hint or asks for a certificate,   *)
(* and what happens on the link.                                           *)
(***************************************************************************)
EXTENDS DTLSLink

PSKOnly == [client |-> <<PSK>>, server |-> <<PSK>>, auth |-> FALSE, hint |-> FALSE]
Hinted == [client |-> <<PSK>>, server |-> <<PSK>>, auth |-> FALSE, hint |-> TRUE]
Certified == [client |-> <<ECDHE, PSK>>, server |-> <<PSK, ECDHE>>, auth |-> TRUE, hint |-> FALSE]

AllSuites == {PSKOnly, Hinted, Certified}

AllWeathers ==
    {{"flight"}, {"swap"}, {"duplicate", "write"}, {"duplicate", "renegotiate"},
     {"lose", "close"}, {"reorder", "write"}, {"slow", "lose"}, {"slow", "renegotiate"}}
=============================================================================
