------------------------ MODULE MCBreakoutTransport ------------------------
(***************************************************************************)
(* Small instances of BreakoutTransport for TLC.                           *)
(***************************************************************************)
EXTENDS BreakoutTransport

AllAlerts == {"fatal", "warning"} \X {"close_notify", "other"}

FatalOther == {<<"fatal", "other">>}
=============================================================================
