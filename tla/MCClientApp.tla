---------------------------- MODULE MCClientApp ----------------------------
(* Values for the constants of ClientApp: an app with a download and a     *)
(* browser action, beside an HTTP invocation by other code.                *)
EXTENDS ClientApp

CONSTANTS download, action, direct, good, bad

PinGood == [i \in {download} |-> good]
=============================================================================
