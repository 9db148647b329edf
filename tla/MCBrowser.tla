----------------------------- MODULE MCBrowser -----------------------------
(* Instances of BrowserSession for TLC. *)
EXTENDS BrowserSession

CONSTANTS tab1, tab2, call1, call2, call3

\* Two calls share a tab; the other tab can log out.
TwoAndOne == [t \in Tabs |-> IF t = tab1 THEN {call1, call2} ELSE {call3}]
=============================================================================
