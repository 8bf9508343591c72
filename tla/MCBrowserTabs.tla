--------------------------- MODULE MCBrowserTabs ---------------------------
(***************************************************************************)
(* Instances of BrowserTabs for TLC.  The tabs, and the browsers, are      *)
(* interchangeable.                                                        *)
(***************************************************************************)
EXTENDS BrowserTabs, TLC

Symmetric == Permutations(Tabs) \cup Permutations(Browsers)
=============================================================================
