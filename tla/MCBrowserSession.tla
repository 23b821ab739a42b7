-------------------------- MODULE MCBrowserSession --------------------------
(* A small instance of BrowserSession for TLC. *)
EXTENDS BrowserSession, TLC

BrowserSymmetry == Permutations(Tokens) \cup Permutations(Tabs) \cup Permutations(Calls)
=============================================================================
