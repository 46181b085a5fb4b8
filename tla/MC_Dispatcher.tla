---------------------------- MODULE MC_Dispatcher ----------------------------
(***************************************************************************)
(* Two handlers, four participants of which one lacks a URL, one is not   *)
(* whitelisted and two are kept, so the third attempt of a call falls     *)
(* back to an endpoint already tried; two wallets.                        *)
(***************************************************************************)
EXTENDS Dispatcher, TLC

CONSTANTS c1, c2

MCCaller == {c1, c2}

MCParticipant ==
  { [index |-> "gonka1y2a9", url |-> "http://n1"],
    [index |-> "gonka1dkl4", url |-> "http://n2"],
    [index |-> "gonka1kx9m", url |-> ""],
    [index |-> "gonka1zzzz", url |-> "http://n4"] }

MCWhitelist == {"gonka1y2a9", "gonka1dkl4", "gonka1kx9m"}

MCStatus == {"200", "500"}   \* statuses as text

MCSymmetry == Permutations(MCCaller)
=============================================================================
