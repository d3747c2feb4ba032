-------------------------- MODULE MCCallInitiation --------------------------
(* Two requests for one agent and number, and one from the browser.        *)
EXTENDS CallInitiation, TLC

CONSTANTS r1, r2, r3, k1

ThreeRequests == {r1, r2, r3}
WithBrowser == (r1 :> k1) @@ (r2 :> k1) @@ (r3 :> NoKey)
=============================================================================
