------------------------------ MODULE MCHnsCache ------------------------------
(* HnsCache on a TLD and a name under it. *)
EXTENDS HnsCache, TLC

MCUnder == "w3" :> {"w3", "alice.w3"} @@ "alice.w3" :> {"alice.w3"}
===============================================================================
