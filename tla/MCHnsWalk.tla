------------------------------- MODULE MCHnsWalk -------------------------------
(* HnsWalk on names of up to three labels.  Of the worlds that differ only *)
(* in what no step looks at (an address beside a pointer, a pin beside no  *)
(* address, anything in a zone with no name server) one is taken.          *)
EXTENDS SecurityPanel

MCWorlds ==
  {w \in World :
     /\ w.cut \subseteq 2 .. w.host
     /\ \A z \in 2 .. Labels : z \notin w.cut => w.ds[z] = "none"
     /\ w.host = 3 => w.cut # {}
     /\ "ns" \notin w.chain \/ w.chain # {"ns"} =>
          /\ w.host < 3 /\ w.cut = {}
          /\ w.text = "none" /\ w.link = "none"
          /\ w.address = "none"
     /\ w.text # "none" \/ w.link # "none" => w.address = "four"
     /\ w.address = "none" => ~w.pin
     /\ {w.text, w.link} # {"none"} => w.pin
     /\ "synth" \in w.chain => "ns" \notin w.chain}
===============================================================================
