-------------------------------- MODULE MCCrys --------------------------------
(***************************************************************************)
(* Instances of CrysStreams for TLC: pages of 8 bytes, two buffers of a    *)
(* cipher and of a MAC or hash.                                            *)
(***************************************************************************)
EXTENDS CrysStreams

CONSTANTS cipher, digest

AllPlaces == 16..23
Places == {16, 18, 20, 21}
Sizes == [k \in Kinds |-> CASE k = "AES" -> 14 [] k = "DES" -> 6 [] k = "CCM" -> 12
                            [] k = "HASH" -> 18 [] k = "HMAC" -> 10]
AllModes == {[kind |-> "AES", size |-> 6], [kind |-> "DES", size |-> 2], [kind |-> "CCM", size |-> 4],
             [kind |-> "CCM", size |-> 6], [kind |-> "HASH", size |-> 6], [kind |-> "HMAC", size |-> 4]}
Pairs == {[u \in {cipher, digest} |-> IF u = cipher THEN "AES" ELSE "HASH"]}
         \cup [{cipher} -> {"DES", "CCM"}] \cup [{digest} -> {"HMAC"}]
=============================================================================
