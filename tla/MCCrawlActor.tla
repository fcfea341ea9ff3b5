------------------------------ MODULE MCCrawlActor ------------------------------
(* CrawlActor with three endpoints, two of them in one subnet.             *)
EXTENDS CrawlActor

CONSTANTS a1, a2, b1

MCSubnets == [a \in Addrs |-> IF a = b1 THEN "net2" ELSE "net1"]

Twins == Permutations({a1, a2})
===============================================================================
