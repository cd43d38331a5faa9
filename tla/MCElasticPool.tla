----------------------------- MODULE MCElasticPool -----------------------------
(* ElasticPool on a small instance: two addresses, two updates and three    *)
(* disturbances, so that a server may crash while the other is added, or    *)
(* fail twice in one update.                                                *)
EXTENDS ElasticPool, TLC

CONSTANTS ip1, ip2

MCIPs == {ip1, ip2}
=============================================================================
