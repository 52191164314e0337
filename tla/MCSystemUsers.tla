--------------------------- MODULE MCSystemUsers ---------------------------
(* Clusters of MySQL 8.0 and 5.7, behind ProxySQL and HAProxy; in each, one  *)
(* or two of the users have their passwords edited: changed twice, changed   *)
(* and set back ("p0" is what they begin with), changed to a refused one.    *)
EXTENDS SystemUsers

MCUserNames == <<"root", "operator", "monitor", "xtrabackup", "replication", "proxyadmin", "pmmserverkey", "pmmservertoken">>
Cluster(dual, proxy_, edited, passwords) ==
  [dual |-> dual, proxy |-> proxy_, edited |-> edited, passwords |-> passwords]
MCConfs == {Cluster(TRUE, "proxysql", {"operator"}, {"p0", "p1", "p2"}),
            Cluster(TRUE, "proxysql", {"monitor"}, {"p1", "p2"}),
            Cluster(TRUE, "proxysql", {"root"}, {"p0", "p1", "weak"}),
            Cluster(TRUE, "proxysql", {"proxyadmin"}, {"p0", "p1", "weak"}),
            Cluster(TRUE, "haproxy", {"xtrabackup"}, {"p0", "p1", "weak"}),
            Cluster(TRUE, "haproxy", {"pmmservertoken"}, {"p1", "p2"}),
            Cluster(FALSE, "haproxy", {"monitor"}, {"p0", "p1", "weak"}),
            Cluster(FALSE, "proxysql", {"operator"}, {"p1", "p2", "weak"}),
            Cluster(FALSE, "proxysql", {"replication", "pmmserverkey"}, {"p0", "p1"})}
MCMountPods == {"pxc-0", "pxc-1"}
=============================================================================
