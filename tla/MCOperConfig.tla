------------------------------ MODULE MCOperConfig ------------------------------
(* Small instances of OperConfig for TLC.  IPv4 addresses are 0 to 63, IPv6 *)
(* addresses 64 to 127.                                                    *)
EXTENDS OperConfig

Service4 == [net |-> 0, size |-> 4]
Service6 == [net |-> 64, size |-> 4]
Pods(a, s) == [net |-> a, size |-> s, host |-> 4]
Cluster(sn, cn, t) == [sn |-> sn, cn |-> cn, type |-> t]

(* IPv6 before IPv4, and the same with larger pod networks.                *)
MCReordered == {Cluster(<<Service6, Service4>>, <<Pods(80, 8), Pods(16, 8)>>, OVNKubernetes),
                Cluster(<<Service6, Service4>>, <<Pods(80, 16), Pods(16, 8)>>, OVNKubernetes)}

(* Single stack and its expansion, dual stack, a shrunk one, another       *)
(* primary family, and one with overlapping networks.                      *)
MCClusterConfigs ==
  {Cluster(<<Service4>>, <<Pods(16, 8)>>, OVNKubernetes),
   Cluster(<<Service4>>, <<Pods(16, 16)>>, "ovnkubernetes"),
   Cluster(<<Service4, Service6>>, <<Pods(16, 8), Pods(80, 8)>>, OVNKubernetes),
   Cluster(<<Service6, Service4>>, <<Pods(80, 8), Pods(16, 8)>>, OVNKubernetes),
   Cluster(<<Service4>>, <<Pods(16, 32)>>, OVNKubernetes)}

MCInstalled == {Cluster(<<Service4>>, <<Pods(16, 8)>>, OVNKubernetes)}

Setting(mtu, mig, no, m, e, p, st) ==
  [mtu |-> mtu, mig |-> mig, noOverlay |-> no, multi |-> m, extra |-> e, proxy |-> p, state |-> st]
Migrate(f, t, m) == [on |-> TRUE, from |-> f, to |-> t, machine |-> m]

(* Nothing set, migrations of the MTU, one of them from an MTU that is not *)
(* in use, additional networks without Multus, one that cannot be          *)
(* rendered, and a configuration the operator is to leave alone.           *)
MCSettings ==
  {Setting(0, NoMigration, FALSE, "unset", "none", "", "Managed"),
   Setting(3, Migrate(4, 5, 6), FALSE, "enabled", "none", "", "Managed"),
   Setting(3, Migrate(3, 5, 6), FALSE, "enabled", "none", "", "Managed"),
   Setting(0, NoMigration, FALSE, "disabled", "valid", "", "Managed"),
   Setting(0, NoMigration, TRUE, "enabled", "invalid", "", "Managed"),
   Setting(0, NoMigration, FALSE, "enabled", "none", "", "Unmanaged")}
MCNoSettings == {}
=================================================================================
