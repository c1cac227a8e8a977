------------------------------- MODULE MCSdkCore -------------------------------
(* Two lidars: a HAP that a file names by its address, a Mid-360 found by type. *)
EXTENDS SdkCore

MCAddress == [l \in Lidars |-> IF l = "l1" THEN "ip1" ELSE "ip2"]
MCNetOf == [a \in {"ip1", "ip2", "host"} |-> IF a = "ip2" THEN "net2" ELSE "net1"]
MCTypeOf == [l \in Lidars |-> IF l = "l1" THEN "HAP" ELSE "Mid360"]

Host(lidar_ip) ==
  [ip |-> "host", lidar_ip |-> lidar_ip, multicast_ip |-> <<>>,
   ports |-> [cmd |-> 1, push |-> 2, point |-> 3, imu |-> 4, log |-> 5]]
Section(form, hosts) == [form |-> form, ports |-> Mid360Ports, hosts |-> hosts]
Absent == Section("absent", <<>>)
Doc(hap, mid) ==
  [valid |-> TRUE, master_sdk |-> "absent", lidar_log |-> "false", HAP |-> hap, MID360 |-> mid]

\* By address and by type; slave; one address twice; an entry that lacks its ports.
Good == Doc(Section("array", <<Host(<<"ip1">>)>>), Section("object", <<Host(<<>>)>>))
MCDocuments ==
  {Good,
   [Good EXCEPT !.HAP = Absent, !.master_sdk = "false"],
   Doc(Section("array", <<Host(<<"ip1">>), Host(<<"ip1">>)>>), Absent),
   [Good EXCEPT !.MID360.ports = NoPorts]}
================================================================================
