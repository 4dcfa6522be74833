---------------------------- MODULE HostServices ----------------------------
(***************************************************************************)
(* The services of the agent that change the host, each as the chain of    *)
(* commands it runs: firewall, groups, zones, connection tracking,         *)
(* interfaces, routes, the resolver, the daemons.                          *)
(***************************************************************************)
EXTENDS CommandChains

CONSTANTS Links,       \* interfaces that may be the uplink
          Levels       \* values of a setting

ASSUME LevelsAssumption == {0, 1} \subseteq Levels

-----------------------------------------------------------------------------
(* Firewall: forwarding, masquerade, the saved ruleset.                    *)

\* Mutant: the file is left as it was.
SetSysctl_NotSaved(v4, v6) == <<Assign("ip_forward", v4), Assign("ip6_forward", v6)>>

\* The command of sysctl -w, and the file written by tee.
SetSysctl(v4, v6) ==
  << Assign("ip_forward", v4), Assign("ip6_forward", v6),
     Ignored(Assign("90-dawos.conf", <<v4, v6>>)) >>

\* It is not sure of the file.
set_sysctl(v4, v6) ==
  Hoping(Service(SetSysctl(v4, v6), {<<"ip_forward", v4>>, <<"ip6_forward", v6>>}, {}),
         {<<"90-dawos.conf", <<v4, v6>>>>})

NatTable == <<"table", "dawos-nat">>
NatChain == <<"chain", "postrouting">>
DeleteNatTable == Delete(NatTable, {"chain", "masquerade"})

\* Mutant: the table is created anew, without removing the old one.
setup_masquerade_NotCleared(wan) ==
  Hoping(Service(<< New({}, {NatTable}), Add({NatTable}, {NatChain}),
                    Add({NatTable, NatChain}, {<<"masquerade", wan>>}) >> \o SetSysctl(1, 0),
                 {NatTable, NatChain, <<"masquerade", wan>>, <<"ip_forward", 1>>}, {}),
         {<<"90-dawos.conf", <<1, 0>>>>})

\* The table is deleted first, whatever comes of it, and IPv6 forwarding is
\* left at the default of set_sysctl: off.
setup_masquerade(wan) ==
  Hoping(Service(<< Ignored(DeleteNatTable), Add({}, {NatTable}), Add({NatTable}, {NatChain}),
                    Add({NatTable, NatChain}, {<<"masquerade", wan>>}) >> \o SetSysctl(1, 0),
                 {NatTable, NatChain, <<"masquerade", wan>>, <<"ip_forward", 1>>}, {}),
         {<<"90-dawos.conf", <<1, 0>>>>})

remove_masquerade == Service(<<DeleteNatTable>>, {}, {NatTable})

\* The redirection meant for a shell reaches tee as arguments, among them
\* "-f", which tee refuses: the command never succeeds.
save_ruleset == Service(<<Look, Check({<<"tee", "takes -f">>})>>, {}, {})

(* Groups are named sets; one name, which may be of either type.           *)

FilterTable == <<"table", "filter">>
GroupTypes  == {"address", "port"}

create_group(type, elements) ==
  Service(<< Add({}, {FilterTable}),
             [Add({FilterTable}, {<<"set", type>>})
                EXCEPT !.clash = {<<"set", t>> : t \in GroupTypes \ {type}}] >>
            \o Optional(elements, <<Add({<<"set", type>>}, {<<"element", type>>})>>),
          {FilterTable, <<"set", type>>}
            \cup (IF elements THEN {<<"element", type>>} ELSE {}), {})

delete_group(type) ==
  Service(<<Delete(<<"set", type>>, {"element"})>>, {}, {<<"set", type>>})

add_members(type) ==
  Service(<<Add({<<"set", type>>}, {<<"element", type>>})>>, {<<"element", type>>}, {})

(* Zones: a table is sure, its chains are not.                             *)

Zone == <<"table", "zone">>
Hooks == <<"input", "forward", "output">>

create_zone ==
  Hoping(Service(<<Reported(Add({}, {Zone}))>>
                   \o [i \in 1..3 |-> Ignored(Add({Zone}, {<<"zone chain", Hooks[i]>>}))],
                 {Zone}, {}),
         {<<"zone chain", "input">>, <<"zone chain", "forward">>, <<"zone chain", "output">>})

delete_zone == Service(<<Reported(Delete(Zone, {"zone chain"}))>>, {}, {Zone})

-----------------------------------------------------------------------------
(* Connection tracking.                                                    *)

\* The size of the table, and two services that write it, each to a file of
\* its own: this one checks its commands.
set_table_size(n) ==
  Service(<<Assign("conntrack_max", n), Assign("91-dawos-conntrack.conf", n), Ignored(Look)>>,
          {<<"conntrack_max", n>>, <<"91-dawos-conntrack.conf", n>>}, {})

\* ... and this one does not, and is sure of nothing.
set_conntrack(n) ==
  Hoping(Service(<< Ignored(Assign("conntrack_max", n)), Ignored(Assign("90-conntrack.conf", n)),
                    Ignored(Look) >>, {}, {}),
         {<<"conntrack_max", n>>, <<"90-conntrack.conf", n>>})

Timeouts == {"tcp_timeout_established", "udp_timeout"}
ProfileOrder == <<"tcp_timeout_established", "udp_timeout">>

\* An unknown key is refused before any command.
set_timeout(key, v) ==
  Service(IF key \in Timeouts THEN <<Assign(key, v), Ignored(Look)>>
                              ELSE <<Check({<<"known", key>>})>>,
          IF key \in Timeouts THEN {<<key, v>>} ELSE {}, {})

apply_profile(v) ==
  Service([i \in 1..2 |-> Assign(ProfileOrder[i], v)] \o <<Ignored(Look)>>,
          {<<key, v>> : key \in Timeouts}, {})

\* Connections tracked from now on are new ones.
flush_table ==
  Service(<<Ignored(Look), [Look EXCEPT !.clears = {"tracked"}]>>, {}, {<<"tracked", "old">>})

-----------------------------------------------------------------------------
(* Interfaces, VLANs, routes, the resolver.                                *)

Parts == {"address", "remove_address", "mtu", "state"}

configure_interface(parts) ==
  Service(Optional("address" \in parts, <<New({}, {<<"address", "a">>})>>)
            \o Optional("remove_address" \in parts, <<Delete(<<"address", "b">>, {})>>)
            \o Optional("mtu" \in parts, <<Assign("mtu", 1)>>)
            \o Optional("state" \in parts, <<Assign("link", "down")>>),
          {<<"address", "a">> : p \in parts \cap {"address"}}
            \cup {<<"mtu", 1>> : p \in parts \cap {"mtu"}}
            \cup {<<"link", "down">> : p \in parts \cap {"state"}},
          {<<"address", "b">> : p \in parts \cap {"remove_address"}})

Vlan == <<"vlan", "eth0.100">>
VlanUp(state) == [Assign("vlan link", state) EXCEPT !.needs = {Vlan}]

create_vlan(address) ==
  Service(<<New({}, {Vlan}), VlanUp("up")>>
            \o Optional(address, <<New({Vlan}, {<<"vlan address", "a">>})>>),
          {Vlan, <<"vlan link", "up">>}
            \cup (IF address THEN {<<"vlan address", "a">>} ELSE {}), {})

delete_vlan ==
  Service(<<Delete(Vlan, {"vlan link", "vlan address"})>>, {}, {Vlan})

set_vlan_state(state) == Service(<<VlanUp(state)>>, {<<"vlan link", state>>}, {})

Route == <<"route", "via g">>
add_route    == Service(<<New({}, {Route})>>, {Route}, {})
delete_route == Service(<<Delete(Route, {})>>, {}, {Route})

\* Where resolv.conf is a link: directory, drop-in, restart of the resolver,
\* whose exit code nobody looks at.  Otherwise the file itself.  It waits for
\* its commands without giving up the event loop.
set_dns(v, linked) ==
  Blocking(IF linked
           THEN Hoping(Service(<< Look, Assign("resolved drop-in", v),
                                  Ignored(Restart("resolved", "resolved drop-in", "resolved runs")) >>,
                               {<<"resolved drop-in", v>>}, {}),
                       {<<"resolved runs", v>>})
           ELSE Service(<<Assign("resolv.conf", v)>>, {<<"resolv.conf", v>>}, {}))

-----------------------------------------------------------------------------
(* Daemons: dnsmasq, the relay, keepalived, flow accounting, exporters.    *)

DnsmasqUp == <<"up", "dnsmasq">>

\* SIGHUP, which is also what a reload sends: dnsmasq empties its cache, and
\* does not read its configuration again.
Hangup == [Look EXCEPT !.needs = {DnsmasqUp}, !.clears = {"cached"}]

\* So what is asked for here is written, if it is, and never loaded.
set_forwarders(v) ==
  Hoping(Service(<<Check({DnsmasqUp}), Ignored(Assign("dawos-forwarding.conf", v)), Hangup>>,
                 {}, {<<"cached", "old">>}),
         {<<"dawos-forwarding.conf", v>>, <<"dnsmasq runs", v>>})

flush_cache == Service(<<Check({DnsmasqUp}), Hangup>>, {}, {<<"cached", "old">>})

DnsmasqRestart ==
  [Restart("dnsmasq", "dawos-forwarding.conf", "dnsmasq runs")
     EXCEPT !.clears = {"cached", "dnsmasq runs"}]
dhcp_restart == Service(<<Reported(DnsmasqRestart)>>, {DnsmasqUp}, {<<"cached", "old">>})

relay_restart ==
  Service(<<Reported(Add({}, {<<"up", "dhcrelay">>}))>>, {<<"up", "dhcrelay">>}, {})

KeepalivedUp == <<"up", "keepalived">>
vrrp_failover ==
  Service(<<Reported(Check({KeepalivedUp})), Reported(Add({KeepalivedUp}, {<<"vrrp", "signalled">>}))>>,
          {<<"vrrp", "signalled">>}, {})

vrrp_restart ==
  Service(<<Reported([Add({}, {KeepalivedUp}) EXCEPT !.clears = {"vrrp"}])>>, {KeepalivedUp}, {})

\* The first daemon found active is restarted; with none active, the second.
flow_restart ==
  Service(<< [Check({<<"up", "pmacctd">>}) EXCEPT !.bad = "skip"],
             [Reported(Add({}, {<<"up", "pmacctd">>})) EXCEPT !.good = "done"],
             Ignored(Check({<<"up", "softflowd">>})),
             Reported(Add({}, {<<"up", "softflowd">>})) >>, {}, {})

Exporter == <<"up", "snmpd">>
AtBoot   == <<"enabled", "snmpd">>
configure_exporter(enable) ==
  IF enable
  THEN Service(<<Reported(Add({}, {Exporter, AtBoot}))>>, {Exporter, AtBoot}, {})
  ELSE Service(<<Reported([Look EXCEPT !.drops = {Exporter, AtBoot}])>>, {}, {Exporter, AtBoot})

exporter_restart == Service(<<Reported(Add({}, {Exporter}))>>, {Exporter}, {})

-----------------------------------------------------------------------------
(* accel-ppp itself.                                                       *)

AccelUp  == <<"up", "accel-ppp">>
Draining == <<"accel-ppp", "draining">>

initiate_shutdown(mode) ==
  IF mode = "soft"
  THEN Service(<<Ignored(AccelCmd(Look)), AccelCmd(Add({}, {Draining}))>>, {Draining}, {})
  ELSE Service(<<Ignored(AccelCmd(Look)), AccelCmd(Delete(AccelUp, {"accel-ppp"}))>>,
               {}, {AccelUp})

cancel_shutdown ==
  Service(<<Ignored(AccelCmd(Look)), AccelCmd([Look EXCEPT !.drops = {Draining}])>>,
          {}, {Draining})

service_action(action) ==
  CASE action = "reload" -> Service(<<AccelCmd(Look)>>, {}, {})
    [] action = "stop"   -> Service(<<[Look EXCEPT !.clears = {"accel-ppp"}, !.drops = {AccelUp}]>>,
                                    {}, {AccelUp})
    [] OTHER             -> Service(<<[Add({}, {AccelUp}) EXCEPT
                                         !.clears = IF action = "restart" THEN {"accel-ppp"} ELSE {}]>>,
                                    {AccelUp}, {})

Filtered == <<"mac-filter", "m">>
mac_filter(action) ==
  IF action = "add" THEN Service(<<AccelCmd(Add({}, {Filtered}))>>, {Filtered}, {})
                    ELSE Service(<<AccelCmd([Look EXCEPT !.drops = {Filtered}])>>, {}, {Filtered})

-----------------------------------------------------------------------------
(* What may be asked for, and where.                                       *)

FirewallRequests ==
  {set_sysctl(a, b) : a \in Levels, b \in Levels}
    \cup {setup_masquerade(l) : l \in Links} \cup {remove_masquerade, save_ruleset}
    \cup {create_group(t, e) : t \in GroupTypes, e \in BOOLEAN}
    \cup {delete_group(t) : t \in GroupTypes} \cup {add_members(t) : t \in GroupTypes}
    \cup {create_zone, delete_zone}

TrackingRequests ==
  {set_table_size(n) : n \in Levels} \cup {set_conntrack(n) : n \in Levels}
    \cup {set_timeout(k, 1) : k \in Timeouts \cup {"unknown"}}
    \cup {apply_profile(v) : v \in Levels} \cup {flush_table}

NetworkRequests ==
  {configure_interface(p) : p \in SUBSET Parts}
    \cup {create_vlan(a) : a \in BOOLEAN} \cup {set_vlan_state(s) : s \in {"up", "down"}}
    \cup {delete_vlan, add_route, delete_route}
    \cup {set_dns(v, l) : v \in Levels, l \in BOOLEAN}

DaemonRequests ==
  {set_forwarders(v) : v \in Levels} \cup {configure_exporter(e) : e \in BOOLEAN}
    \cup {flush_cache, dhcp_restart, relay_restart, vrrp_failover, vrrp_restart,
          flow_restart, exporter_restart}

AccelRequests ==
  {initiate_shutdown(m) : m \in {"soft", "hard"}} \cup {cancel_shutdown}
    \cup {service_action(a) : a \in {"start", "stop", "restart", "reload"}}
    \cup {mac_filter(a) : a \in {"add", "del"}}

HostRequests ==
  FirewallRequests \cup TrackingRequests \cup NetworkRequests \cup DaemonRequests \cup AccelRequests

\* A host as installed, and one on which everything has been set up.
Bare == {<<"ip_forward", 0>>, <<"ip6_forward", 0>>, <<"90-dawos.conf", <<0, 0>>>>,
         <<"conntrack_max", 0>>, <<"91-dawos-conntrack.conf", 0>>,
         <<"90-conntrack.conf", 0>>, <<"tcp_timeout_established", 0>>, <<"udp_timeout", 0>>,
         <<"tracked", "old">>, <<"cached", "old">>, <<"mtu", 0>>, <<"link", "up">>,
         <<"resolv.conf", 0>>, <<"resolved drop-in", 0>>, <<"resolved runs", 0>>,
         <<"dawos-forwarding.conf", 0>>, <<"dnsmasq runs", 0>>, AccelUp}
Furnished ==
  Bare \cup {NatTable, NatChain, FilterTable, <<"set", "port">>, <<"element", "port">>, Zone,
             <<"zone chain", "input">>, <<"address", "b">>, Vlan, <<"vlan link", "up">>, Route,
             DnsmasqUp, KeepalivedUp, <<"up", "pmacctd">>, Exporter, AtBoot}

\* accel-ppp exits when the last session of a soft shutdown has ended.
Drained == [Delete(AccelUp, {"accel-ppp"}) EXCEPT !.needs = {AccelUp, Draining}]

\* Requests that refuse to start over when cut short: what their first
\* command has made is in the way of the same command.
RefusesOver ==
  {configure_interface(p) : p \in SUBSET Parts} \cup {create_vlan(a) : a \in BOOLEAN}

\* Nothing is expected of such a request when it is made again.
ASSUME FragileAssumption == RefusesOver \subseteq Fragile

-----------------------------------------------------------------------------
(* The files that outlive a boot.                                          *)

\* What is set together: a kernel or a daemon, and the files that tell it.
ForwardingKinds == {"ip_forward", "ip6_forward", "90-dawos.conf"}
ResolverKinds   == {"resolved drop-in", "resolved runs"}
TrackingKinds   == {"conntrack_max", "90-conntrack.conf", "91-dawos-conntrack.conf"}

\* The file says what runs; of the two files with the size of the table, at
\* least one.
Forwarding(F) ==
  \A v4, v6 \in Levels :
    <<"90-dawos.conf", <<v4, v6>>>> \in F <=>
      <<"ip_forward", v4>> \in F /\ <<"ip6_forward", v6>> \in F
Resolution(F) ==
  \A v \in Levels : <<"resolved drop-in", v>> \in F <=> <<"resolved runs", v>> \in F
Tracking(F) ==
  \A n \in Levels :
    <<"conntrack_max", n>> \in F =>
      <<"90-conntrack.conf", n>> \in F \/ <<"91-dawos-conntrack.conf", n>> \in F

ASSUME RequestsAssumption == Requests \subseteq HostRequests /\ Spontaneous \subseteq {Drained}
ASSUME SettingsAssumption == Settings \subseteq {ForwardingKinds, ResolverKinds, TrackingKinds}
ASSUME HostsAssumption ==
  \A F \in Hosts : /\ Forwarding(F) /\ Resolution(F) /\ Tracking(F)
                   /\ \A f \in F : f = <<f[1], f[2]>>

Settled(setting) == setting \in calm /\ \A h \in Handlers : ~Midway(h, setting)

\* Whatever is asked for, fails, overlaps or is cut short elsewhere, a file
\* and what it tells part only where a command that sets one of them has
\* failed, was cut short, or came between two of another request.
FilesFollow ==
  /\ Settled(ForwardingKinds) => Forwarding(host)
  /\ Settled(ResolverKinds) => Resolution(host)
  /\ Settled(TrackingKinds) => Tracking(host)
=============================================================================
