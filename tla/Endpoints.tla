------------------------------ MODULE Endpoints ------------------------------
(***************************************************************************)
(* The handlers of the REST API, router by router: who may call each of    *)
(* them, whether it changes anything, which exceptions of its service it   *)
(* turns into which status, and which statuses it raises of its own        *)
(* accord.  What a handler's service does is modelled elsewhere.           *)
(***************************************************************************)
EXTENDS Naturals, FiniteSets

Roles == {"none", "viewer", "operator", "admin"}

\* The numeric weights of rbac.py; "none" is a caller, or an endpoint,
\* without a key.
Weight == [role \in Roles |->
  CASE role = "none" -> 0 [] role = "viewer" -> 1 [] role = "operator" -> 2 [] OTHER -> 3]

\* What a service may raise; OtherError stands for every exception that no
\* handler names.
Exceptions == {"ValueError", "KeyError", "RuntimeError", "FileNotFoundError", "OtherError"}

\* The clauses of a handler's try statement.
On(exception, status) == {<<exception, status>>}
Fails      == On("Exception", 500)
OnlyNoFile == On("FileNotFoundError", 404)
NoFile     == Fails \cup OnlyNoFile
NotInstalled == On("RuntimeError", 500) \cup On("RuntimeError", 503)

Endpoint(method, name, role, clauses, changes) ==
  [method |-> method, name |-> name, role |-> role, clauses |-> clauses,
   refuses |-> {}, changes |-> changes, exempt |-> FALSE]

Read(method, name, role, clauses) == Endpoint(method, name, role, clauses, FALSE)
\* ApiKey is OperatorKey.
Operate(method, name, clauses)    == Endpoint(method, name, "operator", clauses, TRUE)
Administer(method, name, clauses) == Endpoint(method, name, "admin", clauses, TRUE)

Refusing(statuses, e) == [e EXCEPT !.refuses = statuses]
\* @limiter.exempt.
Exempt(e) == [e EXCEPT !.exempt = TRUE]

\* The statuses a handler answers an exception with; none when it escapes.
StatusesOn(e, exception) ==
  LET of(x) == {clause[2] : clause \in {c \in e.clauses : c[1] = x}}
  IN  IF of(exception) # {} THEN of(exception) ELSE of("Exception")

-----------------------------------------------------------------------------
AuditEndpoints ==
  { Read("GET", "list_audit_entries", "admin", {}) }

AuthEndpoints ==
  { Read("POST", "generate_key", "admin", {}),
    Read("GET", "rbac_status", "admin", {}) }

BulkEndpoints ==
  { Operate("POST", "bulk_terminate", {}),
    Operate("POST", "bulk_ratelimit", {}),
    Operate("POST", "bulk_shaper_restore", {}) }

CheckpointEndpoints1 ==
  { Read("GET", "list_revisions", "viewer", {}),
    Read("GET", "diff_revision", "viewer", NoFile),
    Administer("POST", "rollback", NoFile),
    Read("GET", "revision_content", "viewer", OnlyNoFile) }

CheckpointEndpoints2 ==
  { Read("GET", "compare_revisions", "viewer", OnlyNoFile),
    Administer("POST", "guarded_apply", Fails),
    Refusing({409}, Administer("POST", "confirm_apply", {})),
    Read("GET", "apply_status", "viewer", {}) }

ConfigEndpoints ==
  { Read("GET", "get_config", "viewer", NoFile),
    Administer("PUT", "update_config", Fails),
    Read("GET", "list_backups", "viewer", {}),
    Read("POST", "validate_config", "viewer", Fails) }

ConntrackEndpoints1 ==
  { Read("GET", "get_config", "viewer", Fails),
    Operate("PUT", "set_table_size", Fails),
    Read("GET", "get_timeouts", "viewer", Fails),
    Operate("PUT", "set_timeout", Fails \cup On("ValueError", 400)),
    Read("GET", "list_helpers", "viewer", Fails),
    Read("GET", "list_profiles", "viewer", {}) }

ConntrackEndpoints2 ==
  { Operate("POST", "apply_profile", Fails \cup On("ValueError", 400)),
    Operate("POST", "flush_table", Fails) }

ExportEndpoints ==
  { Read("GET", "export_sessions", "viewer", Fails),
    Read("GET", "export_history", "viewer", Fails) }

DhcpEndpoints ==
  { Read("GET", "dhcp_status", "viewer", Fails),
    Read("GET", "dhcp_leases", "viewer", Fails),
    Read("GET", "relay_status", "viewer", Fails),
    Operate("POST", "dhcp_restart", Fails),
    Operate("POST", "relay_restart", Fails) }

DiagnosticsEndpoints ==
  { Read("GET", "doctor", "viewer", Fails) }

DnsForwardingEndpoints ==
  { Read("GET", "dns_fwd_status", "viewer", Fails),
    Read("GET", "dns_fwd_config", "viewer", Fails),
    Operate("PUT", "set_dns_fwd", Fails \cup NotInstalled),
    Operate("POST", "flush_dns_cache", Fails \cup NotInstalled) }

EventsEndpoints ==
  { Read("GET", "list_hooks", "viewer", {}),
    Administer("POST", "add_hook", On("ValueError", 409)),
    Operate("DELETE", "remove_hook", On("KeyError", 404)),
    Administer("POST", "fire_event", Fails \cup On("ValueError", 400)),
    Read("GET", "event_history", "viewer", {}),
    Operate("DELETE", "clear_history", {}) }

FirewallEndpoints1 ==
  { Read("GET", "firewall_status", "viewer", Fails),
    Read("GET", "list_rules", "viewer", On("RuntimeError", 500)),
    Operate("POST", "enable_masquerade", On("RuntimeError", 400)),
    Operate("DELETE", "disable_masquerade", On("RuntimeError", 400)),
    Operate("POST", "save_rules", On("RuntimeError", 500)),
    Refusing({400}, Read("POST", "validate_ruleset", "operator", Fails)),
    Read("GET", "get_sysctl", "viewer", Fails) }

FirewallEndpoints2 ==
  { Operate("PUT", "set_sysctl", On("RuntimeError", 500)),
    Read("GET", "get_egress_map", "viewer", Fails),
    Operate("POST", "set_egress", On("RuntimeError", 400)),
    Operate("DELETE", "clear_egress", On("RuntimeError", 404) \cup On("RuntimeError", 500)),
    Operate("POST", "add_public_ip", On("RuntimeError", 400)) }

FirewallEndpoints3 ==
  { Operate("DELETE", "remove_public_ip", On("RuntimeError", 400)),
    Read("GET", "full_nat_status", "viewer", Fails),
    Read("GET", "box_egress_status", "viewer", Fails),
    Operate("POST", "box_egress_toggle", Fails \cup On("ValueError", 400)),
    Read("GET", "conntrack_status", "viewer", Fails) }

FirewallEndpoints4 ==
  { Operate("PUT", "conntrack_tune", Fails),
    Read("GET", "snmp_status", "viewer", Fails) }

FlowEndpoints ==
  { Read("GET", "flow_status", "viewer", Fails),
    Read("GET", "flow_collectors", "viewer", Fails),
    Read("GET", "flow_stats", "viewer", Fails),
    Operate("POST", "flow_restart", Fails) }

GroupsEndpoints ==
  { Read("GET", "list_groups", "viewer", Fails),
    Operate("POST", "create_group", Fails \cup On("ValueError", 400) \cup On("Exception", 409)),
    Operate("DELETE", "delete_group", Fails \cup On("Exception", 404)),
    Operate("POST", "add_members", Fails) }

HealthEndpoints ==
  { Exempt(Read("GET", "health", "none", {})),
    Exempt(Refusing({503}, Read("GET", "readiness", "none", On("FileNotFoundError", 503)))) }

IpPoolEndpoints ==
  { Read("GET", "list_pools", "viewer", NoFile),
    Operate("POST", "add_pool", NoFile \cup On("ValueError", 409) \cup On("ValueError", 422)),
    Operate("DELETE", "remove_pool", NoFile \cup On("ValueError", 404)),
    Read("GET", "pool_usage", "viewer", Fails),
    Read("GET", "pool_detail", "viewer", NoFile) }

LimitsEndpoints ==
  { Read("GET", "get_limits", "viewer", NoFile),
    Operate("PUT", "set_limits", NoFile),
    Read("GET", "get_interface_limit", "viewer", NoFile) }

LldpEndpoints ==
  { Read("GET", "lldp_status", "viewer", Fails),
    Read("GET", "lldp_neighbors", "viewer", Fails),
    Read("GET", "lldp_interface", "viewer", Fails) }

LogsEndpoints ==
  { Read("GET", "tail_logs", "viewer", On("RuntimeError", 500)),
    Read("GET", "stream_logs", "viewer", {}) }

MetricsEndpoints ==
  { Exempt(Refusing({401}, Read("GET", "prometheus_metrics", "none", {}))) }

MonitoringEndpoints ==
  { Read("GET", "monitoring_status", "viewer", Fails),
    Read("GET", "exporter_metrics", "viewer", Fails),
    Operate("POST", "configure_exporter", Fails),
    Operate("POST", "exporter_restart", Fails) }

NetworkEndpoints1 ==
  { Read("GET", "list_interfaces", "viewer", Fails),
    Read("GET", "get_interface", "viewer", On("RuntimeError", 404)),
    Operate("PUT", "configure_interface", On("RuntimeError", 400)),
    Read("GET", "get_throughput", "viewer", Fails),
    Operate("POST", "create_vlan", On("RuntimeError", 400)) }

NetworkEndpoints2 ==
  { Operate("DELETE", "delete_vlan", On("RuntimeError", 404) \cup On("RuntimeError", 500)),
    Read("GET", "list_vlans", "viewer", On("RuntimeError", 500)),
    Operate("PUT", "set_vlan_state", On("RuntimeError", 400) \cup On("ValueError", 422)),
    Read("GET", "list_routes", "viewer", Fails),
    Operate("POST", "add_route", On("RuntimeError", 400)),
    Operate("DELETE", "delete_route", On("RuntimeError", 400)) }

NetworkEndpoints3 ==
  { Read("GET", "get_dns", "viewer", Fails),
    Operate("PUT", "set_dns", Fails) }

NtpEndpoints ==
  { Read("GET", "ntp_status_endpoint", "viewer", Fails),
    Read("GET", "ntp_sources_endpoint", "viewer", Fails) }

PadoEndpoints ==
  { Read("GET", "get_pado_delay", "viewer", NoFile),
    Operate("PUT", "set_pado_delay", NoFile \cup On("ValueError", 400)) }

PlaybooksEndpoints ==
  { Read("GET", "list_playbooks", "viewer", {}),
    Refusing({404}, Administer("POST", "run_playbook", {})) }

PppoeEndpoints1 ==
  { Read("GET", "list_pppoe_interfaces", "viewer", NoFile),
    Operate("POST", "add_pppoe_interface", NoFile \cup On("ValueError", 409)),
    Operate("DELETE", "remove_pppoe_interface", NoFile \cup On("ValueError", 404)),
    Read("GET", "list_mac_filter", "viewer", Fails),
    Operate("POST", "add_mac", Fails) }

PppoeEndpoints2 ==
  { Operate("DELETE", "delete_mac", Fails) }

PppoeRuntimeEndpoints ==
  { Read("GET", "get_pppoe_runtime", "viewer", NoFile),
    Operate("PUT", "set_pppoe_runtime", NoFile \cup On("ValueError", 400)) }

RadiusEndpoints ==
  { Read("GET", "radius_config", "viewer", Fails),
    Read("GET", "radius_status", "viewer", Fails),
    Read("GET", "radius_check", "viewer", Fails) }

RoutingEndpoints1 ==
  { Read("GET", "bgp_status", "viewer", Fails),
    Read("GET", "bgp_routes", "viewer", Fails),
    Read("GET", "ospf_status", "viewer", Fails),
    Read("GET", "ospf_neighbors", "viewer", Fails),
    Read("GET", "ospf_routes", "viewer", Fails),
    Read("GET", "rip_status", "viewer", Fails) }

RoutingEndpoints2 ==
  { Read("GET", "rip_routes", "viewer", Fails),
    Read("GET", "bfd_peers", "viewer", Fails),
    Read("GET", "bfd_summary", "viewer", Fails) }

SchedulerEndpoints ==
  { Read("GET", "list_jobs", "viewer", {}),
    Administer("POST", "add_job", Fails \cup On("ValueError", 409)),
    Operate("DELETE", "remove_job", On("KeyError", 404)),
    Administer("POST", "run_job", Fails \cup On("KeyError", 404)) }

ServiceEndpoints1 ==
  { Read("GET", "service_status", "viewer", On("Exception", 200)),
    Refusing({403}, Administer("POST", "run_command", On("Exception", 200))) }

ServiceEndpoints2 ==
  { Refusing({400}, Administer("POST", "initiate_shutdown", Fails)),
    Administer("POST", "cancel_shutdown", Fails) }

ServiceEndpoints3 ==
  { Refusing({500}, Administer("POST", "service_action", Fails)) }

SessionControlEndpoints ==
  { Read("GET", "get_session_by_sid", "viewer", Fails),
    Read("GET", "get_session_by_ip", "viewer", Fails),
    Read("GET", "session_snapshot", "viewer", Fails),
    Operate("POST", "restart_session", Fails),
    Operate("POST", "drop_by_mac", Fails) }

HistoryEndpoints ==
  { Read("GET", "get_history", "viewer", Fails),
    Operate("POST", "take_snapshot", Fails),
    Operate("DELETE", "purge", Fails),
    Read("GET", "get_stats", "viewer", Fails) }

SessionsEndpoints1 ==
  { Read("GET", "list_sessions", "viewer", Fails \cup On("ValueError", 422)),
    Read("GET", "session_stats", "viewer", Fails),
    Read("GET", "find_session", "viewer", Fails \cup On("ValueError", 422)) }

SessionsEndpoints2 ==
  { Read("GET", "search_by_mac", "viewer", Fails \cup On("ValueError", 422)),
    Read("GET", "search_by_ip", "viewer", Fails \cup On("ValueError", 422)),
    Read("GET", "search_by_sid", "viewer", Fails \cup On("ValueError", 422)),
    Refusing({400}, Operate("POST", "terminate_session", Fails)) }

SystemEndpoints ==
  { Read("GET", "system_info", "viewer", {}),
    Read("GET", "system_metrics", "viewer", {}),
    Read("GET", "system_stats", "viewer", On("RuntimeError", 500)) }

TrafficEndpoints1 ==
  { Read("GET", "stream_user_traffic", "viewer", {}),
    Read("GET", "stream_aggregate_traffic", "viewer", {}),
    Read("GET", "queue_stats", "viewer", Fails \cup On("ValueError", 404)),
    Operate("POST", "change_ratelimit", Fails \cup On("ValueError", 404)) }

TrafficEndpoints2 ==
  { Operate("DELETE", "restore_ratelimit", Fails \cup On("ValueError", 404)) }

VrrpEndpoints ==
  { Read("GET", "vrrp_status", "viewer", Fails),
    Read("GET", "vrrp_group_detail", "viewer", Fails),
    Operate("POST", "vrrp_failover", Fails),
    Operate("POST", "vrrp_restart", Fails) }

ZonesEndpoints ==
  { Read("GET", "list_zones", "viewer", Fails),
    Read("GET", "zone_detail", "viewer", Fails),
    Refusing({409}, Operate("POST", "create_zone", Fails)),
    Refusing({404}, Operate("DELETE", "delete_zone", Fails)) }

-----------------------------------------------------------------------------
Api == UNION
  { AuditEndpoints, AuthEndpoints, BulkEndpoints, CheckpointEndpoints1,
    CheckpointEndpoints2, ConfigEndpoints, ConntrackEndpoints1,
    ConntrackEndpoints2, ExportEndpoints, DhcpEndpoints,
    DiagnosticsEndpoints, DnsForwardingEndpoints, EventsEndpoints,
    FirewallEndpoints1, FirewallEndpoints2, FirewallEndpoints3,
    FirewallEndpoints4, FlowEndpoints, GroupsEndpoints, HealthEndpoints,
    IpPoolEndpoints, LimitsEndpoints, LldpEndpoints, LogsEndpoints,
    MetricsEndpoints, MonitoringEndpoints, NetworkEndpoints1,
    NetworkEndpoints2, NetworkEndpoints3, NtpEndpoints, PadoEndpoints,
    PlaybooksEndpoints, PppoeEndpoints1, PppoeEndpoints2,
    PppoeRuntimeEndpoints, RadiusEndpoints, RoutingEndpoints1,
    RoutingEndpoints2, SchedulerEndpoints, ServiceEndpoints1,
    ServiceEndpoints2, ServiceEndpoints3, SessionControlEndpoints,
    HistoryEndpoints, SessionsEndpoints1, SessionsEndpoints2,
    SystemEndpoints, TrafficEndpoints1, TrafficEndpoints2, VrrpEndpoints,
    ZonesEndpoints }
=============================================================================
