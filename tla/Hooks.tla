-------------------------------- MODULE Hooks --------------------------------
(***************************************************************************)
(* frontend/src/api/hooks: what the pages of the frontend read, and what   *)
(* each mutation hook changes and invalidates.  A query key is a sequence; *)
(* an id in it is one token ("port", "vlan", "file").  A mutation is a     *)
(* record: page is the route its card is on, needs the queries without     *)
(* whose data the card offers no write, filters the keys its onSuccess     *)
(* invalidates, own the resources that the hooks' comments say it changes. *)
(***************************************************************************)
EXTENDS SequencesExt

Identity        == <<"identity">>
SystemInfo      == <<"configuration", "system">>
IpConfig        == <<"configuration", "ip">>
Ports           == <<"configuration", "ports">>
PortForm        == <<"configuration", "ports", "port">>
DeviceFeatures  == <<"configuration", "device-features">>
FaultDetection  == <<"configuration", "fault-detection">>
Monitor         == <<"configuration", "monitor">>
BobPorts        == <<"configuration", "bob-ports">>
SupportPage     == <<"configuration", "support-page">>
Qos             == <<"configuration", "qos">>
Cos             == <<"configuration", "qos", "cos">>
UserPri         == <<"configuration", "qos", "user-pri">>
VlanPri         == <<"configuration", "qos", "vlan-pri">>
Dscp            == <<"configuration", "qos", "dscp">>
Diffserv        == <<"configuration", "qos", "diffserv">>
WebAccess       == <<"security", "web-access">>
WebManagers     == <<"security", "web-managers">>
PerPort         == <<"security", "per-port">>
PerPortGroup    == <<"security", "per-port", "group">>
Intrusion       == <<"security", "intrusion">>
SslState        == <<"security", "ssl-state">>
Vlans           == <<"vlans">>
VlanPorts       == <<"vlans", "ports", "vlan">>
Backups         == <<"backups">>
LiveSha         == <<"backups", "live-sha">>
Diff            == <<"backups", "diff", "file">>
Device          == <<"status", "device">>
PortStatus      == <<"status", "ports">>
PortUsage       == <<"status", "port-usage">>
AlertLog        == <<"status", "alert-log">>
AlertDetail     == <<"status", "alert-detail", "event">>
SupportInfo     == <<"support">>

-----------------------------------------------------------------------------
(***************************************************************************)
(* The pages under the guard, and the queries they keep active: those of   *)
(* the page and its dialogs, and the identity that the top bar shows.  The *)
(* route of a port (/status/ports/$port) is a child of the status page,    *)
(* which has no outlet: what is rendered there is the status page.         *)
(***************************************************************************)
QosReads == {Cos, UserPri, VlanPri, Dscp, Diffserv}

ConfigurationReads == {SystemInfo, IpConfig, Ports, PortForm, DeviceFeatures, FaultDetection,
                       Monitor, BobPorts, SupportPage} \cup QosReads

SecurityReads == {WebManagers, PerPortGroup, Intrusion, SslState}

PageReads == [identity      |-> {},
              status        |-> {Device, PortStatus, PortUsage, AlertLog, AlertDetail},
              configuration |-> ConfigurationReads,
              security      |-> SecurityReads,
              vlans         |-> {Vlans, VlanPorts},
              backups       |-> {Backups, LiveSha, Diff},
              diagnostics   |-> {},
              support       |-> {SupportInfo}]

Pages == DOMAIN PageReads

Reads(page) == IF page \in Pages THEN PageReads[page] \cup {Identity} ELSE {}

\* The queries with a refetchInterval.
Polls(page) == IF page = "status" THEN {Device, PortStatus, PortUsage, AlertLog} ELSE {}

-----------------------------------------------------------------------------
(***************************************************************************)
(* The mutations.                                                          *)
(***************************************************************************)
\* The autobackup before a write, which the list shows, and the live content.
Rollback == {Backups, LiveSha}

\* A write with an autobackup, of one resource shown where it is edited.
Edits(page, key) ==
    [page |-> page, needs |-> {key}, filters |-> {key, Backups}, own |-> {key} \cup Rollback]

\* A write whose card asks for the switch address, which the identity gives.
Guarded(hook) == [hook EXCEPT !.needs = @ \cup {Identity}]

\* Configuration.
SetSystemInfo == [page    |-> "configuration",
                  needs   |-> {SystemInfo},
                  filters |-> {SystemInfo, Identity, Backups},
                  own     |-> {SystemInfo, Identity} \cup Rollback]

SetIpConfig == Guarded([page    |-> "configuration",
                        needs   |-> {IpConfig},
                        filters |-> {IpConfig, Identity, Backups},
                        own     |-> {IpConfig, Identity} \cup Rollback])

SetPortConfig == [page    |-> "configuration",
                  needs   |-> {PortForm},
                  filters |-> {Ports, PortForm, Backups},
                  own     |-> {Ports, PortForm} \cup Rollback]

SetDeviceFeatures == Edits("configuration", DeviceFeatures)
SetFaultDetection == Edits("configuration", FaultDetection)
SetMonitor        == Edits("configuration", Monitor)

SetBobPorts == [page    |-> "configuration",
                needs   |-> {BobPorts},
                filters |-> {BobPorts, Ports, Backups},
                own     |-> {BobPorts, Ports} \cup Rollback]

SetSupportPage    == Edits("configuration", SupportPage)

\* QoS: invalidateQos for one table, or for all of them.
SetQosCos      == Edits("configuration", Cos)
SetQosUserPri  == Edits("configuration", UserPri)
SetQosVlanPri  == Edits("configuration", VlanPri)
SetQosDscp     == Edits("configuration", Dscp)
SetQosDiffserv == Edits("configuration", Diffserv)
SetQosMode     == [page    |-> "configuration",
                   needs   |-> {},
                   filters |-> {Qos, Backups},
                   own     |-> QosReads \cup Rollback]

\* Security.  The web-access card writes whether or not it knows the SSL state.
SetWebAccess == Guarded([page    |-> "security",
                         needs   |-> {},
                         filters |-> {WebAccess, SslState, Backups},
                         own     |-> {WebAccess, SslState} \cup Rollback])

SetWebManager == Guarded([page    |-> "security",
                          needs   |-> {},
                          filters |-> {WebManagers, Backups},
                          own     |-> {WebManagers} \cup Rollback])

SetDevicePasswords == Guarded([page    |-> "security",
                               needs   |-> {},
                               filters |-> {WebAccess, Backups},
                               own     |-> {WebAccess} \cup Rollback])

SetPerport == [page    |-> "security",
               needs   |-> {PerPortGroup},
               filters |-> {PerPort, Backups},
               own     |-> {PerPortGroup} \cup Rollback]

ResetIntrusion == [page    |-> "security",
                   needs   |-> {},
                   filters |-> {Intrusion, Backups},
                   own     |-> {Intrusion} \cup Rollback]

\* VLANs: useInvalidateVlans, the list and with it the memberships.
VlanWrite(key) == Guarded([page    |-> "vlans",
                           needs   |-> key,
                           filters |-> {Vlans, Backups},
                           own     |-> {Vlans, VlanPorts} \cup Rollback])

AddVlan      == VlanWrite({})
DeleteVlans  == VlanWrite({Vlans})
RenameVlan   == VlanWrite({Vlans})
SetVlanPorts == VlanWrite({VlanPorts})

\* Backups.  Of what a restore changes its hook promises the rollback point.
CreateBackup == [page |-> "backups", needs |-> {}, filters |-> {Backups}, own |-> {Backups}]

DeleteBackup == [CreateBackup EXCEPT !.needs = {Backups}]

RestoreBackup == Guarded([page    |-> "backups",
                          needs   |-> {Backups},
                          filters |-> {Backups},
                          own     |-> Rollback \cup {Diff}])

\* The alert log, which is no configuration: no backup.
AcknowledgeAlerts == [page    |-> "status",
                      needs   |-> {AlertLog},
                      filters |-> {AlertLog},
                      own     |-> {AlertLog}]

DeleteAlerts == AcknowledgeAlerts

\* Those with a card: useSetDefaultGateway and useSetQosCosProto have none, and
\* the diagnostics hooks (ping, link test, reset) invalidate nothing.
AllHooks ==
    {SetSystemInfo, SetIpConfig, SetPortConfig, SetDeviceFeatures, SetFaultDetection,
     SetMonitor, SetBobPorts, SetSupportPage,
     SetQosCos, SetQosUserPri, SetQosVlanPri, SetQosDscp, SetQosDiffserv, SetQosMode,
     SetWebAccess, SetWebManager, SetDevicePasswords, SetPerport, ResetIntrusion,
     AddVlan, DeleteVlans, RenameVlan, SetVlanPorts,
     CreateBackup, DeleteBackup, RestoreBackup, AcknowledgeAlerts, DeleteAlerts}

\* invalidateQueries (external): a filter matches the keys it is a prefix of.
Matches(filter, key) == IsPrefix(filter, key)

Invalidated(hook, key) == \E filter \in hook.filters : Matches(filter, key)
=============================================================================
