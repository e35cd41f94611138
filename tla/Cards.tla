-------------------------------- MODULE Cards --------------------------------
(***************************************************************************)
(* frontend/src/features: the cards of the frontend that edit something,   *)
(* as data for the machine of Forms.  A setting and a form map fields to   *)
(* values.  A field stands for those that the card treats alike, a value   *)
(* for those that it does not tell apart: formats and lengths, which the   *)
(* API checks, are left out.                                               *)
(*                                                                         *)
(* A card has: the settings of the switch it is about; its forms; blank,   *)
(* the form it starts with; seed, the form for a setting; ready, the       *)
(* <<form, setting>> for which its button is enabled; sends, the bodies of *)
(* its requests, in order; shows, what its inputs display, blanks at the   *)
(* ends aside; carries, for a setting, the values with which it sends what *)
(* was not touched.  That is the setting itself, but for five cards: the   *)
(* trimmed name (system), a feature that is not reported (features), the   *)
(* mode and the limit that are not known (perport), the policy (diffserv), *)
(* and the certificate mode, which has no input (web).                     *)
(* What it is, a set of: query, a query reads the setting; needs, there    *)
(* are no inputs without its data; reseeds, it has useServerSync; opens,   *)
(* the inputs are behind an Edit button; fresh, which fills the form;      *)
(* reverts, a button puts back the data; locks, the inputs are disabled    *)
(* while a write is under way; danger, the write is behind                 *)
(* DangerConfirmDialog; clears, a success empties the form; keeps, what    *)
(* was sent is taken for the data; forgets, see EditAnother.               *)
(***************************************************************************)
EXTENDS SequencesExt

Text   == {"", "text"}
Padded == Text \cup {"blank", "padded"}
Kept   == {"", "padded"}

\* String.trim, of texts that may be all blank, or have blanks at the ends.
Trimmed(t) == IF t = "padded" THEN "text" ELSE IF t = "blank" THEN "" ELSE t

OnOff == {"on", "off"}
Ports == {"p1", "p2"}

\* useServerSync, and a button that sends all of the form.
Editor(settings, forms, seed, blank) ==
    [settings |-> settings, forms |-> forms, seed |-> seed, blank |-> blank,
     ready    |-> forms \X settings,
     sends    |-> [p \in forms \X settings |-> <<p[1]>>],
     shows    |-> [f \in forms |-> f],
     carries  |-> [s \in settings |-> s],
     is       |-> {"query", "needs", "reseeds", "reverts"}]

Verbatim(settings) == [s \in settings |-> s]

\* The button needs a difference from the data.
Dirty(pairs) == {p \in pairs : p[1] # p[2]}

\* A form of the page itself: nothing reads what it writes.
Local(forms, blank, sent) ==
    [settings |-> {sent[f] : f \in forms},
     forms    |-> forms,
     seed     |-> Verbatim(forms),
     blank    |-> blank,
     ready    |-> forms \X {blank},
     sends    |-> [p \in forms \X {blank} |-> <<sent[p[1]]>>],
     shows    |-> [f \in forms |-> sent[f]],
     is       |-> {}]

-----------------------------------------------------------------------------
(***************************************************************************)
(* Configuration.                                                          *)
(***************************************************************************)
\* The name goes without blanks at its ends, touched or not; the switch may have one
\* with.
TrimName(f) == [f EXCEPT !.name = Trimmed(@)]

\* The contact is as the location, which is sent as it is.
SystemInfoCard ==
    LET Form == [name: Padded, location: Kept]
    IN  [Editor(Form, Form, Verbatim(Form), [name |-> "", location |-> ""])
            EXCEPT !.ready = {p \in Dirty(@) : Trimmed(p[1].name) # ""},
                   !.sends = [p \in DOMAIN @ |-> <<TrimName(p[1])>>],
                   !.shows = [f \in Form |-> TrimName(f)],
                   !.carries = [s \in Form |-> TrimName(s)]]

\* Save asks for a gateway only, then for the IP of the switch.
IpConfigCard ==
    LET Form     == [vlan_id: {"1", "2"}, mode: {"manual", "dhcp"}, gateway: Padded]
        Setting  == {s \in Form : s.gateway = "text"}
        TrimGateway(f) == [f EXCEPT !.gateway = Trimmed(@)]
    IN  [Editor(Setting, Form, Verbatim(Setting),
                [vlan_id |-> "1", mode |-> "manual", gateway |-> ""])
            EXCEPT !.ready = {p \in @ : Trimmed(p[1].gateway) # ""},
                   !.sends = [p \in DOMAIN @ |-> <<TrimGateway(p[1])>>],
                   !.shows = [f \in Form |-> TrimGateway(f)],
                   !.is = @ \cup {"opens", "danger"}]

\* Variant with a defect: null is put into the form.
AsReported(s) == s

\* A feature that the switch does not report is shown, and sent, as off.
OffIfNone(s) == [f \in DOMAIN s |-> IF s[f] = "none" THEN "off" ELSE s[f]]

DeviceFeaturesCard ==
    LET Setting == [igmp: OnOff \cup {"none"}, spanning_tree: OnOff]
        Form    == [igmp: OnOff, spanning_tree: OnOff]
        Seed    == [s \in Setting |-> OffIfNone(s)]
    IN  [Editor(Setting, Form, Seed, [igmp |-> "off", spanning_tree |-> "off"])
            EXCEPT !.ready = {p \in @ : p[1] # Seed[p[2]]}, !.carries = Seed]

FaultDetectionCard ==
    LET Form == [sensitivity: {"never", "medium", "high"}]
    IN  [Editor(Form, Form, Verbatim(Form), [sensitivity |-> "medium"]) EXCEPT !.ready = Dirty(@)]

SupportPageCard ==
    LET Form == [support_url: Text, mgmt_url: Text]
    IN  [Editor(Form, Form, Verbatim(Form), [support_url |-> "", mgmt_url |-> ""])
            EXCEPT !.ready = {p \in Dirty(@) : p[1].support_url # "" /\ p[1].mgmt_url # ""}]

\* The sources are not read: none is ticked at first.  A checkbox is there for
\* every port but the destination; the tick of a port that becomes that is hidden,
\* and sent.  A switch without a destination is as one with the first candidate.
MonitorCard ==
    LET Setting == [enabled: OnOff, dest: Ports]
        Form    == [enabled: OnOff, dest: Ports, sources: SUBSET Ports]
        Seed    == [s \in Setting |-> [enabled |-> s.enabled, dest |-> s.dest, sources |-> {}]]
    IN  [Editor(Setting, Form, Seed, [enabled |-> "off", dest |-> "p1", sources |-> {}])
            EXCEPT !.ready = {p \in @ : p[1].enabled = "on" => p[1].sources # {}},
                   !.sends = [p \in DOMAIN @ |-> IF p[1].enabled = "on"
                                                 THEN <<p[1]>>
                                                 ELSE <<[enabled |-> "off"]>>],
                   !.shows = [f \in Form |-> IF f.enabled = "on"
                                             THEN [f EXCEPT !.sources = @ \ {f.dest}]
                                             ELSE [enabled |-> "off"]],
                   !.is = @ \ {"reverts"}]

\* Variant with a defect: the checkbox is forced off, its state is sent.
RawFlow(f) == f

\* effectiveFlow: no flow control with a half-duplex mode; nor has the switch it.
EffectiveFlow(f) == [f EXCEPT !.flow = IF f.mode = "half" THEN "off" ELSE @]

\* The dialog of PortConfigTable: a name is not taken away.
EditPortDialog ==
    LET Form    == [name: Text, mode: {"auto", "half"}, flow: OnOff]
        Setting == {s \in Form : ~(s.mode = "half" /\ s.flow = "on")}
    IN  [Editor(Setting, Form, Verbatim(Setting), [name |-> "", mode |-> "auto", flow |-> "off"])
            EXCEPT !.ready = {p \in @ : p[1].name # "" \/ p[2].name = ""},
                   !.sends = [p \in DOMAIN @ |-> <<EffectiveFlow(p[1])>>],
                   !.shows = [f \in Form |-> EffectiveFlow(f)],
                   !.is = @ \cup {"opens", "fresh"}]

\* The ports that the form wants in the state v and the data have in another.
Staged(f, setting, v) ==
    [x \in {y \in DOMAIN f : f[y] = v /\ setting[y] # v} |-> v]

\* Variant with a defect: one PUT at most.
OneApply(f, setting) ==
    IF \E x \in DOMAIN f : f[x] = "on" /\ setting[x] = "off"
    THEN <<Staged(f, setting, "on")>>
    ELSE <<Staged(f, setting, "off")>>

\* One PUT for the ports to enable, then one for those to disable, if any.
HandleApply(f, setting) ==
    LET Batch(body) == IF DOMAIN body = {} THEN <<>> ELSE <<body>>
    IN  Batch(Staged(f, setting, "on")) \o Batch(Staged(f, setting, "off"))

BobPortsCard ==
    LET Form == [Ports -> OnOff]
    IN  [Editor(Form, Form, Verbatim(Form), [x \in Ports |-> "off"])
            EXCEPT !.ready = Dirty(@),
                   !.sends = [p \in DOMAIN @ |-> HandleApply(p[1], p[2])]]

-----------------------------------------------------------------------------
(***************************************************************************)
(* QoS.                                                                    *)
(***************************************************************************)
\* The switch does not report its mode: QosSection keeps the one last applied.
QosModeSelector ==
    LET Form == [mode: {"1", "2", "3"}]
    IN  [Editor(Form, Form, Verbatim(Form), [mode |-> "2"])
            EXCEPT !.ready = Dirty(@), !.is = {"keeps", "reverts"}]

\* The codepoint goes with its policy, if it is filled in; so does the priority.
Policies == {"no override", "dscp"}
PolicyFields(f) == {"policy"} \cup (IF f.policy = "dscp" /\ f.dscp # "" THEN {"dscp"} ELSE {})

\* The row that is added; its Add button is always enabled.
CosTableCard ==
    LET Form == [app: {"user", "known"}, port: Text, policy: Policies, dscp: Text]
        Sent == [f \in Form |-> Restrict(f, {"app"} \cup PolicyFields(f) \cup
                    (IF f.app = "user" /\ f.port # "" THEN {"port"} ELSE {}))]
    IN  Local(Form, [app |-> "user", port |-> "", policy |-> "no override", dscp |-> ""], Sent)

UserPriCard ==
    LET Form == [address: Text, policy: Policies, dscp: Text]
        Sent == [f \in Form |-> Restrict(f, {"address"} \cup PolicyFields(f))]
    IN  [Local(Form, [address |-> "", policy |-> "no override", dscp |-> ""], Sent)
            EXCEPT !.ready = {p \in @ : p[1].address # ""}]

\* 255 is "not this one".
VlanPriCard ==
    LET Form    == [vlan_id: Text, mode: {"dscp", "priority"}, value: Text]
        Sent    == [f \in Form |->
                      [vlan_id  |-> f.vlan_id,
                       dscp     |-> IF f.mode = "dscp" THEN f.value ELSE "255",
                       priority |-> IF f.mode = "priority" THEN f.value ELSE "255"]]
    IN  [Local(Form, [vlan_id |-> "", mode |-> "dscp", value |-> ""], Sent)
            EXCEPT !.ready = {p \in @ : p[1].vlan_id # "" /\ p[1].value # ""}]

\* A row that is edited in place: the form is filled when the edit begins.
RowEditor(settings, forms, seed, blank) ==
    [Editor(settings, forms, seed, blank)
        EXCEPT !.is = {"query", "needs", "reverts", "opens", "fresh"}]

\* A row without a priority is edited as 255, "No Override", and 255 takes the
\* priority of a row away.
DscpTableCard ==
    LET Setting == [priority: {"0", "7", "No-override"}]
        Form    == [priority: {"0", "7", "255"}]
        As(v, w, x) == [x EXCEPT !.priority = IF @ = v THEN w ELSE @]
        Wire(f) == As("255", "No-override", f)
    IN  [RowEditor(Setting, Form, [s \in Setting |-> As("No-override", "255", s)],
                   [priority |-> "0"])
            EXCEPT !.sends = [p \in DOMAIN @ |-> <<Wire(p[1])>>],
                   !.shows = [f \in Form |-> Wire(f)]]

\* The edit begins with the codepoint of the row, whatever it is mapped to.
DiffservCard ==
    LET Form == [policy: {"same", "other"}]
        Seed == [s \in Form |-> [policy |-> "same"]]
    IN  [RowEditor(Form, Form, Seed, [policy |-> "same"]) EXCEPT !.carries = Seed]

-----------------------------------------------------------------------------
(***************************************************************************)
(* Security, VLANs, diagnostics.                                           *)
(***************************************************************************)
\* canSubmit: the manager is complete, the operator complete or without a name.
Account == [username: Text, password: Text, confirm: Text]
Confirmed(a) == a.password = a.confirm
NoAccount == [username |-> "", password |-> "", confirm |-> ""]

DevicePasswordsCard ==
    LET Form == [manager: Account, operator: Account]
        Sent == [f \in Form |-> [a \in DOMAIN f |-> Restrict(f[a], {"username", "password"})]]
    IN  [Local(Form, [manager |-> NoAccount, operator |-> NoAccount], Sent) EXCEPT
            !.ready = {p \in @ : /\ Confirmed(p[1].manager) /\ Confirmed(p[1].operator)
                                 /\ p[1].manager.username # "" /\ p[1].manager.password # ""
                                 /\ p[1].operator.username # "" => p[1].operator.password # ""},
            !.is = {"danger", "clears", "reverts"}]

\* Can be saved before the state has been read: with the values it starts with.  The
\* installed certificate is asked for, whichever the switch uses.
WebAccessCard ==
    LET Form    == [ssl: OnOff, port: {"443", "8443"}]
        Setting == [ssl: OnOff, port: {"443", "8443"}, cert: {"create", "installed"}]
        Blank   == [ssl |-> "off", port |-> "443"]
        Seed    == [s \in Setting |-> [ssl |-> s.ssl, port |-> s.port]]
        Body(f) == [ssl |-> f.ssl, port |-> f.port, cert |-> "installed"]
        Clicks  == Form \X (Setting \cup {Blank})
    IN  [Editor(Setting, Form, Seed, Blank) EXCEPT
            !.ready = Clicks,
            !.sends = [p \in Clicks |-> <<Body(p[1])>>],
            !.carries = [s \in Setting |-> [s EXCEPT !.cert = "installed"]],
            !.is = {"query", "reseeds", "danger"}]

\* A mode that the card does not know ("Limited") is edited as Continuous, a limit of
\* zero as one; so is an action of zero.
Resolved(s) == [mode  |-> IF s.mode = "limited" THEN "continuous" ELSE s.mode,
                limit |-> IF s.limit = "0" THEN "1" ELSE s.limit]

PerPortSecurityCard ==
    LET Form    == [mode: {"continuous", "static"}, limit: {"1", "8"}]
        Setting == Form \cup [mode: {"limited"}, limit: {"0"}]
        Seed    == [s \in Setting |-> Resolved(s)]
    IN  [RowEditor(Setting, Form, Seed, [mode |-> "continuous", limit |-> "1"])
            EXCEPT !.carries = Seed, !.is = @ \cup {"forgets"}]

\* Only the ports whose mode differs from the data are sent, if any.
VlanMembershipCard ==
    LET Form == [Ports -> {"no", "tagged"}]
        Diff(f, setting) == Restrict(f, {x \in DOMAIN f : f[x] # setting[x]})
    IN  [Editor(Form, Form, Verbatim(Form), [x \in Ports |-> "no"]) EXCEPT
            !.ready = Dirty(@),
            !.sends = [p \in DOMAIN @ |-> IF p[1] = p[2] THEN <<>> ELSE <<Diff(p[1], p[2])>>],
            !.is = @ \cup {"danger"}]

DeviceResetCard ==
    LET Form == [action: {"reset"}]
    IN  [Local(Form, [action |-> "reset"], Verbatim(Form)) EXCEPT !.is = {"danger"}]

\* Reset flags: no dialog.
IntrusionLogCard == [DeviceResetCard EXCEPT !.is = {}]

\* A target, and at least one packet.
PingCard ==
    LET Form == [destination: Padded, count: {"1", "5"}]
        Sent == [f \in Form |-> [f EXCEPT !.destination = Trimmed(@)]]
    IN  [Local(Form, [destination |-> "", count |-> "5"], Sent)
            EXCEPT !.ready = {p \in @ : Trimmed(p[1].destination) # ""}, !.is = {"locks"}]

LinkTestCard == PingCard

AllCards ==
    [system   |-> SystemInfoCard,      ip       |-> IpConfigCard,
     features |-> DeviceFeaturesCard,  fault    |-> FaultDetectionCard,
     support  |-> SupportPageCard,     monitor  |-> MonitorCard,
     port     |-> EditPortDialog,      bob      |-> BobPortsCard,
     qos_mode |-> QosModeSelector,     cos      |-> CosTableCard,
     user_pri |-> UserPriCard,         vlan_pri |-> VlanPriCard,
     dscp     |-> DscpTableCard,       diffserv |-> DiffservCard,
     password |-> DevicePasswordsCard, web      |-> WebAccessCard,
     perport  |-> PerPortSecurityCard, vlan     |-> VlanMembershipCard,
     reset    |-> DeviceResetCard,     ping     |-> PingCard,
     link     |-> LinkTestCard,        intrusion |-> IntrusionLogCard]

-----------------------------------------------------------------------------
(***************************************************************************)
(* What the request models of the API accept, of what a card could send.   *)
(***************************************************************************)
AcceptedNetwork(c, body) ==
    /\ c = "system" => body.name # ""
    /\ c = "ip" => body.gateway # ""
    /\ c = "support" => body.support_url # "" /\ body.mgmt_url # ""

AcceptedMonitor(c, body) ==
    c = "monitor" /\ body.enabled = "on" => body.sources # {}

AcceptedPort(c, body) ==
    /\ c = "port" => ~(body.mode = "half" /\ body.flow = "on")
    /\ c = "bob" => DOMAIN body # {}

AcceptedQos(c, body) ==
    /\ c \in {"cos", "user_pri"} => (body.policy = "dscp" => "dscp" \in DOMAIN body)
    /\ c = "cos" => (body.app = "user" => "port" \in DOMAIN body)
    /\ c = "vlan_pri" => body.dscp = "255" \/ body.priority = "255"

AcceptedVlan(c, body) == c = "vlan" => DOMAIN body # {}

Accepted(c, body) ==
    /\ AcceptedNetwork(c, body) /\ AcceptedMonitor(c, body) /\ AcceptedPort(c, body)
    /\ AcceptedQos(c, body) /\ AcceptedVlan(c, body)
=============================================================================
