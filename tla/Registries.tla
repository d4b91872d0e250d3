------------------------------ MODULE Registries ------------------------------
(* How a command of the CLI and a client of the SDK come to a provider: the
   configuration file they read, the registry of routes built from it and from the
   installed descriptors, what is registered by hand afterwards, and the connectors
   and credential leases that live while an endpoint is used.  The registry belongs
   to one thread; only the configuration file is shared with other programs. *)
EXTENDS Naturals, Sequences, FiniteSets, SequencesExt

CONSTANTS
  Setups,        \* host, installed descriptors, files, environment, overrides
  Contents,      \* what another program may leave in a configuration file
  Extras,        \* descriptors registered by hand, each with the form it is registered in
  Targets,       \* endpoints a client opens
  Commands,      \* commands of the CLI
  None,
  MaxWork        \* registrations, uses and commands of a behaviour

VARIABLES
  setup, disk, changed, \* what is given, the configuration files, replaced yet
  origin, conf, reg,    \* the place chosen, the configuration, the registry
  moment,               \* "start", "resolved", "ready" or "refused"
  command, stages,      \* the command under way and what it has still to do
  effects, outcome,     \* calls providers received, and the last answer
  leases, alive, closed, again, work

registryVars ==
  <<setup, disk, changed, origin, conf, reg, moment, command, stages, effects, outcome,
    leases, alive, closed, again, work>>

InCli == setup.host = "cli"

-----------------------------------------------------------------------------
(* Configuration *)

Absent == [kind |-> "absent", providers |-> <<>>, credentials |-> <<>>]
Exists(p) == disk[p].kind # "absent"

\* the first of the explicit path, the variable's, the XDG directory's and the home's
Chosen ==
  IF setup.explicit THEN "explicit"
  ELSE IF "OTC_CONFIG" \in setup.environ THEN "variable"
  ELSE IF "XDG" \in setup.environ /\ Exists("xdg") THEN "xdg"
  ELSE IF Exists("home") THEN "home"
  ELSE None

NoConfig == [providers |-> <<>>, credentials |-> <<>>]
Default(id) == [id |-> id, enabled |-> TRUE, key |-> None, env |-> {}]

Ids(entries) == {e.id : e \in ToSet(entries)}

\* The CLI refuses a file that was named and is empty, and two providers of one id; the
\* SDK reads nothing from the one and keeps the later of the other.
CliRefuses(doc) ==
  \/ doc.kind = "empty" /\ origin \in {"explicit", "variable"}
  \/ Cardinality(Ids(doc.providers)) # Len(doc.providers)

ParseError(doc) ==
  \/ doc.kind \in {"absent", "bad"}
  \/ InCli /\ CliRefuses(doc)

Parsed(doc) ==
  [providers |-> [id \in Ids(doc.providers) |->
                    doc.providers[SelectLastInSeq(doc.providers, LAMBDA e : e.id = id)]],
   credentials |-> doc.credentials]

ProviderConfig(c, id) == IF id \in DOMAIN c.providers THEN c.providers[id] ELSE Default(id)

\* a provider without a reference takes the default one when its variable is set
WithDefaults(c) ==
  LET wanting == {id \in DOMAIN setup.defaults :
                    /\ setup.defaults[id].variable \in setup.environ
                    /\ ProviderConfig(c, id).key = None}
      refs == {setup.defaults[id].reference : id \in wanting}
      Bound(r) == {setup.defaults[id].variable : id \in {i \in wanting : setup.defaults[i].reference = r}}
  IN  [providers |-> [id \in DOMAIN c.providers \union wanting |->
                        IF id \in wanting
                        THEN [ProviderConfig(c, id) EXCEPT !.key = setup.defaults[id].reference]
                        ELSE c.providers[id]],
       credentials |-> [r \in DOMAIN c.credentials \union refs |->
                          (IF r \in DOMAIN c.credentials THEN c.credentials[r] ELSE {})
                            \union (IF r \in refs THEN Bound(r) ELSE {})]]

OverridesKnown(c) == \A id \in DOMAIN setup.overrides : setup.overrides[id] \in DOMAIN c.credentials

WithOverrides(c) ==
  [c EXCEPT !.providers = [id \in DOMAIN @ \union DOMAIN setup.overrides |->
     IF id \in DOMAIN setup.overrides
     THEN [ProviderConfig(c, id) EXCEPT !.key = setup.overrides[id]]
     ELSE @[id]]]

-----------------------------------------------------------------------------
(* Routes *)

\* the keys a descriptor is found by, in its order; a host counts for https only
RouteKeys(d) ==
  FlattenSeq([i \in DOMAIN d.schemes |->
    IF d.schemes[i] = "https" /\ d.hosts # <<>>
    THEN [j \in DOMAIN d.hosts |-> <<"https", d.hosts[j]>>]
    ELSE << <<d.schemes[i], None>> >>])

Plugin(d, config) == [desc |-> d, config |-> config]

EmptyRegistry ==
  [plugins |-> <<>>, routes |-> <<>>, path |-> None, manual |-> {}, manualRoutes |-> <<>>,
   manualPath |-> None, connectors |-> <<>>, error |-> None]

Put(f, key, value) == [k \in DOMAIN f \union {key} |-> IF k = key THEN value ELSE f[k]]

RoutesTaken(r, d) ==
  \E i \in DOMAIN RouteKeys(d) :
    RouteKeys(d)[i] \in DOMAIN r.routes \union DOMAIN r.manualRoutes

\* a route after a route, and stopped by the first that is taken
AddRoutes(r, p) ==
  FoldLeft(LAMBDA x, k :
             IF x.error # None THEN x
             ELSE IF k \in DOMAIN x.routes THEN [x EXCEPT !.error = "conflict"]
             ELSE [x EXCEPT !.routes = Put(@, k, p)],
           r, RouteKeys(p.desc))

AddPath(r, p) ==
  IF r.error # None \/ ~p.desc.paths THEN r
  ELSE IF r.path # None THEN [r EXCEPT !.error = "conflict"]
  ELSE [r EXCEPT !.path = p]

AddPlugin(r, p) == [r EXCEPT !.plugins = Put(@, p.desc.id, p)]

\* from_descriptors: the enabled descriptors, none of them twice
Built(descs, c) ==
  FoldLeft(LAMBDA r, d :
             IF r.error # None \/ ~ProviderConfig(c, d.id).enabled THEN r
             ELSE IF d.id \in DOMAIN r.plugins THEN [r EXCEPT !.error = "configuration"]
             ELSE LET p == Plugin(d, ProviderConfig(c, d.id))
                  IN  AddPath(AddRoutes(AddPlugin(r, p), p), p),
           EmptyRegistry, descs)

\* The CLI counts the disabled descriptors too, and refuses what is no descriptor.
Discovered == SelectSeq(setup.installed, LAMBDA d : d.valid)
DiscoveryError ==
  /\ InCli
  /\ \/ \E d \in ToSet(setup.installed) : ~d.valid
     \/ Cardinality({d.id : d \in ToSet(setup.installed)}) # Len(setup.installed)

HostOf(t) == IF t.scheme = "https" THEN t.host ELSE None

\* A variant: the scheme's route before the host's.
SchemeFirst(routes, t) ==
  IF <<t.scheme, None>> \in DOMAIN routes THEN routes[<<t.scheme, None>>]
  ELSE IF <<t.scheme, HostOf(t)>> \in DOMAIN routes THEN routes[<<t.scheme, HostOf(t)>>]
  ELSE None

\* the route of the host, then the scheme's
Matching(routes, t) ==
  IF <<t.scheme, HostOf(t)>> \in DOMAIN routes THEN routes[<<t.scheme, HostOf(t)>>]
  ELSE IF <<t.scheme, None>> \in DOMAIN routes THEN routes[<<t.scheme, None>>]
  ELSE None

ManualFor(r, t) == IF t.path THEN r.manualPath ELSE Matching(r.manualRoutes, t)
PluginFor(r, t) == IF t.path THEN r.path ELSE Matching(r.routes, t)

RouteError(r, t) ==
  IF InCli /\ ~t.path /\ \E k \in DOMAIN r.routes : k[1] = t.scheme THEN "invalid_uri"
  ELSE "unsupported"

-----------------------------------------------------------------------------
(* Activation *)

CredentialError(config, credentials) ==
  IF config.key = None THEN None
  ELSE IF config.key \notin DOMAIN credentials THEN "authentication"
  ELSE IF credentials[config.key] \subseteq setup.environ THEN None
  ELSE "configuration"

EnvironmentMissing(config) == ~(config.env \subseteq setup.environ)

Given(config, credentials) == IF config.key = None THEN {} ELSE credentials[config.key]

\* what keeps open_adapter of the CLI, and connector_for of the SDK, from a provider
AdapterError(p, credentials) ==
  IF EnvironmentMissing(p.config) THEN "configuration"
  ELSE IF CredentialError(p.config, credentials) # None THEN CredentialError(p.config, credentials)
  ELSE IF p.desc.makes = "nothing" THEN "execution_failed"
  ELSE IF p.desc.makes = "connector" THEN "configuration"
  ELSE None

ConnectorError(p, credentials) ==
  IF CredentialError(p.config, credentials) # None THEN CredentialError(p.config, credentials)
  ELSE IF EnvironmentMissing(p.config) THEN "configuration"
  ELSE IF p.desc.makes = "nothing" THEN "raised"
  ELSE None

Registered(r) ==
  {p.desc : p \in {r.plugins[id] : id \in DOMAIN r.plugins}} \union r.manual

Effect(op, via, d, t, given) ==
  [op |-> op, via |-> via, desc |-> d, target |-> t, given |-> given, known |-> Registered(reg)]

-----------------------------------------------------------------------------
(* Start *)

Init ==
  /\ setup \in Setups /\ disk = setup.files /\ changed = FALSE
  /\ origin = None /\ conf = NoConfig /\ reg = EmptyRegistry /\ moment = "start"
  /\ command = None /\ stages = <<>> /\ effects = <<>> /\ outcome = None
  /\ leases = {} /\ alive = {} /\ closed = None /\ again = {} /\ work = 0

\* Another program writes or removes a configuration file.
ChangeFile ==
  /\ moment \in {"start", "resolved"} /\ ~changed
  /\ \E p \in DOMAIN disk, c \in Contents :
       disk' = [disk EXCEPT ![p] = c]
  /\ changed' = TRUE
  /\ UNCHANGED <<setup, origin, conf, reg, moment, command, stages, effects, outcome, leases,
                 alive, closed, again, work>>

Resolve ==
  /\ moment = "start"
  /\ origin' = Chosen /\ moment' = "resolved"
  /\ UNCHANGED <<setup, disk, changed, conf, reg, command, stages, effects, outcome, leases,
                 alive, closed, again, work>>

\* The file is read, the default and overriding references applied, the registry built.
Load ==
  /\ moment = "resolved"
  /\ LET doc == IF origin = None THEN [Absent EXCEPT !.kind = "empty"] ELSE disk[origin]
         c == WithDefaults(Parsed(doc))
         full == IF InCli THEN WithOverrides(c) ELSE c
         built == Built(Discovered, full)
         error == IF ParseError(doc) THEN "configuration"
                  ELSE IF InCli /\ ~OverridesKnown(c) THEN "value_error"
                  ELSE IF DiscoveryError THEN "configuration"
                  ELSE built.error
     IN  /\ outcome' = error
         /\ IF error # None THEN moment' = "refused" /\ UNCHANGED <<conf, reg>>
            ELSE moment' = "ready" /\ conf' = full /\ reg' = built
  /\ UNCHANGED <<setup, disk, changed, origin, command, stages, effects, leases, alive, closed,
                 again, work>>

-----------------------------------------------------------------------------
(* Registration by hand *)

Idle == moment = "ready" /\ command = None /\ work < MaxWork

IdTaken(r, d) == d.id \in DOMAIN r.plugins \union {m.id : m \in r.manual}

\* An adapter is kept and routed before its claim on paths is looked at.
WithAdapter(r, d) ==
  IF IdTaken(r, d) \/ RoutesTaken(r, d) THEN [r EXCEPT !.error = "conflict"]
  ELSE LET kept == [r EXCEPT !.manual = @ \union {d},
                             !.manualRoutes = FoldLeft(LAMBDA f, k : Put(f, k, d), @, RouteKeys(d))]
       IN  IF ~d.paths THEN kept
           ELSE IF r.path # None \/ r.manualPath # None THEN [kept EXCEPT !.error = "conflict"]
           ELSE [kept EXCEPT !.manualPath = d]

\* So are a descriptor's routes, and only the other descriptors' claims are looked at.
WithDescriptor(r, d) ==
  IF IdTaken(r, d) \/ RoutesTaken(r, d) THEN [r EXCEPT !.error = "conflict"]
  ELSE LET p == Plugin(d, Default(d.id))
           routed == AddPath(AddRoutes(r, p), p)
       IN  IF routed.error # None THEN routed ELSE AddPlugin(routed, p)

Position(r, id) == SelectInSeq(r.connectors, LAMBDA c : c.id = id)

\* The SDK stores the connector first; one of the same id is replaced.
WithConnector(r, d, number) ==
  LET p == Plugin(d, Default(d.id))
      c == [id |-> d.id, desc |-> d, number |-> number]
      at == Position(r, d.id)
      stored == [AddPlugin(r, p) EXCEPT
                   !.connectors = IF at = 0 THEN Append(@, c) ELSE [@ EXCEPT ![at] = c]]
  IN  AddPath(AddRoutes(stored, p), p)

Register ==
  /\ Idle
  /\ \E x \in {e \in Extras : e.host = setup.host} :
       LET r == CASE x.form = "adapter" -> WithAdapter(reg, x.desc)
                  [] x.form = "descriptor" -> WithDescriptor(reg, x.desc)
                  [] x.form = "connector" -> WithConnector(reg, x.desc, work)
       IN  /\ reg' = [r EXCEPT !.error = None] /\ outcome' = r.error
           /\ alive' = IF x.form = "connector" THEN alive \union {<<x.desc.id, work>>} ELSE alive
           /\ again' = IF x.form = "connector" /\ x.desc.id \in DOMAIN reg.plugins
                       THEN again \union {x.desc.id} ELSE again
  /\ work' = work + 1
  /\ UNCHANGED <<setup, disk, changed, origin, conf, moment, command, stages, effects, leases, closed>>

-----------------------------------------------------------------------------
(* A client of the SDK *)

\* A route names a descriptor, and its id the plugin and the connector.
Serving(r, t) ==
  IF PluginFor(r, t) = None THEN None ELSE r.plugins[PluginFor(r, t).desc.id]

\* The lease is disposed of once the connector is made, but not when the environment's
\* bindings are refused.
OpenTable ==
  /\ Idle /\ ~InCli
  /\ \E t \in Targets :
       LET p == Serving(reg, t)
           cached == p # None /\ Position(reg, p.desc.id) # 0
           error == IF closed # None THEN "client_closed"
                    ELSE IF p = None THEN RouteError(reg, t)
                    ELSE IF cached THEN None
                    ELSE ConnectorError(p, conf.credentials)
       IN  /\ outcome' = error
           /\ effects' = IF error # None THEN effects
                         ELSE Append(effects, Effect("open", "sdk", p.desc, t,
                                                     IF cached THEN {} ELSE Given(p.config, conf.credentials)))
           /\ leases' = IF /\ closed = None /\ p # None /\ ~cached
                           /\ CredentialError(p.config, conf.credentials) = None
                           /\ EnvironmentMissing(p.config)
                        THEN leases \union {p.desc.id} ELSE leases
           /\ IF error = None /\ ~cached
              THEN /\ reg' = [reg EXCEPT !.connectors =
                                Append(@, [id |-> p.desc.id, desc |-> p.desc, number |-> work])]
                   /\ alive' = alive \union {<<p.desc.id, work>>}
              ELSE UNCHANGED <<reg, alive>>
  /\ work' = work + 1
  /\ UNCHANGED <<setup, disk, changed, origin, conf, moment, command, stages, closed, again>>

\* The connectors are closed in order; one that raises leaves the rest, and the client, open.
CloseClient ==
  /\ Idle /\ ~InCli /\ closed = None
  /\ LET cs == reg.connectors
         failing == SelectInSeq(cs, LAMBDA c : ~c.desc.closes)
         done == IF failing = 0 THEN cs ELSE SubSeq(cs, 1, failing - 1)
     IN  /\ alive' = alive \ {<<c.id, c.number>> : c \in ToSet(done)}
         /\ closed' = IF failing = 0 THEN work ELSE None
         /\ outcome' = IF failing = 0 THEN None ELSE "raised"
         /\ reg' = IF failing = 0 THEN [reg EXCEPT !.connectors = <<>>] ELSE reg
  /\ work' = work + 1
  /\ UNCHANGED <<setup, disk, changed, origin, conf, moment, command, stages, effects, leases, again>>

-----------------------------------------------------------------------------
(* A command of the CLI *)

\* an endpoint whose provider cannot be found is not local
IsLocal(t) ==
  \/ t.path
  \/ LET d == IF ManualFor(reg, t) # None THEN ManualFor(reg, t)
              ELSE IF PluginFor(reg, t) # None THEN PluginFor(reg, t).desc
              ELSE None
     IN  d # None /\ d.local

\* A variant: an import reads before its destination has agreed.
StagesReadFirst(c) ==
  CASE c.kind = "read" -> <<"read">>
    [] c.kind = "inspect" -> <<"inspect">>
    [] c.kind = "convert" -> <<"read", "publish">>
    [] c.kind = "import" -> <<"require", "legacy_read", "preflight", "write">>

Stages(c) ==
  CASE c.kind = "read" -> <<"read">>
    [] c.kind = "inspect" -> <<"inspect">>
    [] c.kind = "convert" -> <<"read", "publish">>
    [] c.kind = "import" -> <<"require", "preflight", "legacy_read", "write">>

\* only what local files hold can be said to have another format
FormatRefused(c) == c.format /\ ~IsLocal(c.from)

Refused(c) ==
  \/ FormatRefused(c)
  \/ c.kind = "convert" /\ ~IsLocal(c.to)
  \/ c.kind = "import" /\ IsLocal(c.to)

Begin ==
  /\ Idle /\ InCli
  /\ \E c \in Commands :
       IF Refused(c)
       THEN outcome' = "unsupported" /\ UNCHANGED <<command, stages, effects>>
       ELSE command' = c /\ stages' = Stages(c) /\ effects' = <<>> /\ outcome' = None
  /\ work' = work + 1
  /\ UNCHANGED <<setup, disk, changed, origin, conf, reg, moment, leases, alive, closed, again>>

Fail(code) == outcome' = code /\ command' = None /\ stages' = <<>>

Advance ==
  /\ outcome' = None /\ stages' = Tail(stages)
  /\ command' = IF Len(stages) = 1 THEN None ELSE command

\* the end of a command with the last call's answer
Answered(code) == IF code = "ok" THEN Advance ELSE Fail(code)

\* An adapter registered by hand is called as it is; another is made under its
\* credentials for this one call.
UseAdapter(t, op, needs) ==
  LET m == ManualFor(reg, t)
      p == PluginFor(reg, t)
      d == IF m # None THEN m ELSE IF p # None THEN p.desc ELSE None
      error == IF d = None THEN RouteError(reg, t)
               ELSE IF ~(needs \subseteq d.can) THEN "unsupported"
               ELSE IF m # None THEN None
               ELSE AdapterError(p, conf.credentials)
  IN  \/ error # None /\ Fail(error) /\ UNCHANGED effects
      \/ /\ error = None
         /\ effects' = Append(effects, Effect(op, IF m # None THEN "manual" ELSE "cli", d, t,
                                              IF m # None THEN {} ELSE Given(p.config, conf.credentials)))
         /\ \E code \in (IF op = "require" THEN {"ok"} ELSE {"ok", "failed"}) : Answered(code)

UsesSdk(t) == ~t.stdio /\ reg.manual = {} /\ DOMAIN reg.plugins # {}

\* The client made for one command knows the listed descriptors, not the routes a refused
\* registration left.  The defaults are applied again, its resolver knows the references of
\* the registry's configuration only.  An answer the bridge cannot make is asked of the
\* adapter instead, before the client is closed.
Listed ==
  [reg EXCEPT !.routes = [k \in {j \in DOMAIN @ : @[j].desc.id \in DOMAIN reg.plugins} |-> @[k]]]

FallsBack(code) == code \in {"protocol_failure", "unsupported"}

ReadThroughSdk(t, op) ==
  LET p == PluginFor(Listed, t)
      full == WithDefaults([conf EXCEPT !.providers = [id \in DOMAIN reg.plugins |-> reg.plugins[id].config]])
      q == Plugin(p.desc, ProviderConfig(full, p.desc.id))
      error == IF p = None THEN "unsupported" ELSE ConnectorError(q, conf.credentials)
      legacy == IF op = "read" THEN "legacy_read" ELSE "legacy_inspect"
      Again(rest) == outcome' = None /\ stages' = <<legacy>> \o rest /\ UNCHANGED command
  IN  \/ FallsBack(error) /\ Again(Tail(stages)) /\ UNCHANGED effects
      \/ error # None /\ ~FallsBack(error) /\ Fail(error) /\ UNCHANGED effects
      \/ /\ error = None
         /\ effects' = Append(effects, Effect(op, "sdk", p.desc, t, Given(q.config, conf.credentials)))
         /\ \E code \in {"ok", "failed", "protocol_failure"} :
              IF FallsBack(code) THEN Again(IF p.desc.closes THEN Tail(stages) ELSE <<"raise">>)
              ELSE Answered(IF p.desc.closes THEN code ELSE "raised")

Step ==
  /\ command # None
  /\ LET now == Head(stages)
     IN  CASE now \in {"read", "inspect"} ->
                IF UsesSdk(command.from) THEN ReadThroughSdk(command.from, now)
                ELSE UseAdapter(command.from, now, {})
           [] now = "legacy_read" -> UseAdapter(command.from, "read", {})
           [] now = "legacy_inspect" -> UseAdapter(command.from, "inspect", {})
           [] now = "require" -> UseAdapter(command.to, "require", {"table.write"})
           [] now = "preflight" -> UseAdapter(command.to, "preflight", {})
           [] now = "raise" -> Fail("raised") /\ UNCHANGED effects
           [] now = "write" -> UseAdapter(command.to, "write", {})
           [] now = "publish" ->
                /\ effects' = Append(effects, Effect("publish", "local", None, command.to, {}))
                /\ \E code \in {"ok", "failed"} : Answered(code)
  /\ UNCHANGED <<setup, disk, changed, origin, conf, reg, moment, leases, alive, closed, again, work>>

Next == ChangeFile \/ Resolve \/ Load \/ Register \/ OpenTable \/ CloseClient \/ Begin \/ Step

-----------------------------------------------------------------------------
(* What it must do *)

Declares(d, keys) == \E i \in DOMAIN RouteKeys(d) : RouteKeys(d)[i] \in keys
ExactKey(t) == <<t.scheme, IF t.scheme = "https" THEN t.host ELSE None>>

\* A provider is called for an endpoint it declared and if it is enabled; one that
\* declared the host is called before one that declared the scheme, unless an adapter was
\* registered by hand.
CallsAreRouted ==
  \A i \in DOMAIN effects :
    LET e == effects[i]
        t == e.target
    IN  e.via # "local" /\ e.desc.id \notin again =>
          /\ t.path => e.desc.paths
          /\ ~t.path => Declares(e.desc, {ExactKey(t), <<t.scheme, None>>})
          /\ ~t.path /\ e.via # "manual" /\ (\E d \in e.known : Declares(d, {ExactKey(t)}))
               => Declares(e.desc, {ExactKey(t)})
          /\ e.desc.id \in DOMAIN conf.providers /\ e.via # "manual" =>
               conf.providers[e.desc.id].enabled \/ e.desc \in {x.desc : x \in Extras}

\* A provider is given the credentials of the reference configured for it and no others,
\* and they are disposed of unless its environment was refused.
CredentialsAreItsOwn ==
  /\ \A i \in DOMAIN effects :
       LET e == effects[i]
       IN  e.given # {} =>
             /\ \E key \in {conf.providers[id].key : id \in {e.desc.id} \intersect DOMAIN conf.providers}
                           \union {setup.defaults[id].reference : id \in {e.desc.id} \intersect DOMAIN setup.defaults} :
                  e.given = conf.credentials[key]
             /\ e.given \subseteq setup.environ
  /\ \A id \in leases : EnvironmentMissing(conf.providers[id])

Ops == [i \in DOMAIN effects |-> effects[i].op]

\* An import reads after the destination has agreed, writes after it has read, and both at
\* most once; a conversion publishes what it has read.
CommandsKeepTheirOrder ==
  InCli /\ (\E i \in DOMAIN Ops : Ops[i] \in {"write", "publish"}) =>
    LET last == Len(Ops)
    IN  /\ Ops[last] \in {"write", "publish"}
        /\ \A i \in 1 .. last - 1 : Ops[i] \notin {"write", "publish"}
        /\ Ops[last - 1] = "read"
        /\ Ops[last] = "write" => SubSeq(Ops, 1, last - 2) = <<"require", "preflight">>

\* A client that is closed has closed what its registry made or was given until then,
\* unless a connector was replaced by another of its id.
CloseFreesConnectors ==
  closed # None => \A c \in alive : c[1] \in again \/ c[2] > closed

\* A registry is made of the file that was named, or of none where none was.
NamedFileIsRead ==
  moment = "ready" /\ (setup.explicit \/ "OTC_CONFIG" \in setup.environ) =>
    origin = (IF setup.explicit THEN "explicit" ELSE "variable") /\ disk[origin].kind # "absent"

\* Whatever is installed, configured and registered, a command or a client reaches the
\* provider that declared the endpoint, with its own credentials, in the command's order.
RegistriesAreTrue ==
  /\ CallsAreRouted
  /\ CredentialsAreItsOwn
  /\ CommandsKeepTheirOrder
  /\ CloseFreesConnectors
  /\ NamedFileIsRead
=============================================================================
