------------------------------ MODULE Startup ------------------------------
(***************************************************************************)
(* cmd/streamguard: main loads the configuration, then the keys, then      *)
(* serves; every connection to an upstream looks its host up again.  This  *)
(* composes Config and KeysFile and adds the dialer of internal/server and *)
(* the plain client of the reconciliation job.                             *)
(***************************************************************************)
EXTENDS Config, KeysFile

VARIABLES server,   \* what the server keeps of its Config, NoServer: not yet made
          dialed    \* the last connection to an upstream: whose, provider type, host, address

startupVars == <<configVars, keysVars, server, dialed>>

NoServer == [period |-> 0, upstreams |-> {}]
NoDial == [by |-> "nobody", type |-> NoText, host |-> NoText, address |-> NoText]
Dialed(who, p, a) == [by |-> who, type |-> p.type, host |-> p.host, address |-> a]

StartupInit == ConfigInit /\ KeysInit /\ server = NoServer /\ dialed = NoDial

\* config.Load
LoadConfig ==
    /\ \/ \E l \in Lines : ReadLine(l)
       \/ \E answer \in [DOMAIN cfg.providers -> Answers], found \in BOOLEAN : Load(answer, found)
    /\ UNCHANGED <<keysVars, server, dialed>>

\* What later steps read of the Config: the default period, and the type and host
\* of each provider.
Kept(c) == [period |-> c.settings["default_period"],
            upstreams |-> {[type |-> ProviderType(p), host |-> URLOf(p.base_url).host] : p \in ToSet(c.providers)}]

\* main goes on to the keys; the parser's locals are gone.
StartKeys ==
    /\ status = "loaded"
    /\ \E found \in BOOLEAN : OpenKeysFile(found)
    /\ server' = Kept(cfg)
    /\ ConfigDone
    /\ UNCHANGED dialed

\* auth.LoadKeysFile
LoadKeys ==
    /\ (\E l \in KeyLines : ReadKeyLine(l, server.period)) \/ KeysEnd(server.period)
    /\ UNCHANGED <<configVars, server, dialed>>

\* Bug: what is dialed comes from a second lookup.
MutDial(p, answer) ==
    /\ keyStatus = "ready"
    /\ ~DialRefused(p.host, answer, p.type = "mock")
    /\ \E again \in Answers :
          /\ again # <<>>
          /\ dialed' = Dialed("server", p, ValidatedDialAddress(p.host, again))
    /\ UNCHANGED <<configVars, keysVars, server>>

\* upstreamRequest lets only mocks use private addresses; the dialer connects to an
\* address of the lookup it checked, or not at all.
Dial(p, answer) ==
    /\ keyStatus = "ready"
    /\ ~DialRefused(p.host, answer, p.type = "mock")
    /\ dialed' = Dialed("server", p, ValidatedDialAddress(p.host, answer))
    /\ UNCHANGED <<configVars, keysVars, server>>

\* HTTPUsageFetcher in main has a client of its own with the default transport: it
\* connects to the address in the URL or to any address of its lookup, unchecked.
FetchDial(p, answer) ==
    /\ keyStatus = "ready"
    /\ \E a \in IF IsAddress(p.host) THEN {p.host} ELSE ToSet(answer) :
          dialed' = Dialed("job", p, Unmap(a))
    /\ UNCHANGED <<configVars, keysVars, server>>

\* log.Fatalf, or a panic: the process does not go on.
Stopped == /\ status \in {"failed", "panicked"} \/ keyStatus = "failed"
           /\ UNCHANGED startupVars

Serve == \E p \in server.upstreams, answer \in Answers : Dial(p, answer) \/ FetchDial(p, answer)

StartupNext == LoadConfig \/ StartKeys \/ LoadKeys \/ Serve \/ Stopped

StartupSpec == StartupInit /\ [][StartupNext]_startupVars
-----------------------------------------------------------------------------
Loaded == status = "loaded"

\* Types; the parser is in an item only when there is one, the store has a place for every key.
LoadTypeOK ==
    /\ status \in {"reading", "loaded", "failed", "panicked", "done"}
    /\ reader.section \in {NoText} \cup {l.key : l \in Lines}
    /\ reader.inItem => cfg.providers # <<>>
    /\ cfg.settings \in [Settings -> Int]
    /\ lines \in 0 .. MaxLines
    /\ keyStatus \in {"waiting", "reading", "failed", "ready"}
    /\ DOMAIN store = KeyNames
    /\ keyLines \in 0 .. MaxKeyLines

\* A file whose numbers are numbers and whose override block, if any, ends the
\* list of providers is read as YAML reads it, although the parser ignores
\* indentation: no threshold goes to another provider or to the common section,
\* no setting to another section.
\* Any other file is refused or loses fields to their defaults: every provider it
\* names is there with its URL, and a type, priority or threshold is the one in
\* the file or the default.
LoadedIsMeant == Loaded =>
    /\ plain => cfg = Sorted(meant)
    /\ cfg.settings = meant.settings
    /\ Len(cfg.providers) = Len(meant.providers)
    /\ \A p \in ToSet(cfg.providers) : \E m \in ToSet(meant.providers) :
          /\ p.name = m.name /\ p.base_url = m.base_url
          /\ p.type \in {NoText, m.type}
          /\ p.priority \in {0, m.priority}
          /\ p.override = m.override

\* A loaded Config satisfies what the other components assume of it: breakers with
\* positive thresholds for every provider after the overrides are applied, an
\* unambiguous priority order, a rate limit and a billing interval above zero.  There
\* is one way for Load to panic: a threshold for a provider without an override block
\* that stands below a provider with one.
LoadedIsUsable ==
    /\ LoadTypeOK
    /\ status = "panicked" => LET ps == meant.providers IN
          /\ ps[Len(ps)].override = <<>>
          /\ \E i \in 1 .. Len(ps) - 1 : ps[i].override # <<>>
    /\ Loaded => LET ps == cfg.providers IN
          /\ \A p \in ToSet(ps) : BreakerConfigFor(cfg, p) \in ConfigType
          /\ \A i, j \in DOMAIN ps : i < j =>
                 ps[i].priority < ps[j].priority /\ ps[i].name # ps[j].name
          /\ cfg.settings["window_s"] > 0 /\ cfg.settings["max_tokens"] > 0
          /\ cfg.settings["interval"] > 0 /\ cfg.settings["drain_timeout_s"] >= 0

\* A connection of the server to a real provider goes to an address that passed the
\* check, even when the resolver answers differently at startup and at every later
\* lookup.  Of the connections of the reconciliation job this can be said only where
\* no resolver has a part: when the URL holds an address, which Validate has checked.
DialsAreChecked ==
    (dialed.by = "server" \/ IsAddress(dialed.host)) /\ dialed.type # "mock"
        => dialed.address = "public"
=============================================================================
