------------------------------- MODULE Config -------------------------------
(***************************************************************************)
(* internal/config: config.yaml is read line by line by a hand-written     *)
(* parser that knows sections, list items and key/value pairs but not      *)
(* indentation, and is then validated.  A line is a record of its kind,    *)
(* its key and its value as text and as number; "ok" is false when the     *)
(* text should be a number and is none.  The ghost "meant" is what YAML    *)
(* takes the same lines to say, with one licence: a threshold that stands  *)
(* in an item after its override block counts as one of the block.         *)
(***************************************************************************)
EXTENDS BreakerOps, UpstreamOps, FiniteSets

CONSTANTS Lines,      \* lines an operator may write
          MaxLines,   \* bound on the lines of a file
          MaxItems,   \* bound on the providers of a file
          Answers     \* what a lookup of an upstream's host name may return

ASSUME ConfigAssumption == /\ Lines \subseteq [kind : {"section", "item", "pair"}, key : STRING,
                                               text : STRING, num : Int, ok : BOOLEAN]
                           /\ MaxLines \in Nat /\ MaxItems \in Nat
                           /\ Answers \subseteq Seq(Addresses)

VARIABLES status,     \* how far Load is
          reader,     \* section, currentProvider # nil, providerOverride
          cfg,        \* the Config that is filled in
          meant,      \* ghost: the Config the file describes
          plain,      \* ghost: every number is one, an override block ends the list
          lines       \* number of lines read

configVars == <<status, reader, cfg, meant, plain, lines>>

Thresholds == {"failure_threshold", "open_timeout_s", "half_open_success_threshold"}
Durations == {"interval", "default_period"}
Texts == {"name", "type", "base_url"}
Fields == Texts \cup {"priority"}

\* The section in which parseFile looks for each setting.
SectionOf == [failure_threshold |-> "circuit_breaker",
              open_timeout_s |-> "circuit_breaker",
              half_open_success_threshold |-> "circuit_breaker",
              silent_hang_deadline_ms |-> "timeouts",
              interval |-> "reconciliation",
              drift_threshold_pct |-> "reconciliation",
              window_s |-> "rate_limit",
              max_tokens |-> "rate_limit",
              default_period |-> "budget",
              drain_timeout_s |-> "shutdown"]
Settings == DOMAIN SectionOf

\* Defaults: hours for durations, hundredths for the drift threshold.
Defaults == [failure_threshold |-> 3, open_timeout_s |-> 30, half_open_success_threshold |-> 1,
             silent_hang_deadline_ms |-> 1000, interval |-> 1, drift_threshold_pct |-> 112,
             window_s |-> 60, max_tokens |-> 1000000, default_period |-> 24,
             drain_timeout_s |-> 30]

\* Provider{}; the override is a pointer: a sequence with at most one element.
NewProvider == [name |-> NoText, type |-> NoText, priority |-> 0, base_url |-> NoText, override |-> <<>>]

NewReader == [section |-> NoText, inItem |-> FALSE, override |-> FALSE]
NewConfig == [settings |-> Defaults, providers |-> <<>>]

\* Load before the first line.
ConfigInit == /\ status = "reading"
              /\ reader = NewReader
              /\ cfg = NewConfig
              /\ meant = NewConfig
              /\ plain = TRUE
              /\ lines = 0

\* Load has returned and its Config was handed on.
ConfigDone == /\ status' = "done"
              /\ reader' = NewReader
              /\ cfg' = NewConfig
              /\ meant' = NewConfig
              /\ plain' = TRUE
              /\ lines' = 0

\* atoi and atof: text that is no number counts as zero.
Atoi(l) == IF l.ok THEN l.num ELSE 0

Value(l) == IF l.key \in Texts THEN l.text ELSE Atoi(l)

\* ProviderType
ProviderType(p) == IF p.type = NoText THEN "mock" ELSE p.type

-----------------------------------------------------------------------------
\* parseFile, one line at a time.

\* The last provider of c with field k set.
SetField(c, k, v) == [c EXCEPT !.providers[Len(c.providers)] = [@ EXCEPT ![k] = v]]

\* setBreakerValue on the override of the last provider; other keys are ignored.
SetOverride(c, k, v) ==
    IF k \in Thresholds
    THEN [c EXCEPT !.providers[Len(c.providers)].override[1] = [@ EXCEPT ![k] = v]]
    ELSE c

NoThresholds == [t \in Thresholds |-> 0]

\* &BreakerConfig{}
NewOverride == <<NoThresholds>>

\* Bug: the thresholds of a provider are taken for those of all.
MutProviderPair(c, l) ==
    CASE l.key = "circuit_breaker" -> SetField(c, "override", NewOverride)
      [] l.key \in Thresholds -> [c EXCEPT !.settings[l.key] = Atoi(l)]
      [] l.key \in Fields /\ ~reader.override -> SetField(c, l.key, Value(l))
      [] OTHER -> c

\* A pair inside a list item.
ProviderPair(c, l) ==
    CASE l.key = "circuit_breaker" -> SetField(c, "override", NewOverride)
      [] l.key # "circuit_breaker" /\ reader.override -> SetOverride(c, l.key, Atoi(l))
      [] l.key \in Fields /\ ~reader.override -> SetField(c, l.key, Value(l))
      [] OTHER -> c

\* setBreakerValue through a nil pointer.
NilOverride(c, k) == reader.override /\ k \in Thresholds /\ Last(c.providers).override = <<>>

\* A pair elsewhere is a setting when it stands in its section.
SettingPair(c, l) ==
    IF l.key \in Settings /\ SectionOf[l.key] = reader.section
    THEN [c EXCEPT !.settings[l.key] = Atoi(l)]
    ELSE c

\* What YAML makes of a pair inside a list item: a threshold belongs to the override
\* block of the item, and to nothing when the item has none.
MeantPair(m, l) ==
    CASE l.key = "circuit_breaker" -> SetField(m, "override", <<NoThresholds>>)
      [] l.key \in Thresholds /\ Last(m.providers).override # <<>> -> SetOverride(m, l.key, Atoi(l))
      [] l.key \in Fields -> SetField(m, l.key, Value(l))
      [] OTHER -> m

\* What an operator writes: items in the list of providers, pairs in an item or in their
\* section, no value twice.  A threshold may stand in an item that has no override
\* block, or after its block.
Written(l) ==
    LET p == Last(meant.providers) IN
    CASE l.kind = "section" -> reader.section # l.key
      [] l.kind = "item" -> reader.section = "providers" /\ Len(meant.providers) < MaxItems
      [] OTHER ->
            IF reader.section = "providers"
            THEN /\ reader.inItem
                 /\ l.key \in Fields => p[l.key] = NewProvider[l.key]
                 /\ l.key = "circuit_breaker" => p.override = <<>>
                 /\ l.key \in Thresholds /\ p.override # <<>> => p.override[1][l.key] = 0
            ELSE /\ l.key \in Settings
                 /\ SectionOf[l.key] = reader.section
                 /\ meant.settings[l.key] = Defaults[l.key]

\* A section line forgets the provider and its override.
ReadSection(l) ==
    /\ l.kind = "section"
    /\ reader' = [section |-> l.key, inItem |-> FALSE, override |-> FALSE]
    /\ UNCHANGED <<status, cfg, meant, plain>>

\* A pair of the last provider of c (of m, for the file).  The override flag stays up
\* until the next section, whichever item raised it.
ReadProviderPair(c, m, l) ==
    /\ status' = IF NilOverride(c, l.key) THEN "panicked" ELSE status
    /\ cfg' = IF NilOverride(c, l.key) THEN c ELSE ProviderPair(c, l)
    /\ reader' = [reader EXCEPT !.inItem = TRUE, !.override = @ \/ l.key = "circuit_breaker"]
    /\ meant' = MeantPair(m, l)

NewItem(c) == [c EXCEPT !.providers = Append(@, NewProvider)]

\* "- name: x": a new provider; what stands after the dash goes the way of any pair.
ReadItem(l) ==
    /\ l.kind = "item"
    /\ ReadProviderPair(NewItem(cfg), NewItem(meant), l)
    /\ plain' = (plain /\ l.ok /\ ~reader.override)

\* "key: value"; a duration that does not parse ends Load with an error.
ReadPair(l) ==
    /\ l.kind = "pair"
    /\ \/ /\ reader.section = "providers"
          /\ ReadProviderPair(cfg, meant, l)
       \/ /\ reader.section # "providers"
          /\ status' = IF l.key \in Durations /\ ~l.ok THEN "failed" ELSE status
          /\ cfg' = SettingPair(cfg, l)
          /\ meant' = [meant EXCEPT !.settings[l.key] = Atoi(l)]
          /\ UNCHANGED reader
    /\ plain' = (plain /\ l.ok /\ (reader.override => l.key \in Thresholds))

ReadLine(l) == /\ status = "reading"
               /\ lines < MaxLines
               /\ Written(l)
               /\ lines' = lines + 1
               /\ ReadSection(l) \/ ReadItem(l) \/ ReadPair(l)
-----------------------------------------------------------------------------
\* Validate, and what Load does with a Config that passes.

\* BreakerConfigFor: a threshold of zero in an override inherits.
BreakerConfigFor(c, p) ==
    LET V(t) == IF p.override # <<>> /\ p.override[1][t] # 0
                THEN p.override[1][t] ELSE c.settings[t]
    IN  [FailureThreshold |-> V("failure_threshold"),
         OpenTimeout |-> V("open_timeout_s"),
         HalfOpenSuccessThreshold |-> V("half_open_success_threshold")]

\* Bug: only the thresholds every provider inherits are looked at.
MutValidBreakers(c) == BreakerConfigFor(c, NewProvider) \in ConfigType

\* validateBreaker, for every provider and for the common thresholds.
ValidBreakers(c) == \A p \in ToSet(c.providers) \cup {NewProvider} :
    /\ BreakerConfigFor(c, p).FailureThreshold >= 1
    /\ BreakerConfigFor(c, p).OpenTimeout >= 1
    /\ BreakerConfigFor(c, p).HalfOpenSuccessThreshold >= 1

Distinct(f) == \A i, j \in DOMAIN f : f[i] = f[j] => i = j

\* The rest of Validate; answer[i] is what a lookup of provider i's host returns.
Valid(c, answer) ==
    LET ps == c.providers IN
    /\ ps # <<>>
    /\ \A i \in DOMAIN ps : /\ ps[i].name # NoText
                            /\ ProviderType(ps[i]) \in {"mock", "openai", "anthropic"}
                            /\ ps[i].priority >= 0
                            /\ ValidProviderURL(ProviderType(ps[i]), ps[i].base_url, answer[i])
    /\ Distinct([i \in DOMAIN ps |-> ps[i].name])
    /\ Distinct([i \in DOMAIN ps |-> ps[i].priority])
    /\ ValidBreakers(c)
    /\ c.settings["window_s"] >= 1
    /\ c.settings["max_tokens"] >= 1
    /\ c.settings["interval"] > 0
    /\ c.settings["drain_timeout_s"] >= 0

\* sort.Slice by priority: a provider's place is after those of smaller priority, which
\* Validate has found to be distinct.
Place(ps, i) == 1 + Cardinality({j \in DOMAIN ps : ps[j].priority < ps[i].priority})
SortedList(ps) == [n \in DOMAIN ps |-> ps[CHOOSE i \in DOMAIN ps : Place(ps, i) = n]]
Sorted(c) == [c EXCEPT !.providers = SortedList(@)]

\* The end of the file.  fileFound: os.Stat finds auth.keys_file.
Load(answer, fileFound) ==
    /\ status = "reading"
    /\ IF fileFound /\ Valid(cfg, answer)
       THEN status' = "loaded" /\ cfg' = Sorted(cfg)
       ELSE status' = "failed" /\ UNCHANGED cfg
    /\ UNCHANGED <<reader, meant, plain, lines>>
=============================================================================
