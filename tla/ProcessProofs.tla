---------------------------- MODULE ProcessProofs ----------------------------
(***************************************************************************)
(* The process from its first step to its last, for all files, lookups and *)
(* requests: what config.Load and auth.LoadKeysFile hand on is what their  *)
(* files say and what the other components assume; a connection of the     *)
(* server goes to a checked address; forceCloseActive reaches every        *)
(* session that was active when it looked, and httpSrv.Close cuts only     *)
(* sessions that registered when no drain timer was ahead of them.         *)
(***************************************************************************)
EXTENDS Startup, Shutdown, FiniteSetTheorems, TLAPS

-----------------------------------------------------------------------------
\* Dialing.

\* An address that is not restricted, or its unmapped form, is a public one.
LEMMA CheckedIsPublic ==
    ASSUME NEW a \in Addresses, ~RestrictedUpstreamIP(a)
    PROVE  a = "public" /\ Unmap(a) = "public"
  BY Zenon DEF Addresses, RestrictedUpstreamIP, Unmap

\* Whatever a lookup returns, the address that is dialed for a real provider is one
\* that was checked.
LEMMA DialedIsChecked ==
    ASSUME NEW h, NEW answer \in Answers, ~DialRefused(h, answer, FALSE)
    PROVE  ValidatedDialAddress(h, answer) = "public"
  <1>1. CASE IsAddress(h)
    BY <1>1, CheckedIsPublic DEF IsAddress, DialRefused, ValidatedDialAddress
  <1>2. CASE ~IsAddress(h)
    <2>1. answer \in Seq(Addresses) /\ answer # <<>>
      BY <1>2, ConfigAssumption DEF DialRefused
    <2>2. Head(answer) \in Addresses /\ Head(answer) \in ToSet(answer)
      BY <2>1 DEF ToSet
    <2>3. ~RestrictedUpstreamIP(Head(answer))
      BY <1>2, <2>2 DEF DialRefused
    <2> QED BY <1>2, <2>2, <2>3, CheckedIsPublic DEF ValidatedDialAddress
  <1> QED BY <1>1, <1>2

-----------------------------------------------------------------------------
\* The keys file.

\* What the locals of LoadKeysFile hold.
EntryType == [raw : KeyNames \cup {""}, allowlist : {""} \cup {l.text : l \in KeyLines},
              budget : Int, period : Int]

\* The keys with a record that Add accepts.
Usable(st) == {k \in KeyNames : st[k].allowlist # "" /\ st[k].budget >= 0}

\* While the file is read, the keys it named are the stored ones and the one whose
\* entry is not flushed yet; as long as every entry began with its key, the locals
\* are the entry by the dashes, and no field was read before the first key.
KeysInv ==
    /\ keyStatus \in {"waiting", "reading", "failed", "ready"}
    /\ keyLines \in 0 .. MaxKeyLines
    /\ entry \in EntryType
    /\ DOMAIN store = KeyNames
    /\ keyStatus \in {"waiting", "reading"} =>
          /\ named = Usable(store) \cup ({entry.raw} \ {""})
          /\ keyFirst => /\ store = described
                         /\ entry = yamlEntry
                         /\ entry.raw # "" \/ entry = NoEntry
    /\ KeysLoadedAreMeant

\* Store.Add makes one more key usable.
LEMMA StoredUsable ==
    ASSUME NEW st, DOMAIN st = KeyNames, NEW e \in EntryType, e.raw \in KeyNames, ~AddFails(e), NEW d
    PROVE  /\ DOMAIN Stored(st, e, d) = KeyNames
           /\ Usable(Stored(st, e, d)) = Usable(st) \cup {e.raw}
  <1>1. DOMAIN Stored(st, e, d) = KeyNames
    BY DEF Stored
  <1>2. \A k \in KeyNames : /\ k = e.raw => /\ Stored(st, e, d)[k].allowlist = e.allowlist
                                           /\ Stored(st, e, d)[k].budget = e.budget
                            /\ k # e.raw => Stored(st, e, d)[k] = st[k]
    BY DEF Stored
  <1>3. e.allowlist # "" /\ e.budget >= 0
    <2>1. e.budget \in Int
      BY DEF EntryType
    <2>2. ~(e.budget < 0)
      BY Zenon DEF AddFails
    <2>3. e.budget >= 0
      BY <2>1, <2>2, SMT
    <2> QED BY <2>3, Zenon DEF AddFails
  <1> QED BY <1>1, <1>2, <1>3 DEF Usable

\* The locals before the first line.
LEMMA EmptyEntry == NoEntry \in EntryType /\ NoEntry.raw = ""
  BY DEF NoEntry, EntryType

\* A flush that does not fail moves the key of the entry to the usable ones.
LEMMA FlushMoves ==
    ASSUME NEW st, DOMAIN st = KeyNames, NEW e \in EntryType, NEW d
    PROVE  /\ DOMAIN FlushedStore(st, e, d) = KeyNames
           /\ ~FlushFails(e) => Usable(FlushedStore(st, e, d)) = Usable(st) \cup ({e.raw} \ {""})
           /\ Flushed(e) \in EntryType
  <1>1. CASE e.raw = "" \/ AddFails(e)
    BY <1>1, EmptyEntry DEF FlushedStore, FlushFails, Flushed
  <1>2. CASE ~(e.raw = "" \/ AddFails(e))
    <2>1. e.raw \in KeyNames
      BY <1>2 DEF EntryType
    <2> QED BY ZenonT(60), <1>2, <2>1, StoredUsable, EmptyEntry DEF FlushedStore, FlushFails, Flushed
  <1> QED BY <1>1, <1>2

\* A line sets the local of its field; only a "key" line sets the key.
LEMMA LocalSet ==
    ASSUME NEW e \in EntryType, NEW l \in KeyLines
    PROVE  /\ SetLocal(e, l) \in EntryType
           /\ l.field = "key" => SetLocal(e, l) = [e EXCEPT !.raw = l.text]
           /\ l.field # "key" => SetLocal(e, l).raw = e.raw
  <1>0. l.num \in Int
    BY KeysAssumption
  <1>1. CASE l.field = "key"
    BY <1>0, <1>1, KeysAssumption DEF SetLocal, Field, EntryType
  <1>2. CASE l.field = "provider_allowlist"
    BY <1>0, <1>2 DEF SetLocal, Field, EntryType
  <1>3. CASE l.field = "token_budget"
    BY <1>0, <1>3 DEF SetLocal, Field, EntryType
  <1>4. CASE l.field = "budget_period"
    BY <1>0, <1>4 DEF SetLocal, Field, EntryType
  <1> QED BY <1>1, <1>2, <1>3, <1>4, KeysAssumption

\* An empty store with no entry begun satisfies the invariant.
LEMMA KeysInitInv == KeysInit => KeysInv
  <1> SUFFICES ASSUME KeysInit PROVE KeysInv
    OBVIOUS
  <1>1. entry \in EntryType /\ entry.raw = "" /\ entry = yamlEntry /\ entry = NoEntry
    BY EmptyEntry DEF KeysInit
  <1>2. Usable(store) = {}
    BY DEF KeysInit, NoRecord, Usable
  <1>3. keyLines \in 0 .. MaxKeyLines
    <2>1. MaxKeyLines \in Nat BY KeysAssumption
    <2> QED BY <2>1 DEF KeysInit
  <1> QED BY <1>1, <1>2, <1>3 DEF KeysInit, KeysInv, KeysLoadedAreMeant

\* A line of the file preserves it.
LEMMA KeyLineInv ==
    ASSUME KeysInv, NEW l \in KeyLines, NEW d, ReadKeyLine(l, d)
    PROVE  KeysInv'
  <1>1. keyLines' \in 0 .. MaxKeyLines
    <2>1. MaxKeyLines \in Nat BY KeysAssumption
    <2>2. keyLines \in 0 .. MaxKeyLines BY DEF KeysInv
    <2>3. keyLines < MaxKeyLines /\ keyLines' = keyLines + 1 BY DEF ReadKeyLine
    <2> QED BY <2>1, <2>2, <2>3
  <1> USE DEF KeysInv
  <1>2. CASE l.field = "key"
    <2>1. /\ entry' = SetLocal(Flushed(entry), l)
          /\ store' = FlushedStore(store, entry, d)
          /\ keyStatus' = IF FlushFails(entry) THEN "failed" ELSE "reading"
          /\ keyStatus = "reading"
      BY <1>2 DEF ReadKeyLine
    <2>2. DOMAIN store' = KeyNames /\ Flushed(entry) \in EntryType
      BY <2>1, FlushMoves
    <2>3. entry' \in EntryType /\ entry' = [Flushed(entry) EXCEPT !.raw = l.text]
      BY <1>2, <2>1, <2>2, LocalSet
    <2>4. entry'.raw = l.text
      BY <2>2, <2>3 DEF EntryType
    <2>5. CASE FlushFails(entry)
      BY <1>1, <2>1, <2>2, <2>3, <2>5 DEF KeysLoadedAreMeant
    <2>6. CASE ~FlushFails(entry)
      <3>1. named' = Usable(store') \cup ({l.text} \ {""})
        <4>1. Usable(store') = named
          BY <2>1, <2>6, FlushMoves
        <4>2. named' = named \cup (IF l.text # "" THEN {l.text} ELSE {})
          BY <1>2 DEF ReadKeyLine, Describe
        <4> QED BY <4>1, <4>2
      <3>2. ASSUME keyFirst'
            PROVE  store' = described' /\ entry' = yamlEntry' /\ entry'.raw # ""
        <4>1. keyFirst /\ l.dash /\ yamlEntry'.raw # ""
          BY <1>2, <3>2 DEF ReadKeyLine, Describe
        <4>2. store = described /\ entry = yamlEntry /\ Flushed(entry) = NoEntry
          BY <2>1, <4>1 DEF Flushed
        <4> QED BY <2>1, <4>1, <4>2 DEF ReadKeyLine, Describe
      <3> QED BY <1>1, <2>1, <2>2, <2>3, <2>4, <2>6, <3>1, <3>2 DEF KeysLoadedAreMeant
    <2> QED BY <2>5, <2>6
  <1>3. CASE l.field # "key"
    <2>1. /\ entry' = IF l.ok THEN SetLocal(entry, l) ELSE entry
          /\ keyStatus' = IF l.ok THEN "reading" ELSE "failed"
          /\ store' = store /\ keyStatus = "reading"
      BY <1>3 DEF ReadKeyLine
    <2>2. entry' \in EntryType /\ entry'.raw = entry.raw
      BY <1>3, <2>1, LocalSet
    <2>3. named' = named
      BY <1>3 DEF ReadKeyLine, Describe
    <2>4. ASSUME keyFirst', l.ok
          PROVE  store' = described' /\ entry' = yamlEntry' /\ entry'.raw # ""
      <3>1. keyFirst /\ ~l.dash /\ yamlEntry'.raw # ""
        BY <1>3, <2>4, KeysAssumption DEF ReadKeyLine, Describe
      <3> QED BY <2>1, <2>4, <3>1 DEF ReadKeyLine, Describe
    <2> QED BY <1>1, <2>1, <2>2, <2>3, <2>4 DEF KeysLoadedAreMeant
  <1> QED BY <1>2, <1>3

\* The end of the file preserves it: the last entry is flushed as well.
LEMMA KeysEndInv ==
    ASSUME KeysInv, NEW d, KeysEnd(d)
    PROVE  KeysInv'
  <1> USE DEF KeysInv
  <1>1. /\ store' = FlushedStore(store, entry, d)
        /\ described' = FlushedStore(described, yamlEntry, d)
        /\ keyStatus' = IF FlushFails(entry) THEN "failed" ELSE "ready"
        /\ UNCHANGED <<entry, yamlEntry, keyFirst, named, keyLines>>
        /\ keyStatus = "reading"
    BY DEF KeysEnd
  <1>2. DOMAIN store' = KeyNames
    BY <1>1, FlushMoves
  <1>3. ~FlushFails(entry) => named' = Usable(store')
    BY <1>1, FlushMoves
  <1>4. keyFirst' => store' = described'
    BY <1>1
  <1> QED BY <1>1, <1>2, <1>3, <1>4 DEF KeysLoadedAreMeant, Usable

\* Every step of the process preserves it.
LEMMA KeysNextInv == KeysInv /\ [StartupNext]_startupVars => KeysInv'
  <1> SUFFICES ASSUME KeysInv, [StartupNext]_startupVars PROVE KeysInv'
    OBVIOUS
  <1>1. ASSUME NEW found \in BOOLEAN, OpenKeysFile(found) PROVE KeysInv'
    BY <1>1 DEF OpenKeysFile, KeysInv, KeysLoadedAreMeant, Usable
  <1>2. CASE UNCHANGED keysVars
    BY <1>2 DEF keysVars, KeysInv, KeysLoadedAreMeant, Usable
  <1>3. CASE LoadKeys
    BY <1>3, KeyLineInv, KeysEndInv DEF LoadKeys
  <1> QED BY <1>1, <1>2, <1>3 DEF StartupNext, LoadConfig, StartKeys, Serve, Dial, FetchDial,
                                  Stopped, startupVars

\* A keys file that loads gives every key it names, and no other, a usable record,
\* and each its own when every entry begins with its key.
THEOREM KeysFileIsLoaded == StartupSpec => []KeysLoadedAreMeant
  <1>1. StartupInit => KeysInv
    BY KeysInitInv DEF StartupInit
  <1>2. KeysInv => KeysLoadedAreMeant
    BY DEF KeysInv
  <1> QED BY <1>1, <1>2, KeysNextInv, PTL DEF StartupSpec

-----------------------------------------------------------------------------
\* The configuration: the types.

\* The texts a file may give, and an override: a pointer that may be nil.
FileTexts == {NoText} \cup {l.text : l \in Lines}
OverrideType == {<<>>} \cup {<<t>> : t \in [Thresholds -> Int]}

\* A provider, and the Config that parseFile fills in.
ProviderRecord == [name : FileTexts, type : FileTexts, priority : Int, base_url : FileTexts,
                   override : OverrideType]
ConfigRecord == [settings : [Settings -> Int], providers : Seq(ProviderRecord)]

\* The fields of a provider are those of Fields and the override.
LEMMA FieldNames ==
    /\ Fields = {"name", "type", "base_url", "priority"}
    /\ \A k \in Fields : k \notin Thresholds /\ k # "circuit_breaker" /\ k # "override"
    /\ "circuit_breaker" \notin Thresholds
  BY DEF Fields, Texts, Thresholds

\* The values of a line.
LEMMA LineValues ==
    ASSUME NEW l \in Lines
    PROVE  /\ l.text \in FileTexts
           /\ Atoi(l) \in Int
           /\ l.key \in Fields \ {"priority"} => Value(l) = l.text
           /\ l.key = "priority" => Value(l) = Atoi(l)
  <1>1. l.text \in FileTexts
    BY DEF FileTexts
  <1>2. Atoi(l) \in Int
    BY ConfigAssumption DEF Atoi
  <1>3. /\ l.key \in Fields \ {"priority"} => l.key \in Texts
        /\ l.key = "priority" => l.key \notin Texts
    BY DEF Fields, Texts
  <1> QED BY <1>1, <1>2, <1>3 DEF Value

\* Provider{}, and a provider with one field set by a line.
LEMMA NewProviderType == NewProvider \in ProviderRecord
  <1>1. NoText \in FileTexts /\ <<>> \in OverrideType
    BY DEF FileTexts, OverrideType
  <1> QED BY <1>1 DEF NewProvider, ProviderRecord

\* A line may set a field of a provider.
LEMMA FieldSet ==
    ASSUME NEW p \in ProviderRecord, NEW l \in Lines, l.key \in Fields
    PROVE  [p EXCEPT ![l.key] = Value(l)] \in ProviderRecord
  <1>1. CASE l.key = "priority"
    BY <1>1, LineValues DEF ProviderRecord
  <1>2. CASE l.key = "name"
    BY <1>2, LineValues, FieldNames DEF ProviderRecord
  <1>3. CASE l.key = "type"
    BY <1>3, LineValues, FieldNames DEF ProviderRecord
  <1>4. CASE l.key = "base_url"
    BY <1>4, LineValues, FieldNames DEF ProviderRecord
  <1> QED BY <1>1, <1>2, <1>3, <1>4, FieldNames

\* The override with one threshold set; setBreakerValue.
WithThreshold(o, k, v) == [o EXCEPT ![1] = [@ EXCEPT ![k] = v]]

\* Setting a threshold through a pointer that is not nil.
LEMMA ThresholdSet ==
    ASSUME NEW o \in OverrideType, o # <<>>, NEW k \in Thresholds, NEW v \in Int
    PROVE  WithThreshold(o, k, v) \in OverrideType /\ WithThreshold(o, k, v) # <<>>
  <1>1. PICK t \in [Thresholds -> Int] : o = <<t>>
    BY DEF OverrideType
  <1>2. PICK u \in [Thresholds -> Int] : u = [t EXCEPT ![k] = v]
    OBVIOUS
  <1>3. WithThreshold(<<t>>, k, v) = [<<t>> EXCEPT ![1] = u]
    BY <1>2 DEF WithThreshold
  <1>4. [<<t>> EXCEPT ![1] = u] = <<u>>
    OBVIOUS
  <1>5. <<u>> \in OverrideType /\ <<u>> # <<>>
    BY DEF OverrideType
  <1> QED BY <1>1, <1>3, <1>4, <1>5

\* &BreakerConfig{} is an override.
LEMMA NewOverrideType == NewOverride \in OverrideType /\ NewOverride # <<>>
  <1>1. NoThresholds \in [Thresholds -> Int]
    BY DEF NoThresholds
  <1> QED BY <1>1 DEF NewOverride, OverrideType

-----------------------------------------------------------------------------
\* The configuration: what the parser has against what the file says.

\* A provider as the parser has it, and as the file describes it: a field is that of
\* the file or still its zero value, the override is that of the file.
Loses(p, m) == /\ p.name \in {NoText, m.name} /\ p.base_url \in {NoText, m.base_url}
               /\ p.type \in {NoText, m.type} /\ p.priority \in {0, m.priority}
               /\ p.override = m.override

\* The same of the whole Config; settings are never lost.
Agree(c, m) == /\ c \in ConfigRecord /\ m \in ConfigRecord
               /\ c.settings = m.settings
               /\ Len(c.providers) = Len(m.providers)
               /\ \A i \in 1 .. Len(c.providers) : Loses(c.providers[i], m.providers[i])

\* The last provider, and the Config with another one in its place.
LastOf(c) == c.providers[Len(c.providers)]
WithLast(c, q) == [c EXCEPT !.providers[Len(c.providers)] = q]

\* A sequence with another last element, and with one more.
LEMMA ReplaceLast ==
    ASSUME NEW S, NEW ps \in Seq(S), ps # <<>>, NEW q \in S,
           NEW qs, qs = [ps EXCEPT ![Len(ps)] = q]
    PROVE  /\ qs \in Seq(S) /\ Len(qs) = Len(ps) /\ qs # <<>>
           /\ \A i \in 1 .. Len(ps) : qs[i] = IF i = Len(ps) THEN q ELSE ps[i]
           /\ Len(ps) \in 1 .. Len(ps)
           /\ qs[Len(ps)] = q /\ ps[Len(ps)] \in S
  <1>1. Len(ps) \in Nat /\ Len(ps) >= 1
    OBVIOUS
  <1>2. qs \in Seq(S) /\ Len(qs) = Len(ps)
    OBVIOUS
  <1>3. \A i \in 1 .. Len(ps) : qs[i] = IF i = Len(ps) THEN q ELSE ps[i]
    OBVIOUS
  <1>4. qs # <<>>
    BY <1>1, <1>2
  <1> QED BY <1>1, <1>2, <1>3, <1>4

\* The same for Append.
LEMMA AppendLast ==
    ASSUME NEW S, NEW ps \in Seq(S), NEW q \in S, NEW qs, qs = Append(ps, q)
    PROVE  /\ qs \in Seq(S) /\ Len(qs) = Len(ps) + 1 /\ qs # <<>>
           /\ \A i \in 1 .. Len(ps) : qs[i] = ps[i]
           /\ qs[Len(ps) + 1] = q
  <1>1. Len(ps) \in Nat /\ qs \in Seq(S) /\ Len(qs) = Len(ps) + 1
    OBVIOUS
  <1>2. qs # <<>>
    BY <1>1
  <1> QED BY <1>1, <1>2

\* A Config with other providers.
LEMMA OtherProviders ==
    ASSUME NEW c \in ConfigRecord, NEW qs \in Seq(ProviderRecord),
           NEW d, d = [c EXCEPT !.providers = qs]
    PROVE  d \in ConfigRecord /\ d.settings = c.settings /\ d.providers = qs
  BY DEF ConfigRecord

\* Replacing the last provider.
LEMMA WithLastFacts ==
    ASSUME NEW c \in ConfigRecord, c.providers # <<>>, NEW q \in ProviderRecord
    PROVE  /\ WithLast(c, q) \in ConfigRecord
           /\ WithLast(c, q).settings = c.settings
           /\ Len(WithLast(c, q).providers) = Len(c.providers)
           /\ WithLast(c, q).providers # <<>>
           /\ \A i \in 1 .. Len(c.providers) :
                 WithLast(c, q).providers[i] = IF i = Len(c.providers) THEN q ELSE c.providers[i]
           /\ LastOf(WithLast(c, q)) = q
           /\ LastOf(c) \in ProviderRecord
  <1> DEFINE ps == c.providers
             qs == [ps EXCEPT ![Len(ps)] = q]
  <1>1. ps \in Seq(ProviderRecord)
    BY DEF ConfigRecord
  <1>2. WithLast(c, q) = [c EXCEPT !.providers = qs]
    BY DEF WithLast
  <1>3. /\ qs \in Seq(ProviderRecord) /\ Len(qs) = Len(ps) /\ qs # <<>>
        /\ \A i \in 1 .. Len(ps) : qs[i] = IF i = Len(ps) THEN q ELSE ps[i]
        /\ qs[Len(ps)] = q /\ ps[Len(ps)] \in ProviderRecord
    BY <1>1, ReplaceLast
  <1> HIDE DEF qs
  <1>4. /\ WithLast(c, q) \in ConfigRecord
        /\ WithLast(c, q).settings = c.settings /\ WithLast(c, q).providers = qs
    BY <1>2, <1>3, OtherProviders
  <1> QED BY <1>3, <1>4 DEF LastOf

\* The Config with a provider appended.
LEMMA NewItemFacts ==
    ASSUME NEW c \in ConfigRecord
    PROVE  /\ NewItem(c) \in ConfigRecord
           /\ NewItem(c).settings = c.settings
           /\ Len(NewItem(c).providers) = Len(c.providers) + 1
           /\ NewItem(c).providers # <<>>
           /\ \A i \in 1 .. Len(c.providers) : NewItem(c).providers[i] = c.providers[i]
           /\ NewItem(c).providers[Len(c.providers) + 1] = NewProvider
  <1> DEFINE ps == c.providers
             qs == Append(ps, NewProvider)
  <1>1. ps \in Seq(ProviderRecord)
    BY DEF ConfigRecord
  <1>2. NewItem(c) = [c EXCEPT !.providers = qs]
    BY DEF NewItem
  <1>3. /\ qs \in Seq(ProviderRecord) /\ Len(qs) = Len(ps) + 1 /\ qs # <<>>
        /\ \A i \in 1 .. Len(ps) : qs[i] = ps[i]
        /\ qs[Len(ps) + 1] = NewProvider
    BY <1>1, NewProviderType, AppendLast
  <1> HIDE DEF qs
  <1>4. /\ NewItem(c) \in ConfigRecord
        /\ NewItem(c).settings = c.settings /\ NewItem(c).providers = qs
    BY <1>2, <1>3, OtherProviders
  <1> QED BY <1>3, <1>4

\* The agreement survives when the last providers are replaced by two that agree ...
LEMMA AgreeLast ==
    ASSUME NEW c, NEW m, Agree(c, m), c.providers # <<>>,
           NEW q \in ProviderRecord, NEW r \in ProviderRecord, Loses(q, r)
    PROVE  Agree(WithLast(c, q), WithLast(m, r))
  <1>1. m.providers # <<>> /\ Len(c.providers) = Len(m.providers)
    BY DEF Agree, ConfigRecord
  <1>2. ASSUME NEW i \in 1 .. Len(c.providers)
        PROVE  Loses(WithLast(c, q).providers[i], WithLast(m, r).providers[i])
    <2>1. CASE i = Len(c.providers)
      <3>1. WithLast(c, q).providers[i] = q
        BY <2>1, WithLastFacts DEF Agree
      <3>2. WithLast(m, r).providers[i] = r
        <4>1. i = Len(m.providers) /\ i \in 1 .. Len(m.providers) /\ m \in ConfigRecord
          BY <1>1, <2>1 DEF Agree
        <4> QED BY <1>1, <4>1, WithLastFacts
      <3> QED BY <3>1, <3>2
    <2>2. CASE i # Len(c.providers)
      BY SMTT(40), <1>1, <2>2, WithLastFacts DEF Agree
    <2> QED BY <2>1, <2>2
  <1>3. Len(WithLast(c, q).providers) = Len(c.providers)
    BY WithLastFacts DEF Agree
  <1> QED BY <1>1, <1>2, <1>3, WithLastFacts DEF Agree

\* ... and when both get a new provider.
LEMMA AgreeNew ==
    ASSUME NEW c, NEW m, Agree(c, m)
    PROVE  Agree(NewItem(c), NewItem(m))
  <1>1. Loses(NewProvider, NewProvider)
    BY DEF Loses, NewProvider
  <1>2. Len(NewItem(c).providers) = Len(c.providers) + 1 /\ Len(c.providers) = Len(m.providers)
    BY NewItemFacts DEF Agree
  <1>3. ASSUME NEW i \in 1 .. Len(NewItem(c).providers)
        PROVE  Loses(NewItem(c).providers[i], NewItem(m).providers[i])
    <2>1. CASE i = Len(c.providers) + 1
      BY <1>1, <1>2, <2>1, NewItemFacts DEF Agree
    <2>2. CASE i # Len(c.providers) + 1
      <3>1. Len(c.providers) \in Nat
        BY DEF Agree, ConfigRecord
      <3>2. i \in 1 .. Len(c.providers)
        BY <1>2, <2>2, <3>1
      <3> QED BY <1>2, <3>2, NewItemFacts DEF Agree
    <2> QED BY <2>1, <2>2
  <1> QED BY <1>2, <1>3, NewItemFacts DEF Agree

-----------------------------------------------------------------------------
\* The configuration: parseFile.

\* A field that both get, or that only the file's provider gets, having its zero value.
LEMMA LosesField ==
    ASSUME NEW p \in ProviderRecord, NEW q \in ProviderRecord, Loses(p, q),
           NEW k \in Fields, NEW v
    PROVE  /\ Loses([p EXCEPT ![k] = v], [q EXCEPT ![k] = v])
           /\ q[k] = NewProvider[k] => Loses(p, [q EXCEPT ![k] = v])
  <1> USE DEF Loses, ProviderRecord, NewProvider
  <1>1. CASE k = "name"
    BY <1>1
  <1>2. CASE k = "type"
    BY <1>2
  <1>3. CASE k = "base_url"
    BY <1>3
  <1>4. CASE k = "priority"
    BY <1>4
  <1> QED BY <1>1, <1>2, <1>3, <1>4, FieldNames

\* An override that both get.
LEMMA LosesOverride ==
    ASSUME NEW p \in ProviderRecord, NEW q \in ProviderRecord, Loses(p, q),
           NEW o \in OverrideType
    PROVE  /\ Loses([p EXCEPT !.override = o], [q EXCEPT !.override = o])
           /\ [p EXCEPT !.override = o] \in ProviderRecord
           /\ [p EXCEPT !.override = o].override = o
  BY DEF Loses, ProviderRecord

\* SetField and SetOverride replace the last provider.
LEMMA SetIsWithLast ==
    ASSUME NEW c \in ConfigRecord, c.providers # <<>>, NEW k, NEW v
    PROVE  /\ SetField(c, k, v) = WithLast(c, [LastOf(c) EXCEPT ![k] = v])
           /\ k \in Thresholds => SetOverride(c, k, v) =
                  WithLast(c, [LastOf(c) EXCEPT !.override = WithThreshold(@, k, v)])
           /\ k \notin Thresholds => SetOverride(c, k, v) = c
  BY DEF SetField, SetOverride, WithLast, LastOf, WithThreshold

\* Of the two last providers.
LEMMA AgreeLastOf ==
    ASSUME NEW c, NEW m, Agree(c, m), c.providers # <<>>
    PROVE  /\ m.providers # <<>> /\ c \in ConfigRecord /\ m \in ConfigRecord
           /\ LastOf(c) \in ProviderRecord /\ LastOf(m) \in ProviderRecord
           /\ Loses(LastOf(c), LastOf(m))
  <1>1. /\ c.providers \in Seq(ProviderRecord) /\ m.providers \in Seq(ProviderRecord)
        /\ Len(c.providers) = Len(m.providers) /\ c \in ConfigRecord /\ m \in ConfigRecord
    BY DEF Agree, ConfigRecord
  <1>2. Len(c.providers) \in 1 .. Len(c.providers) /\ m.providers # <<>>
    BY <1>1
  <1>3. c.providers[Len(c.providers)] \in ProviderRecord /\ m.providers[Len(c.providers)] \in ProviderRecord
    BY <1>1, <1>2
  <1> QED BY <1>1, <1>2, <1>3 DEF Agree, LastOf

\* A field of the last provider: set in both, or in the file's only.
LEMMA AgreeField ==
    ASSUME NEW c, NEW m, Agree(c, m), c.providers # <<>>, NEW l \in Lines, l.key \in Fields
    PROVE  /\ Agree(SetField(c, l.key, Value(l)), SetField(m, l.key, Value(l)))
           /\ LastOf(m)[l.key] = NewProvider[l.key] => Agree(c, SetField(m, l.key, Value(l)))
           /\ SetField(c, l.key, Value(l)).providers # <<>>
           /\ Len(SetField(m, l.key, Value(l)).providers) = Len(m.providers)
  <1> DEFINE p == [LastOf(c) EXCEPT ![l.key] = Value(l)]
             q == [LastOf(m) EXCEPT ![l.key] = Value(l)]
  <1>1. /\ m.providers # <<>> /\ c \in ConfigRecord /\ m \in ConfigRecord
        /\ LastOf(c) \in ProviderRecord /\ LastOf(m) \in ProviderRecord
        /\ Loses(LastOf(c), LastOf(m))
    BY AgreeLastOf
  <1>2. p \in ProviderRecord /\ q \in ProviderRecord
    BY <1>1, FieldSet
  <1>3. SetField(c, l.key, Value(l)) = WithLast(c, p) /\ SetField(m, l.key, Value(l)) = WithLast(m, q)
    BY DEF SetField, WithLast, LastOf
  <1>4. Loses(p, q)
    BY <1>1, LosesField
  <1>5. LastOf(m)[l.key] = NewProvider[l.key] => Loses(LastOf(c), q)
    BY <1>1, LosesField
  <1> HIDE DEF p, q
  <1>6. Agree(WithLast(c, p), WithLast(m, q))
    BY <1>2, <1>4, AgreeLast
  <1>7. Agree(c, m) /\ Loses(LastOf(c), q) => Agree(c, WithLast(m, q))
    <2> SUFFICES ASSUME Loses(LastOf(c), q) PROVE Agree(c, WithLast(m, q))
      OBVIOUS
    <2>1. /\ WithLast(m, q) \in ConfigRecord /\ WithLast(m, q).settings = m.settings
          /\ Len(WithLast(m, q).providers) = Len(m.providers)
          /\ \A i \in 1 .. Len(m.providers) :
                WithLast(m, q).providers[i] = IF i = Len(m.providers) THEN q ELSE m.providers[i]
      BY <1>1, <1>2, WithLastFacts
    <2>2. ASSUME NEW i \in 1 .. Len(c.providers)
          PROVE  Loses(c.providers[i], WithLast(m, q).providers[i])
      <3>1. CASE i = Len(c.providers)
        BY <2>1, <3>1 DEF Agree, LastOf
      <3>2. CASE i # Len(c.providers)
        BY <2>1, <3>2 DEF Agree
      <3> QED BY <3>1, <3>2
    <2> QED BY <1>1, <2>1, <2>2 DEF Agree
  <1>8. WithLast(c, p).providers # <<>> /\ Len(WithLast(m, q).providers) = Len(m.providers)
    BY <1>1, <1>2, WithLastFacts
  <1> QED BY <1>3, <1>5, <1>6, <1>7, <1>8

\* An override that both last providers get.
LEMMA AgreeOverride ==
    ASSUME NEW c, NEW m, Agree(c, m), c.providers # <<>>, NEW o \in OverrideType
    PROVE  LET d == WithLast(c, [LastOf(c) EXCEPT !.override = o])
               n == WithLast(m, [LastOf(m) EXCEPT !.override = o])
           IN  Agree(d, n) /\ d.providers # <<>> /\ LastOf(d).override = o
  <1>1. /\ m.providers # <<>> /\ c \in ConfigRecord /\ m \in ConfigRecord
        /\ LastOf(c) \in ProviderRecord /\ LastOf(m) \in ProviderRecord
        /\ Loses(LastOf(c), LastOf(m))
    BY AgreeLastOf
  <1> DEFINE p == [LastOf(c) EXCEPT !.override = o]
             q == [LastOf(m) EXCEPT !.override = o]
  <1>2. Loses(p, q) /\ p \in ProviderRecord /\ p.override = o
    BY <1>1, LosesOverride
  <1>3. q \in ProviderRecord
    BY <1>1 DEF ProviderRecord
  <1> HIDE DEF p, q
  <1>4. Agree(WithLast(c, p), WithLast(m, q))
    BY <1>2, <1>3, AgreeLast
  <1>5. WithLast(c, p).providers # <<>> /\ LastOf(WithLast(c, p)) = p
    BY <1>1, <1>2, WithLastFacts
  <1> QED BY <1>2, <1>4, <1>5 DEF p, q

\* A setting that both get.
LEMMA AgreeSetting ==
    ASSUME NEW c, NEW m, Agree(c, m), NEW k \in Settings, NEW v \in Int
    PROVE  /\ Agree([c EXCEPT !.settings[k] = v], [m EXCEPT !.settings[k] = v])
           /\ [c EXCEPT !.settings[k] = v].providers = c.providers
  <1>1. ASSUME NEW b \in ConfigRecord
        PROVE  /\ [b EXCEPT !.settings[k] = v] \in ConfigRecord
               /\ [b EXCEPT !.settings[k] = v].providers = b.providers
               /\ [b EXCEPT !.settings[k] = v].settings = [b.settings EXCEPT ![k] = v]
    BY DEF ConfigRecord
  <1> DEFINE d == [c EXCEPT !.settings[k] = v]
             n == [m EXCEPT !.settings[k] = v]
  <1>2. d \in ConfigRecord /\ d.providers = c.providers /\ d.settings = [c.settings EXCEPT ![k] = v]
    BY <1>1 DEF Agree
  <1>3. n \in ConfigRecord /\ n.providers = m.providers /\ n.settings = [m.settings EXCEPT ![k] = v]
    BY <1>1 DEF Agree
  <1> HIDE DEF d, n
  <1>4. Agree(d, n) /\ d.providers = c.providers
    BY <1>2, <1>3 DEF Agree
  <1> QED BY <1>4 DEF d, n

\* Load begins with a Config that agrees with that of an empty file.
LEMMA AgreeEmpty == Agree(NewConfig, NewConfig) /\ NewConfig.settings \in [Settings -> Int]
  <1>1. Defaults \in [Settings -> Int]
    BY DEF Defaults, Settings, SectionOf
  <1>2. <<>> \in Seq(ProviderRecord) /\ Len(<<>>) = 0
    OBVIOUS
  <1>3. NewConfig \in ConfigRecord /\ NewConfig.providers = <<>> /\ NewConfig.settings = Defaults
    BY <1>1, <1>2 DEF NewConfig, ConfigRecord
  <1> QED BY <1>1, <1>2, <1>3 DEF Agree

\* Some provider has an override block; the cause of a panic: one has, the last has not.
HasBlock(m) == \E i \in 1 .. Len(m.providers) : m.providers[i].override # <<>>
PanicCause == /\ meant.providers[Len(meant.providers)].override = <<>>
              /\ \E i \in 1 .. Len(meant.providers) - 1 : meant.providers[i].override # <<>>

\* What holds of the parser: it agrees with the file, it is exactly the file as long as
\* the file is plain, its flag is up only when some provider has an override block and
\* at least when the item that is read has one.
ReaderInv ==
    /\ reader \in [section : {NoText} \cup {l.key : l \in Lines}, inItem : BOOLEAN, override : BOOLEAN]
    /\ reader.inItem => cfg.providers # <<>>
FileInv ==
    /\ Agree(cfg, meant)
    /\ plain => cfg = meant
    /\ reader.override => HasBlock(meant)
    /\ reader.inItem /\ LastOf(meant).override # <<>> => reader.override

\* A new reader, before the first line and when Load has returned.
LEMMA ConfigInitInv == ConfigInit => ReaderInv /\ FileInv /\ status = "reading"
  <1> SUFFICES ASSUME ConfigInit PROVE ReaderInv /\ FileInv /\ status = "reading"
    OBVIOUS
  <1>1. ReaderInv
    BY DEF ConfigInit, ReaderInv, NewReader
  <1> QED BY <1>1, AgreeEmpty DEF ConfigInit, FileInv, NewReader

\* The same of the step that hands the Config on.
LEMMA ConfigDoneInv == ConfigDone => ReaderInv' /\ FileInv' /\ status' = "done"
  <1> SUFFICES ASSUME ConfigDone PROVE ReaderInv' /\ FileInv' /\ status' = "done"
    OBVIOUS
  <1>1. ReaderInv'
    BY DEF ConfigDone, ReaderInv, NewReader
  <1> QED BY <1>1, AgreeEmpty DEF ConfigDone, FileInv, NewReader

\* A section line changes neither Config.
LEMMA SectionInv ==
    ASSUME ReaderInv, FileInv, NEW l \in Lines, ReadSection(l)
    PROVE  ReaderInv' /\ FileInv' /\ status' = status
  BY DEF ReaderInv, FileInv, ReadSection

\* A field of a provider leaves its override alone.
LEMMA FieldKeepsOverride ==
    ASSUME NEW q \in ProviderRecord, NEW k \in Fields, NEW v
    PROVE  [q EXCEPT ![k] = v].override = q.override
  <1>1. k # "override"
    BY FieldNames
  <1> QED BY <1>1 DEF ProviderRecord

\* Replacing the last provider takes no override block away unless it was the last one's.
LEMMA BlockKept ==
    ASSUME NEW m \in ConfigRecord, m.providers # <<>>, NEW q \in ProviderRecord
    PROVE  /\ q.override # <<>> => HasBlock(WithLast(m, q))
           /\ HasBlock(m) /\ q.override = LastOf(m).override => HasBlock(WithLast(m, q))
           /\ LastOf(WithLast(m, q)).override = q.override
  <1>1. /\ Len(WithLast(m, q).providers) = Len(m.providers) /\ LastOf(WithLast(m, q)) = q
        /\ \A i \in 1 .. Len(m.providers) :
              WithLast(m, q).providers[i] = IF i = Len(m.providers) THEN q ELSE m.providers[i]
    BY WithLastFacts
  <1>2. Len(m.providers) \in 1 .. Len(m.providers)
    BY DEF ConfigRecord
  <1>3. q.override # <<>> => HasBlock(WithLast(m, q))
    BY <1>1, <1>2 DEF HasBlock
  <1>4. HasBlock(m) /\ q.override = LastOf(m).override => HasBlock(WithLast(m, q))
    BY <1>1 DEF HasBlock, LastOf
  <1> QED BY <1>1, <1>3, <1>4

\* A pair of the last provider: a field or an override block, or a threshold in its
\* block or outside it.  A nil override is followed only when the flag was raised by an
\* earlier provider.
LEMMA PairInv ==
    ASSUME NEW c, NEW m, Agree(c, m), c.providers # <<>>, NEW l \in Lines,
           ReadProviderPair(c, m, l), ReaderInv,
           l.key \in Fields => LastOf(m)[l.key] = NewProvider[l.key],
           reader.override => HasBlock(m),
           LastOf(m).override # <<>> => reader.override
    PROVE  /\ Agree(cfg', meant') /\ ReaderInv'
           /\ reader'.override => HasBlock(meant')
           /\ LastOf(meant').override # <<>> => reader'.override
           /\ status' = status \/ (status' = "panicked" /\ PanicCause')
           /\ c = m /\ (reader.override => l.key \in Thresholds) => cfg' = meant'
  <1>1. /\ m.providers # <<>> /\ c \in ConfigRecord /\ m \in ConfigRecord
        /\ LastOf(c) \in ProviderRecord /\ LastOf(m) \in ProviderRecord
        /\ LastOf(c).override = LastOf(m).override /\ LastOf(m).override \in OverrideType
    BY AgreeLastOf DEF Loses, ProviderRecord
  <1>2. Last(c.providers) = LastOf(c) /\ Last(m.providers) = LastOf(m)
    BY DEF Last, LastOf
  <1>3. /\ reader' = [reader EXCEPT !.inItem = TRUE, !.override = @ \/ l.key = "circuit_breaker"]
        /\ meant' = MeantPair(m, l)
        /\ NilOverride(c, l.key) => status' = "panicked" /\ cfg' = c
        /\ ~NilOverride(c, l.key) => status' = status /\ cfg' = ProviderPair(c, l)
    BY DEF ReadProviderPair
  <1>4. reader.override \in BOOLEAN /\ (reader'.override <=> reader.override \/ l.key = "circuit_breaker")
    BY <1>3 DEF ReaderInv
  <1>5. ASSUME cfg'.providers # <<>> PROVE ReaderInv'
    BY <1>3, <1>5 DEF ReaderInv
  <1>6. CASE l.key \in Fields
    <2>1. meant' = SetField(m, l.key, Value(l))
      BY <1>3, <1>6, FieldNames DEF MeantPair
    <2>2. ~NilOverride(c, l.key) /\ status' = status
      BY <1>3, <1>6, FieldNames DEF NilOverride
    <2>3. cfg' = IF reader.override THEN c ELSE SetField(c, l.key, Value(l))
      BY <1>3, <1>6, <2>2, FieldNames DEF ProviderPair, SetOverride
    <2>4. Agree(cfg', meant') /\ cfg'.providers # <<>>
      BY <1>6, <2>1, <2>3, AgreeField
    <2> DEFINE q == [LastOf(m) EXCEPT ![l.key] = Value(l)]
    <2>5. q \in ProviderRecord /\ q.override = LastOf(m).override /\ meant' = WithLast(m, q)
      <3>1. q \in ProviderRecord
        BY <1>1, <1>6, FieldSet
      <3>2. q.override = LastOf(m).override
        BY <1>1, <1>6, FieldKeepsOverride
      <3>3. meant' = WithLast(m, q)
        BY <2>1 DEF SetField, WithLast, LastOf
      <3> QED BY <3>1, <3>2, <3>3
    <2> HIDE DEF q
    <2>6. /\ reader'.override => HasBlock(meant')
          /\ LastOf(meant').override # <<>> => reader'.override
      BY <1>1, <1>4, <1>6, <2>5, BlockKept, FieldNames
    <2>7. c = m /\ (reader.override => l.key \in Thresholds) => cfg' = meant'
      BY <1>6, <2>1, <2>3, FieldNames
    <2> QED BY <1>5, <2>2, <2>4, <2>6, <2>7
  <1>7. CASE l.key = "circuit_breaker"
    <2>1. meant' = SetField(m, "override", NewOverride)
      BY <1>3, <1>7, FieldNames DEF MeantPair, NewOverride
    <2>2. ~NilOverride(c, l.key) /\ status' = status
      BY <1>3, <1>7, FieldNames DEF NilOverride
    <2>3. cfg' = SetField(c, "override", NewOverride)
      BY <1>3, <1>7, <2>2, FieldNames DEF ProviderPair
    <2> DEFINE q == [LastOf(m) EXCEPT !.override = NewOverride]
    <2>4. cfg' = WithLast(c, [LastOf(c) EXCEPT !.override = NewOverride]) /\ meant' = WithLast(m, q)
      BY <2>1, <2>3 DEF SetField, WithLast, LastOf
    <2>5. Agree(cfg', meant') /\ cfg'.providers # <<>>
      BY <2>4, AgreeOverride, NewOverrideType
    <2>6. q \in ProviderRecord /\ q.override = NewOverride
      BY <1>1, NewOverrideType DEF ProviderRecord
    <2> HIDE DEF q
    <2>7. HasBlock(meant') /\ reader'.override
      BY <1>1, <1>4, <1>7, <2>4, <2>6, BlockKept, NewOverrideType
    <2>8. c = m => cfg' = meant'
      BY <2>1, <2>3
    <2> QED BY <1>5, <2>2, <2>5, <2>7, <2>8
  <1>8. CASE l.key \in Thresholds /\ LastOf(m).override # <<>>
    <2>1. reader.override /\ ~NilOverride(c, l.key) /\ status' = status
      BY <1>1, <1>2, <1>3, <1>8 DEF NilOverride
    <2>2. /\ meant' = SetOverride(m, l.key, Atoi(l))
          /\ cfg' = SetOverride(c, l.key, Atoi(l))
      BY <1>2, <1>3, <1>8, <2>1, FieldNames DEF MeantPair, ProviderPair
    <2> DEFINE o == WithThreshold(LastOf(c).override, l.key, Atoi(l))
               q == [LastOf(m) EXCEPT !.override = o]
    <2>3. o \in OverrideType /\ o # <<>>
      BY <1>1, <1>8, ThresholdSet, LineValues
    <2>4. cfg' = WithLast(c, [LastOf(c) EXCEPT !.override = o]) /\ meant' = WithLast(m, q)
      BY <1>1, <1>8, <2>2 DEF SetOverride, WithLast, LastOf, WithThreshold
    <2> HIDE DEF o
    <2>5. Agree(cfg', meant') /\ cfg'.providers # <<>>
      BY <2>3, <2>4, AgreeOverride
    <2>6. q \in ProviderRecord /\ q.override = o
      BY <1>1, <2>3 DEF ProviderRecord
    <2> HIDE DEF q
    <2>7. HasBlock(meant') /\ reader'.override
      BY <1>1, <1>4, <2>1, <2>3, <2>4, <2>6, BlockKept
    <2>8. c = m => cfg' = meant'
      BY <2>2
    <2> QED BY <1>5, <2>1, <2>5, <2>7, <2>8
  <1>9. CASE /\ l.key \notin Fields /\ l.key # "circuit_breaker"
             /\ l.key \in Thresholds => LastOf(m).override = <<>>
    <2>1. meant' = m
      BY <1>2, <1>3, <1>9 DEF MeantPair
    <2>2. cfg' = c
      BY <1>1, <1>2, <1>3, <1>9 DEF ProviderPair, SetOverride, NilOverride
    <2>3. NilOverride(c, l.key) => PanicCause'
      <3> SUFFICES ASSUME NilOverride(c, l.key) PROVE PanicCause'
        OBVIOUS
      <3>1. LastOf(m).override = <<>> /\ HasBlock(m)
        BY <1>1, <1>2 DEF NilOverride
      <3>2. PICK i \in 1 .. Len(m.providers) : m.providers[i].override # <<>>
        BY <3>1 DEF HasBlock
      <3>3. Len(m.providers) \in Nat
        BY <1>1 DEF ConfigRecord
      <3>4. i \in 1 .. Len(m.providers) - 1
        BY <3>1, <3>2, <3>3 DEF LastOf
      <3> QED BY <2>1, <3>1, <3>2, <3>4 DEF PanicCause, LastOf
    <2>4. status' = status \/ (status' = "panicked" /\ PanicCause')
      BY <1>3, <2>3
    <2> QED BY <1>4, <1>5, <1>9, <2>1, <2>2, <2>4
  <1> QED BY <1>6, <1>7, <1>8, <1>9

\* A list item: the same provider is appended to both, and gets its field unless the
\* override flag of the provider before it is still up.
LEMMA ItemInv ==
    ASSUME ReaderInv, FileInv, NEW l \in Lines, Written(l), ReadItem(l)
    PROVE  ReaderInv' /\ FileInv' /\ (status' = status \/ (status' = "panicked" /\ PanicCause'))
  <1>1. /\ ReadProviderPair(NewItem(cfg), NewItem(meant), l)
        /\ plain' = (plain /\ l.ok /\ ~reader.override)
    BY DEF ReadItem
  <1>2. Agree(NewItem(cfg), NewItem(meant)) /\ NewItem(cfg).providers # <<>>
    BY AgreeNew, NewItemFacts DEF FileInv, Agree
  <1>3. /\ Len(NewItem(meant).providers) = Len(meant.providers) + 1 /\ Len(meant.providers) \in Nat
        /\ \A i \in 1 .. Len(meant.providers) : NewItem(meant).providers[i] = meant.providers[i]
        /\ LastOf(NewItem(meant)) = NewProvider
    BY NewItemFacts DEF FileInv, Agree, ConfigRecord, LastOf
  <1>4. NewProvider.override = <<>>
    BY DEF NewProvider
  <1>5. reader.override => HasBlock(NewItem(meant))
    BY <1>3 DEF FileInv, HasBlock
  <1>6. /\ Agree(cfg', meant') /\ ReaderInv'
        /\ reader'.override => HasBlock(meant')
        /\ LastOf(meant').override # <<>> => reader'.override
        /\ status' = status \/ (status' = "panicked" /\ PanicCause')
        /\ NewItem(cfg) = NewItem(meant) /\ (reader.override => l.key \in Thresholds) => cfg' = meant'
    BY <1>1, <1>2, <1>3, <1>4, <1>5, PairInv
  <1>7. plain' => cfg' = meant'
    BY <1>1, <1>6 DEF FileInv
  <1> QED BY <1>6, <1>7 DEF FileInv

\* A pair of the item that is read.
LEMMA ProviderPairInv ==
    ASSUME ReaderInv, FileInv, NEW l \in Lines, Written(l), ReadPair(l),
           reader.section = "providers"
    PROVE  ReaderInv' /\ FileInv' /\ (status' = status \/ (status' = "panicked" /\ PanicCause'))
  <1>1. /\ ReadProviderPair(cfg, meant, l)
        /\ plain' = (plain /\ l.ok /\ (reader.override => l.key \in Thresholds))
    BY DEF ReadPair
  <1>2. /\ reader.inItem /\ cfg.providers # <<>>
        /\ l.key \in Fields => Last(meant.providers)[l.key] = NewProvider[l.key]
    BY DEF Written, ReadPair, ReaderInv
  <1>3. Last(meant.providers) = LastOf(meant)
    BY DEF Last, LastOf
  <1>4. /\ Agree(cfg', meant') /\ ReaderInv'
        /\ reader'.override => HasBlock(meant')
        /\ LastOf(meant').override # <<>> => reader'.override
        /\ status' = status \/ (status' = "panicked" /\ PanicCause')
        /\ cfg = meant /\ (reader.override => l.key \in Thresholds) => cfg' = meant'
    BY <1>1, <1>2, <1>3, PairInv DEF FileInv
  <1>5. plain' => cfg' = meant'
    BY <1>1, <1>4 DEF FileInv
  <1> QED BY <1>4, <1>5 DEF FileInv

\* A pair in another section is a setting of that section.
LEMMA SettingPairInv ==
    ASSUME ReaderInv, FileInv, NEW l \in Lines, Written(l), ReadPair(l), status = "reading",
           reader.section # "providers"
    PROVE  ReaderInv' /\ FileInv' /\ status' \in {"reading", "failed"}
  <1>1. l.key \in Settings /\ SectionOf[l.key] = reader.section
    BY DEF Written, ReadPair
  <1>2. /\ cfg' = [cfg EXCEPT !.settings[l.key] = Atoi(l)]
        /\ meant' = [meant EXCEPT !.settings[l.key] = Atoi(l)]
        /\ reader' = reader
        /\ status' \in {"reading", "failed"}
        /\ plain' = (plain /\ l.ok /\ (reader.override => l.key \in Thresholds))
    BY <1>1 DEF ReadPair, SettingPair
  <1>3. Agree(cfg', meant') /\ cfg'.providers = cfg.providers
    BY <1>1, <1>2, AgreeSetting, LineValues DEF FileInv
  <1>4. plain' => cfg' = meant'
    BY <1>2 DEF FileInv
  <1>5. meant'.providers = meant.providers
    BY <1>2 DEF FileInv, Agree, ConfigRecord
  <1>6. ReaderInv'
    BY <1>2, <1>3 DEF ReaderInv
  <1> QED BY <1>2, <1>3, <1>4, <1>5, <1>6 DEF FileInv, HasBlock, LastOf

\* Every line of the file preserves the agreement, and a line on which Load panics has
\* its cause.
LEMMA LineInv ==
    ASSUME ReaderInv, FileInv, NEW l \in Lines, ReadLine(l)
    PROVE  /\ ReaderInv' /\ FileInv'
           /\ status' \in {"reading", "failed"} \/ (status' = "panicked" /\ PanicCause')
  BY SectionInv, ItemInv, ProviderPairInv, SettingPairInv DEF ReadLine

-----------------------------------------------------------------------------
\* The configuration: sort.Slice.

\* The positions that sort.Slice puts before position i.
Before(ps, i) == {j \in DOMAIN ps : ps[j].priority < ps[i].priority}

\* A place is a position, and a smaller priority has a smaller place.
LEMMA PlaceOrder ==
    ASSUME NEW ps \in Seq(ProviderRecord)
    PROVE  /\ DOMAIN ps = 1 .. Len(ps)
           /\ \A i \in DOMAIN ps : ps[i].priority \in Int /\ Place(ps, i) \in DOMAIN ps
           /\ \A i, j \in DOMAIN ps : ps[i].priority < ps[j].priority => Place(ps, i) < Place(ps, j)
  <1>1. DOMAIN ps = 1 .. Len(ps) /\ Len(ps) \in Nat
    OBVIOUS
  <1>2. IsFiniteSet(DOMAIN ps) /\ Cardinality(DOMAIN ps) = Len(ps)
    BY SMTT(40), <1>1, FS_Interval
  <1>3. \A i \in DOMAIN ps : ps[i].priority \in Int
    <2>1. \A i \in DOMAIN ps : ps[i] \in ProviderRecord
      BY <1>1
    <2> QED BY <2>1 DEF ProviderRecord
  <1>4. ASSUME NEW i \in DOMAIN ps
        PROVE  /\ IsFiniteSet(Before(ps, i)) /\ Cardinality(Before(ps, i)) \in Nat
               /\ Place(ps, i) = 1 + Cardinality(Before(ps, i))
               /\ IsFiniteSet(Before(ps, i) \cup {i})
               /\ Cardinality(Before(ps, i) \cup {i}) = Place(ps, i)
    <2>1. IsFiniteSet(Before(ps, i))
      BY <1>2, FS_Subset DEF Before
    <2>2. Cardinality(Before(ps, i)) \in Nat
      BY <2>1, FS_CardinalityType
    <2>3. i \notin Before(ps, i)
      BY <1>3 DEF Before
    <2>4. Place(ps, i) = 1 + Cardinality(Before(ps, i))
      BY DEF Place, Before
    <2>5. /\ IsFiniteSet(Before(ps, i) \cup {i})
          /\ Cardinality(Before(ps, i) \cup {i}) = Cardinality(Before(ps, i)) + 1
      BY <2>1, <2>3, FS_AddElement
    <2> QED BY <2>1, <2>2, <2>4, <2>5
  <1>5. ASSUME NEW i \in DOMAIN ps PROVE Place(ps, i) \in DOMAIN ps
    <2>1. Before(ps, i) \cup {i} \in SUBSET DOMAIN ps
      BY DEF Before
    <2>2. Place(ps, i) <= Len(ps)
      BY <1>2, <1>4, <2>1, FS_Subset
    <2>3. Place(ps, i) \in Nat \ {0}
      <3>1. Place(ps, i) = 1 + Cardinality(Before(ps, i)) /\ Cardinality(Before(ps, i)) \in Nat
        BY <1>4
      <3> QED BY <3>1
    <2> QED BY <1>1, <2>2, <2>3
  <1>6. ASSUME NEW i \in DOMAIN ps, NEW j \in DOMAIN ps, ps[i].priority < ps[j].priority
        PROVE  Place(ps, i) < Place(ps, j)
    <2>1. Before(ps, i) \cup {i} \in SUBSET Before(ps, j)
      BY <1>3, <1>6 DEF Before
    <2>2. Place(ps, i) <= Cardinality(Before(ps, j))
      <3>1. IsFiniteSet(Before(ps, j))
        BY <1>4
      <3>2. Cardinality(Before(ps, i) \cup {i}) <= Cardinality(Before(ps, j))
        BY <2>1, <3>1, FS_Subset
      <3>3. Cardinality(Before(ps, i) \cup {i}) = Place(ps, i)
        BY <1>4
      <3> QED BY <3>2, <3>3
    <2>3. Place(ps, j) = 1 + Cardinality(Before(ps, j)) /\ Cardinality(Before(ps, j)) \in Nat
      BY <1>4
    <2>4. Place(ps, i) \in Int
      BY <1>1, <1>5
    <2> QED BY <2>2, <2>3, <2>4
  <1> QED BY <1>1, <1>3, <1>5, <1>6

\* When the priorities are distinct, every position is the place of a provider.
LEMMA PlaceTaken ==
    ASSUME NEW ps \in Seq(ProviderRecord), Distinct([i \in DOMAIN ps |-> ps[i].priority])
    PROVE  \A n \in DOMAIN ps : \E i \in DOMAIN ps : Place(ps, i) = n
  <1> DEFINE D == DOMAIN ps
             f == [i \in D |-> Place(ps, i)]
  <1>1. D = 1 .. Len(ps) /\ Len(ps) \in Nat /\ IsFiniteSet(D)
    BY FS_Interval
  <1>2. f \in [D -> D]
    BY PlaceOrder
  <1>3. ASSUME NEW i \in D, NEW j \in D, i # j PROVE f[i] # f[j]
    <2>1. ps[i].priority # ps[j].priority
      BY <1>3 DEF Distinct
    <2>2. /\ ps[i].priority \in Int /\ ps[j].priority \in Int
          /\ Place(ps, i) \in Int /\ Place(ps, j) \in Int
      BY <1>1, PlaceOrder
    <2>3. CASE ps[i].priority < ps[j].priority
      <3>1. Place(ps, i) < Place(ps, j)
        BY <2>3, PlaceOrder
      <3> QED BY <2>2, <3>1
    <2>4. CASE ps[j].priority < ps[i].priority
      <3>1. Place(ps, j) < Place(ps, i)
        BY <2>4, PlaceOrder
      <3> QED BY <2>2, <3>1
    <2> QED BY <2>1, <2>2, <2>3, <2>4
  <1>4. f \in Injection(D, D)
    BY <1>2, <1>3 DEF Injection, IsInjective
  <1>5. f \in Surjection(D, D)
    BY <1>1, <1>4, FS_Injection
  <1>6. \A n \in D : \E i \in D : f[i] = n
    BY <1>5 DEF Surjection
  <1> QED BY <1>6

\* The sorted providers: each position holds the provider whose place it is.
LEMMA SortedFacts ==
    ASSUME NEW ps \in Seq(ProviderRecord), Distinct([i \in DOMAIN ps |-> ps[i].priority])
    PROVE  /\ SortedList(ps) \in Seq(ProviderRecord) /\ Len(SortedList(ps)) = Len(ps)
           /\ \A n \in 1 .. Len(ps) : \E i \in 1 .. Len(ps) :
                 Place(ps, i) = n /\ SortedList(ps)[n] = ps[i]
  <1> DEFINE at == [n \in DOMAIN ps |-> CHOOSE i \in DOMAIN ps : Place(ps, i) = n]
  <1>1. \A n \in DOMAIN ps : at[n] \in DOMAIN ps /\ Place(ps, at[n]) = n
    BY PlaceTaken
  <1>2. SortedList(ps) = [n \in DOMAIN ps |-> ps[at[n]]]
    BY DEF SortedList
  <1> HIDE DEF at
  <1>3. DOMAIN ps = 1 .. Len(ps) /\ Len(ps) \in Nat
    OBVIOUS
  <1>4. \A n \in 1 .. Len(ps) : ps[at[n]] \in ProviderRecord
    BY <1>1, <1>3
  <1>5. SortedList(ps) \in Seq(ProviderRecord) /\ Len(SortedList(ps)) = Len(ps)
    BY <1>2, <1>3, <1>4
  <1>6. \A n \in 1 .. Len(ps) : SortedList(ps)[n] = ps[at[n]]
    BY <1>2, <1>3
  <1> QED BY <1>1, <1>3, <1>5, <1>6

-----------------------------------------------------------------------------
\* The configuration: Validate and Load.

\* A URL that passes the check is not empty.
LEMMA ValidURLNotEmpty ==
    ASSUME NEW type, NEW answer, ValidProviderURL(type, NoText, answer)
    PROVE  FALSE
  <1>1. DOMAIN URLs = {"plain", "secure", "literal", "numeric"}
    BY DEF URLs
  <1>2. NoText \notin {"plain", "secure", "literal", "numeric"}
    BY Zenon DEF NoText
  <1>3. URLOf(NoText).scheme = NoText
    BY <1>1, <1>2 DEF URLOf
  <1> QED BY <1>3 DEF ValidProviderURL

\* The thresholds of a provider are numbers; when they are positive New keeps them.
LEMMA BreakerConfigType ==
    ASSUME NEW c \in ConfigRecord, NEW p \in ProviderRecord,
           BreakerConfigFor(c, p).FailureThreshold >= 1,
           BreakerConfigFor(c, p).OpenTimeout >= 1,
           BreakerConfigFor(c, p).HalfOpenSuccessThreshold >= 1
    PROVE  BreakerConfigFor(c, p) \in ConfigType
  <1> DEFINE V(t) == IF p.override # <<>> /\ p.override[1][t] # 0
                     THEN p.override[1][t] ELSE c.settings[t]
  <1>1. Thresholds \subseteq Settings
    BY DEF Thresholds, Settings, SectionOf
  <1>2. ASSUME NEW t \in Thresholds PROVE V(t) \in Int
    <2>1. c.settings[t] \in Int
      BY <1>1, <1>2 DEF ConfigRecord
    <2>2. ASSUME p.override # <<>> PROVE p.override[1][t] \in Int
      <3>1. p.override \in OverrideType
        BY DEF ProviderRecord
      <3>2. PICK u \in [Thresholds -> Int] : p.override = <<u>>
        BY <2>2, <3>1 DEF OverrideType
      <3>3. p.override[1] = u
        BY <3>2
      <3> QED BY <3>3
    <2> QED BY <2>1, <2>2
  <1>3. BreakerConfigFor(c, p) = [FailureThreshold |-> V("failure_threshold"),
                                  OpenTimeout |-> V("open_timeout_s"),
                                  HalfOpenSuccessThreshold |-> V("half_open_success_threshold")]
    BY DEF BreakerConfigFor
  <1>4. /\ V("failure_threshold") \in Int /\ V("open_timeout_s") \in Int
        /\ V("half_open_success_threshold") \in Int
    BY <1>2 DEF Thresholds
  <1> HIDE DEF V
  <1> QED BY <1>3, <1>4 DEF ConfigType

\* What a Config that agrees with its file and passes Validate is after the sort: its
\* providers are those of the file, in the order of their priorities.
LEMMA SortedConfig ==
    ASSUME NEW c, NEW m, Agree(c, m), NEW answer, Valid(c, answer)
    PROVE  LET d == Sorted(c)
               qs == d.providers
           IN  /\ d.settings = c.settings /\ qs # <<>> /\ Len(qs) = Len(m.providers)
               /\ DOMAIN qs = 1 .. Len(qs)
               /\ \A n \in 1 .. Len(qs) : \E i \in 1 .. Len(m.providers) :
                     /\ qs[n] = c.providers[i] /\ Place(c.providers, i) = n
                     /\ qs[n].name = m.providers[i].name /\ qs[n].base_url = m.providers[i].base_url
                     /\ Loses(qs[n], m.providers[i])
               /\ \A n, k \in 1 .. Len(qs) : n < k =>
                     qs[n].priority < qs[k].priority /\ qs[n].name # qs[k].name
  <1> DEFINE ps == c.providers
             d == Sorted(c)
             qs == d.providers
  <1>1. /\ c \in ConfigRecord /\ ps \in Seq(ProviderRecord) /\ Len(ps) = Len(m.providers)
        /\ \A i \in 1 .. Len(ps) : Loses(ps[i], m.providers[i])
    BY DEF Agree, ConfigRecord
  <1>2. /\ ps # <<>>
        /\ \A i \in DOMAIN ps : ps[i].name # NoText
        /\ Distinct([i \in DOMAIN ps |-> ps[i].name])
        /\ Distinct([i \in DOMAIN ps |-> ps[i].priority])
    BY DEF Valid
  <1>3. \A i \in DOMAIN ps : ps[i].base_url # NoText
    BY ValidURLNotEmpty DEF Valid
  <1>4. /\ SortedList(ps) \in Seq(ProviderRecord) /\ Len(SortedList(ps)) = Len(ps)
        /\ \A n \in 1 .. Len(ps) : \E i \in 1 .. Len(ps) :
              Place(ps, i) = n /\ SortedList(ps)[n] = ps[i]
    BY <1>1, <1>2, SortedFacts
  <1>5. d.settings = c.settings /\ qs = SortedList(ps)
    BY <1>1, <1>4, OtherProviders DEF Sorted
  <1>6. DOMAIN ps = 1 .. Len(ps) /\ Len(ps) \in Nat
    BY <1>1
  <1>7. Len(qs) = Len(ps) /\ qs # <<>> /\ DOMAIN qs = 1 .. Len(qs)
    BY <1>1, <1>2, <1>4, <1>5, <1>6
  <1> HIDE DEF d, qs
  <1>8. ASSUME NEW n \in 1 .. Len(qs)
        PROVE  \E i \in 1 .. Len(m.providers) :
                  /\ qs[n] = ps[i] /\ Place(ps, i) = n
                  /\ qs[n].name = m.providers[i].name /\ qs[n].base_url = m.providers[i].base_url
                  /\ Loses(qs[n], m.providers[i])
    <2>1. PICK i \in 1 .. Len(ps) : Place(ps, i) = n /\ qs[n] = ps[i]
      BY <1>4, <1>5, <1>7
    <2>2. Loses(qs[n], m.providers[i]) /\ qs[n].name # NoText /\ qs[n].base_url # NoText
      BY <1>1, <1>2, <1>3, <1>6, <2>1
    <2>3. qs[n].name = m.providers[i].name /\ qs[n].base_url = m.providers[i].base_url
      BY <2>2 DEF Loses
    <2> QED BY <1>1, <2>1, <2>2, <2>3
  <1>9. ASSUME NEW n \in 1 .. Len(qs), NEW k \in 1 .. Len(qs), n < k
        PROVE  qs[n].priority < qs[k].priority /\ qs[n].name # qs[k].name
    <2>1. PICK i \in DOMAIN ps : Place(ps, i) = n /\ qs[n] = ps[i]
      BY <1>4, <1>5, <1>6, <1>7
    <2>2. PICK j \in DOMAIN ps : Place(ps, j) = k /\ qs[k] = ps[j]
      BY <1>4, <1>5, <1>6, <1>7
    <2>3. i # j
      BY <1>7, <1>9, <2>1, <2>2
    <2>4. ps[i].priority # ps[j].priority /\ ps[i].name # ps[j].name
      BY <1>2, <2>3 DEF Distinct
    <2>5. ps[i].priority \in Int /\ ps[j].priority \in Int
      BY <1>1, PlaceOrder
    <2>6. ~(ps[j].priority < ps[i].priority)
      <3>1. ps[j].priority < ps[i].priority => k < n
        BY <1>1, <2>1, <2>2, PlaceOrder
      <3> QED BY <1>7, <1>9, <3>1
    <2>7. ps[i].priority < ps[j].priority
      BY <2>4, <2>5, <2>6
    <2> QED BY <2>1, <2>2, <2>4, <2>7
  <1> QED BY <1>1, <1>5, <1>7, <1>8, <1>9 DEF d, qs

\* Where Load is, how many lines it has read, and its settings.
LoadTypes == /\ status \in {"reading", "loaded", "failed", "panicked", "done"}
             /\ lines \in 0 .. MaxLines
             /\ cfg.settings \in [Settings -> Int]

\* A URL of a real provider that holds an address holds a public one.
HostChecked(type, host) == type # "mock" /\ IsAddress(host) => host = "public"
LoadedHosts == Loaded => \A p \in ToSet(cfg.providers) :
                   HostChecked(ProviderType(p), URLOf(p.base_url).host)

\* Validate makes sure of it.
LEMMA ValidHost ==
    ASSUME NEW type, NEW text, NEW answer, ValidProviderURL(type, text, answer)
    PROVE  HostChecked(type, URLOf(text).host)
  <1> SUFFICES ASSUME type # "mock", IsAddress(URLOf(text).host) PROVE URLOf(text).host = "public"
    BY DEF HostChecked
  <1>1. PICK h \in Addresses : h = URLOf(text).host
    BY DEF IsAddress
  <1>2. ~RestrictedUpstreamIP(h)
    BY <1>1 DEF ValidProviderURL
  <1> QED BY <1>1, <1>2, CheckedIsPublic

\* The inductive invariant of startup: the parser's invariant until Load has returned
\* a Config, then what is said of that Config.
LoadInv ==
    /\ KeysInv /\ ReaderInv /\ LoadTypes
    /\ ~Loaded => FileInv
    /\ LoadedIsMeant
    /\ LoadedIsUsable
    /\ LoadedHosts

\* The types follow from the other parts.
LEMMA TypesFollow == KeysInv /\ ReaderInv /\ LoadTypes => LoadTypeOK
  <1> SUFFICES ASSUME KeysInv, ReaderInv, LoadTypes PROVE LoadTypeOK
    OBVIOUS
  <1>1. keyStatus \in {"waiting", "reading", "failed", "ready"} /\ DOMAIN store = KeyNames
        /\ keyLines \in 0 .. MaxKeyLines
    BY Zenon DEF KeysInv
  <1>2. reader.section \in {NoText} \cup {l.key : l \in Lines} /\ (reader.inItem => cfg.providers # <<>>)
    BY DEF ReaderInv
  <1> QED BY <1>1, <1>2 DEF LoadTypes, LoadTypeOK

\* No Config was returned, or it was handed on.
StillReading == /\ status \in {"reading", "failed", "done"} \/ (status = "panicked" /\ PanicCause)
                /\ lines \in 0 .. MaxLines

\* As long as no Config was returned, the parser's invariant is enough.
LEMMA NotLoaded == KeysInv /\ ReaderInv /\ FileInv /\ StillReading => LoadInv
  <1> SUFFICES ASSUME KeysInv, ReaderInv, FileInv, StillReading PROVE LoadInv
    OBVIOUS
  <1>1. LoadTypes
    BY DEF StillReading, LoadTypes, FileInv, Agree, ConfigRecord
  <1>2. ~Loaded
    BY DEF StillReading, Loaded
  <1>3. LoadTypeOK
    BY <1>1, TypesFollow
  <1>4. LoadedIsUsable
    BY <1>2, <1>3 DEF LoadedIsUsable, StillReading, PanicCause
  <1> QED BY <1>1, <1>2, <1>4 DEF LoadInv, LoadedIsMeant, LoadedHosts

\* Load returns a Config that passed Validate, sorted.
LEMMA LoadReturns ==
    ASSUME LoadInv, KeysInv', NEW answer, NEW found, Load(answer, found)
    PROVE  LoadInv'
  <1>1. status = "reading" /\ FileInv /\ ReaderInv /\ lines \in 0 .. MaxLines
    BY DEF LoadInv, LoadTypes, Load, Loaded
  <1>2. UNCHANGED <<reader, meant, plain, lines>>
    BY DEF Load
  <1>3. CASE ~(found /\ Valid(cfg, answer))
    <2>1. status' = "failed" /\ cfg' = cfg
      BY <1>3 DEF Load
    <2>2. ReaderInv' /\ FileInv' /\ StillReading'
      BY <1>1, <1>2, <2>1 DEF ReaderInv, FileInv, StillReading
    <2> QED BY <2>2, NotLoaded, PTL
  <1>4. CASE found /\ Valid(cfg, answer)
    <2>1. status' = "loaded" /\ cfg' = Sorted(cfg)
      BY <1>4 DEF Load
    <2> DEFINE qs == cfg'.providers
               ms == meant.providers
    <2>2. /\ cfg'.settings = cfg.settings /\ qs # <<>> /\ Len(qs) = Len(ms)
          /\ DOMAIN qs = 1 .. Len(qs)
          /\ \A n \in 1 .. Len(qs) : \E i \in 1 .. Len(ms) :
                /\ qs[n] = cfg.providers[i]
                /\ qs[n].name = ms[i].name /\ qs[n].base_url = ms[i].base_url
                /\ Loses(qs[n], ms[i])
          /\ \A n, k \in 1 .. Len(qs) : n < k =>
                qs[n].priority < qs[k].priority /\ qs[n].name # qs[k].name
      BY <1>1, <1>4, <2>1, SortedConfig DEF FileInv
    <2>3. /\ cfg \in ConfigRecord /\ cfg.providers \in Seq(ProviderRecord)
          /\ cfg.settings \in [Settings -> Int] /\ cfg.settings = meant.settings
          /\ Len(cfg.providers) = Len(ms)
          /\ DOMAIN ms = 1 .. Len(ms)
          /\ DOMAIN cfg.providers = 1 .. Len(ms)
      BY <1>1 DEF FileInv, Agree, ConfigRecord
    <2>4. ReaderInv'
      BY <1>1, <1>2, <2>2 DEF ReaderInv
    <2>5. LoadTypes' /\ LoadTypeOK'
      <3>1. LoadTypes'
        BY <1>1, <1>2, <2>1, <2>2, <2>3 DEF LoadTypes
      <3> QED BY <2>4, <3>1, TypesFollow, PTL
    <2>6. LoadedIsMeant'
      <3>1. plain' => cfg' = Sorted(meant')
        BY <1>1, <1>2, <2>1 DEF FileInv
      <3>2. ASSUME NEW p \in ToSet(qs)
            PROVE  \E q \in ToSet(ms) :
                      /\ p.name = q.name /\ p.base_url = q.base_url
                      /\ p.type \in {NoText, q.type}
                      /\ p.priority \in {0, q.priority}
                      /\ p.override = q.override
        <4>1. PICK n \in 1 .. Len(qs) : p = qs[n]
          BY <2>2 DEF ToSet
        <4>2. PICK i \in 1 .. Len(ms) : /\ qs[n].name = ms[i].name /\ qs[n].base_url = ms[i].base_url
                                        /\ Loses(qs[n], ms[i])
          BY <2>2
        <4>3. ms[i] \in ToSet(ms)
          BY <2>3 DEF ToSet
        <4> QED BY <4>1, <4>2, <4>3 DEF Loses
      <3> QED BY <1>2, <2>2, <2>3, <3>1, <3>2 DEF LoadedIsMeant
    <2>7. \A p \in ToSet(qs) : BreakerConfigFor(cfg', p) \in ConfigType
      <3> SUFFICES ASSUME NEW p \in ToSet(qs) PROVE BreakerConfigFor(cfg', p) \in ConfigType
        OBVIOUS
      <3>0. PICK n \in 1 .. Len(qs) : p = qs[n]
        BY <2>2 DEF ToSet
      <3>1. PICK i \in 1 .. Len(ms) : p = cfg.providers[i]
        BY <2>2, <3>0
      <3>2. p \in ProviderRecord /\ p \in ToSet(cfg.providers)
        BY <2>3, <3>1 DEF ToSet
      <3>3. BreakerConfigFor(cfg, p) \in ConfigType
        BY <1>4, <2>3, <3>2, BreakerConfigType DEF Valid, ValidBreakers
      <3> QED BY <2>2, <3>3 DEF BreakerConfigFor
    <2>8. /\ cfg'.settings["window_s"] > 0 /\ cfg'.settings["max_tokens"] > 0
          /\ cfg'.settings["interval"] > 0 /\ cfg'.settings["drain_timeout_s"] >= 0
      <3>1. cfg.settings["window_s"] \in Int /\ cfg.settings["max_tokens"] \in Int
        BY <2>3 DEF Settings, SectionOf
      <3>2. /\ cfg.settings["window_s"] >= 1 /\ cfg.settings["max_tokens"] >= 1
            /\ cfg.settings["interval"] > 0 /\ cfg.settings["drain_timeout_s"] >= 0
        BY <1>4 DEF Valid
      <3> QED BY <2>2, <3>1, <3>2
    <2>9. LoadedIsUsable'
      <3>1. status' # "panicked" /\ LoadTypeOK'
        BY <2>1, <2>5
      <3>2. \A i, j \in DOMAIN qs : i < j =>
               qs[i].priority < qs[j].priority /\ qs[i].name # qs[j].name
        BY <2>2
      <3> HIDE DEF qs
      <3>3. /\ \A p \in ToSet(cfg'.providers) : BreakerConfigFor(cfg', p) \in ConfigType
            /\ \A i, j \in DOMAIN cfg'.providers : i < j =>
                  cfg'.providers[i].priority < cfg'.providers[j].priority /\ cfg'.providers[i].name # cfg'.providers[j].name
        BY <2>7, <3>2, Zenon DEF qs
      <3> QED BY <2>8, <3>1, <3>3, ZenonT(60) DEF LoadedIsUsable
    <2>10. \A p \in ToSet(qs) : HostChecked(ProviderType(p), URLOf(p.base_url).host)
      <3> SUFFICES ASSUME NEW p \in ToSet(qs)
                   PROVE  HostChecked(ProviderType(p), URLOf(p.base_url).host)
        OBVIOUS
      <3>1. PICK n \in 1 .. Len(qs) : p = qs[n]
        BY <2>2 DEF ToSet
      <3>2. PICK i \in 1 .. Len(ms) : p = cfg.providers[i]
        BY <2>2, <3>1
      <3>3. ValidProviderURL(ProviderType(p), p.base_url, answer[i])
        BY <1>4, <2>3, <3>2 DEF Valid
      <3> QED BY <3>3, ValidHost
    <2>11. LoadedHosts'
      BY <2>10 DEF LoadedHosts
    <2> QED BY <2>1, <2>4, <2>5, <2>6, <2>9, <2>11 DEF LoadInv, Loaded
  <1> QED BY <1>3, <1>4

\* A step that leaves the configuration alone.
LEMMA LoadUnchanged ==
    ASSUME LoadInv, KeysInv', UNCHANGED configVars
    PROVE  LoadInv'
  <1>1. UNCHANGED <<status, reader, cfg, meant, plain, lines>>
    BY DEF configVars
  <1>2. ReaderInv' /\ LoadTypes' /\ (~Loaded' => FileInv') /\ LoadedIsMeant'
    BY <1>1 DEF LoadInv, LoadTypes, ReaderInv, FileInv, LoadedIsMeant, Loaded
  <1>3. LoadTypeOK'
    BY <1>2, TypesFollow, PTL
  <1>4. LoadedIsUsable'
    BY <1>1, <1>3 DEF LoadInv, LoadedIsUsable, Loaded
  <1>5. LoadedHosts'
    BY <1>1 DEF LoadInv, LoadedHosts, Loaded
  <1> QED BY <1>2, <1>4, <1>5 DEF LoadInv

\* Every step of startup preserves the invariant.
LEMMA LoadNextInv == LoadInv /\ [StartupNext]_startupVars => LoadInv'
  <1> SUFFICES ASSUME LoadInv, [StartupNext]_startupVars PROVE LoadInv'
    OBVIOUS
  <1>1. KeysInv'
    BY KeysNextInv DEF LoadInv
  <1>2. ASSUME NEW l \in Lines, ReadLine(l) PROVE LoadInv'
    <2>1. ReaderInv /\ FileInv /\ lines \in 0 .. MaxLines
      BY <1>2 DEF LoadInv, LoadTypes, ReadLine, Loaded
    <2>2. /\ ReaderInv' /\ FileInv'
          /\ status' \in {"reading", "failed"} \/ (status' = "panicked" /\ PanicCause')
      BY <1>2, <2>1, LineInv
    <2>3. lines' \in 0 .. MaxLines
      <3>1. MaxLines \in Nat /\ lines < MaxLines /\ lines' = lines + 1
        BY <1>2, ConfigAssumption DEF ReadLine
      <3> QED BY <2>1, <3>1
    <2>4. StillReading'
      BY <2>2, <2>3 DEF StillReading
    <2> QED BY <1>1, <2>2, <2>4, NotLoaded, PTL
  <1>3. ASSUME NEW answer, NEW found, Load(answer, found) PROVE LoadInv'
    BY <1>1, <1>3, LoadReturns
  <1>4. CASE ConfigDone
    <2>1. StillReading'
      BY <1>4, ConfigAssumption DEF ConfigDone, StillReading
    <2> QED BY <1>1, <1>4, <2>1, ConfigDoneInv, NotLoaded, PTL
  <1>5. CASE UNCHANGED configVars
    BY <1>1, <1>5, LoadUnchanged
  <1> QED BY <1>2, <1>3, <1>4, <1>5 DEF StartupNext, LoadConfig, StartKeys, LoadKeys, Serve, Dial, FetchDial,
                                        Stopped, startupVars

\* It holds in every state of the process.
LEMMA LoadAlways == StartupSpec => []LoadInv
  <1>1. StartupInit => LoadInv
    <2> SUFFICES ASSUME StartupInit PROVE LoadInv
      OBVIOUS
    <2>1. StillReading
      BY ConfigAssumption DEF StartupInit, ConfigInit, StillReading
    <2> QED BY <2>1, KeysInitInv, ConfigInitInv, NotLoaded DEF StartupInit
  <1> QED BY <1>1, LoadNextInv, PTL DEF StartupSpec

\* A Config that loads is what its file says, exactly for a plain file and up to
\* fields left at their defaults for any other, although the parser does not know
\* indentation.
THEOREM ConfigIsMeant == StartupSpec => []LoadedIsMeant
  <1>1. LoadInv => LoadedIsMeant
    BY DEF LoadInv
  <1> QED BY <1>1, LoadAlways, PTL

\* A Config that loads satisfies what the other components assume of it, and a file on
\* which Load panics has a threshold for a provider without an override block below a
\* provider with one.
THEOREM ConfigIsUsable == StartupSpec => []LoadedIsUsable
  <1>1. LoadInv => LoadedIsUsable
    BY DEF LoadInv
  <1> QED BY <1>1, LoadAlways, PTL

-----------------------------------------------------------------------------
\* The connections.

\* What the server and the job keep of a Config that loaded.
HostsInv == \A p \in server.upstreams : HostChecked(p.type, p.host)

\* A connection of the server, and one of the job to an address.
LEMMA DialKeeps ==
    ASSUME HostsInv, DialsAreChecked, NEW p \in server.upstreams, NEW answer \in Answers,
           Dial(p, answer) \/ FetchDial(p, answer)
    PROVE  DialsAreChecked'
  <1>1. CASE Dial(p, answer)
    <2>1. PICK a : a = ValidatedDialAddress(p.host, answer)
      OBVIOUS
    <2>2. dialed'.type = p.type /\ dialed'.address = a
      BY <1>1, <2>1 DEF Dial, Dialed
    <2>3. p.type # "mock" => ~DialRefused(p.host, answer, FALSE)
      BY <1>1 DEF Dial, DialRefused
    <2>4. p.type # "mock" => a = "public"
      BY <2>1, <2>3, DialedIsChecked
    <2> QED BY <2>2, <2>4 DEF DialsAreChecked
  <1>2. CASE FetchDial(p, answer)
    <2>1. PICK a : /\ a \in IF IsAddress(p.host) THEN {p.host} ELSE ToSet(answer)
                   /\ dialed' = Dialed("job", p, Unmap(a))
      BY <1>2 DEF FetchDial
    <2>2. /\ dialed'.by = "job" /\ dialed'.type = p.type /\ dialed'.host = p.host
          /\ dialed'.address = Unmap(a)
      BY <2>1 DEF Dialed
    <2>3. IsAddress(p.host) => a = p.host
      BY <2>1
    <2>4. p.type # "mock" /\ IsAddress(p.host) => p.host = "public"
      BY DEF HostsInv, HostChecked
    <2>5. Unmap("public") = "public"
      BY DEF Unmap
    <2>6. p.type # "mock" /\ IsAddress(p.host) => Unmap(a) = "public"
      BY <2>3, <2>4, <2>5
    <2> QED BY <2>2, <2>6 DEF DialsAreChecked
  <1> QED BY <1>1, <1>2

\* A server that runs connects to a real provider only at an address that passed the
\* check, although the resolver may answer every lookup differently; of the
\* reconciliation job the same holds for the URLs that hold an address.
THEOREM DialsGoToPublicAddresses == StartupSpec => []DialsAreChecked
  <1>1. StartupInit => DialsAreChecked /\ HostsInv
    <2>1. "nobody" # "server" /\ ~IsAddress(NoText)
      BY Zenon DEF IsAddress, Addresses, NoText
    <2>2. StartupInit => dialed.by = "nobody" /\ dialed.host = NoText
      BY DEF StartupInit, NoDial
    <2>3. StartupInit => server.upstreams = {}
      BY DEF StartupInit, NoServer
    <2>4. StartupInit => DialsAreChecked
      BY <2>1, <2>2, Zenon DEF DialsAreChecked
    <2> QED BY <2>3, <2>4 DEF HostsInv
  <1>2. LoadInv /\ (DialsAreChecked /\ HostsInv) /\ [StartupNext]_startupVars => (DialsAreChecked /\ HostsInv)'
    <2> SUFFICES ASSUME LoadInv, DialsAreChecked, HostsInv, [StartupNext]_startupVars
                 PROVE  DialsAreChecked' /\ HostsInv'
      OBVIOUS
    <2>1. CASE Serve
      <3>1. HostsInv'
        BY <2>1 DEF Serve, Dial, FetchDial, HostsInv
      <3> QED BY <2>1, <3>1, DialKeeps DEF Serve
    <2>2. CASE StartKeys
      <3>1. Loaded /\ server' = Kept(cfg) /\ dialed' = dialed
        BY <2>2 DEF StartKeys, Loaded
      <3>2. \A p \in ToSet(cfg.providers) : HostChecked(ProviderType(p), URLOf(p.base_url).host)
        BY <3>1 DEF LoadInv, LoadedHosts
      <3>3. ASSUME NEW u \in server'.upstreams PROVE HostChecked(u.type, u.host)
        <4>1. PICK p \in ToSet(cfg.providers) :
                 u = [type |-> ProviderType(p), host |-> URLOf(p.base_url).host]
          BY <3>1, <3>3 DEF Kept
        <4>2. u.type = ProviderType(p) /\ u.host = URLOf(p.base_url).host
          BY <4>1
        <4> QED BY <3>2, <4>2
      <3> QED BY <3>1, <3>3 DEF HostsInv, DialsAreChecked
    <2>3. CASE UNCHANGED <<server, dialed>>
      BY <2>3 DEF HostsInv, DialsAreChecked
    <2> QED BY <2>1, <2>2, <2>3 DEF StartupNext, LoadConfig, LoadKeys, Stopped, startupVars
  <1> QED BY <1>1, <1>2, LoadAlways, PTL DEF StartupSpec

-----------------------------------------------------------------------------
\* Graceful shutdown.

\* BeginShutdown has not started the timer yet.
BeforeTimer == main \in {"serving", "arming"}

\* The timer starts once, so due is the list of its only run.
TimerInv == /\ BeforeTimer => timer = "off" /\ ~expired
            /\ timer = "fired" \/ (doomed = {} /\ due = {})

\* A session on the list had registered, and no session registers twice; while
\* it runs, it is still to be cancelled or is cancelled.
ListInv == \A r \in due :
    /\ pc[r] \in {"running", "releasing", "ended"}
    /\ pc[r] = "running" => r \in doomed \/ ctx[r] # "live"

\* When no timer is ahead, whoever is registered was on the list or came late.
LateInv == ~BeforeTimer /\ timer \in {"off", "fired"} => active \subseteq late \cup due

\* Connections are broken after the timer is over.
CloseInv == /\ expired => timer # "armed"
            /\ main = "closing" => expired
            /\ \A r \in Requests : ctx[r] = "closed" => ~BeforeTimer /\ timer # "armed"

\* The inductive invariant behind the theorems of this module.
IndInv == TypeOK /\ TimerInv /\ ListInv /\ LateInv /\ CloseInv

-----------------------------------------------------------------------------
\* A server that has just started satisfies it.
LEMMA InitInv == Init => IndInv
  BY DEF Init, IndInv, TypeOK, TimerInv, ListInv, LateInv, CloseInv, BeforeTimer

\* Every step of the main goroutine, the timers and the handlers preserves it.
LEMMA NextInv == IndInv /\ [Next]_vars => IndInv'
  <1> SUFFICES ASSUME IndInv, [Next]_vars PROVE IndInv'
    OBVIOUS
  <1> USE DEF IndInv, TypeOK, TimerInv, ListInv, LateInv, CloseInv, BeforeTimer,
              process, force, handlers, Alive, Goto
  <1>1. CASE Signal
    BY <1>1 DEF Signal
  <1>2. CASE Arm
    BY <1>2 DEF Arm
  <1>3. CASE ShutdownReturns
    BY <1>3 DEF ShutdownReturns
  <1>4. CASE Close
    BY <1>4 DEF Close, MustClose
  <1>5. CASE Exit
    BY <1>5 DEF Exit
  <1>6. CASE TimerFires
    BY <1>6 DEF TimerFires
  <1>7. CASE ContextExpires
    BY <1>7 DEF ContextExpires
  <1>8. CASE ForceCloseActive
    BY <1>8 DEF ForceCloseActive, Collected
  <1>9. ASSUME NEW r \in Requests, ForceCancel(r) PROVE IndInv'
    BY <1>9 DEF ForceCancel
  <1>10. ASSUME NEW r \in Requests, Arrive(r) PROVE IndInv'
    BY <1>10 DEF Arrive
  <1>11. ASSUME NEW r \in Requests, Register(r) PROVE IndInv'
    BY <1>11 DEF Register
  <1>12. ASSUME NEW r \in Requests, Finish(r) PROVE IndInv'
    BY <1>12 DEF Finish
  <1>13. ASSUME NEW r \in Requests, Cut(r) PROVE IndInv'
    BY <1>13 DEF Cut
  <1>14. ASSUME NEW r \in Requests, Release(r) PROVE IndInv'
    BY <1>14 DEF Release, Remaining, TimerAfter
  <1>15. CASE UNCHANGED vars
    BY <1>15 DEF vars
  <1> QED BY <1>1, <1>2, <1>3, <1>4, <1>5, <1>6, <1>7, <1>8, <1>9, <1>10, <1>11, <1>12, <1>13,
             <1>14, <1>15 DEF Next, Main, Timers, Handler, Exited

\* forceCloseActive cancels every session that was active when it took its list
\* and still runs, although it works without the lock.
THEOREM ForceIsComplete == Spec => []ForceReachesAll
  <1>1. Spec => []IndInv BY InitInv, NextInv, PTL DEF Spec
  <1>2. IndInv => ForceReachesAll
    BY DEF IndInv, ListInv, ForceReachesAll
  <1> QED BY <1>1, <1>2, PTL

\* A session that httpSrv.Close cuts came when the timer was stopped or had run,
\* or forceCloseActive has it on its list.
THEOREM CloseSparesOthers == Spec => []CloseOnlyCutsLateSessions
  <1>1. Spec => []IndInv BY InitInv, NextInv, PTL DEF Spec
  <1>2. IndInv => CloseOnlyCutsLateSessions
    BY DEF IndInv, TypeOK, LateInv, CloseInv, CloseOnlyCutsLateSessions
  <1> QED BY <1>1, <1>2, PTL
=============================================================================
