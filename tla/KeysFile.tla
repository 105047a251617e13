------------------------------ MODULE KeysFile ------------------------------
(***************************************************************************)
(* internal/auth: LoadKeysFile reads keys.yaml line by line into the key   *)
(* store.  The fields of an entry are locals that a "key" line flushes; the *)
(* dash that begins an entry is ignored.  The ghost "described" is what    *)
(* YAML takes the file to say: a dash begins an entry.  Keys are stored    *)
(* under their hash, taken to be injective.                                *)
(***************************************************************************)
EXTENDS Integers

CONSTANTS KeyLines,      \* lines an operator may write
          MaxKeyLines,   \* bound on the lines of a file
          KeyNames       \* keys that occur in them

\* A line is its dash, its field, and its value as text and as number; ok is false
\* when the number does not parse.  The text of an allowlist without a name in it is
\* "" (parseList drops blanks).
ASSUME KeysAssumption ==
    /\ KeyLines \subseteq [dash : BOOLEAN,
                           field : {"key", "provider_allowlist", "token_budget", "budget_period"},
                           text : STRING, num : Int, ok : BOOLEAN]
    /\ \A l \in KeyLines : l.field = "key" => l.text \in KeyNames \cup {""}
    /\ KeyNames \subseteq STRING /\ "" \notin KeyNames /\ MaxKeyLines \in Nat

VARIABLES keyStatus,   \* how far LoadKeysFile is
          entry,       \* raw, allowlist, tokenBudget, period
          store,       \* Store.byHash: key -> record, NoRecord: none
          yamlEntry,   \* ghost: the entry by the dashes
          described,   \* ghost: the store the file describes
          keyFirst,    \* ghost: every entry begins with a key that is not empty
          named,       \* ghost: the keys that occurred
          keyLines     \* number of lines read

keysVars == <<keyStatus, entry, store, yamlEntry, described, keyFirst, named, keyLines>>

NoRecord == [allowlist |-> "", budget |-> 0, period |-> 0]
NoEntry == [raw |-> "", allowlist |-> "", budget |-> 0, period |-> 0]

KeysInit == /\ keyStatus = "waiting"
            /\ entry = NoEntry
            /\ store = [k \in KeyNames |-> NoRecord]
            /\ yamlEntry = NoEntry
            /\ described = store
            /\ keyFirst = TRUE
            /\ named = {}
            /\ keyLines = 0

-----------------------------------------------------------------------------
\* Store.Add refuses the entry.
AddFails(e) == e.allowlist = "" \/ e.budget < 0

\* Store.Add; a period that is not positive is the default one.
Stored(st, e, defaultPeriod) ==
    [st EXCEPT ![e.raw] = [allowlist |-> e.allowlist, budget |-> e.budget,
                           period |-> IF e.period <= 0 THEN defaultPeriod ELSE e.period]]

\* Bug: the fields of an entry stay for the next one.
MutFlushed(e) == [e EXCEPT !.raw = ""]

\* flush: the locals after a call.  An entry without a key is not flushed at all.
Flushed(e) == IF e.raw = "" THEN e ELSE NoEntry

FlushFails(e) == e.raw # "" /\ AddFails(e)
FlushedStore(st, e, d) == IF e.raw = "" \/ AddFails(e) THEN st ELSE Stored(st, e, d)

\* The locals after a line that is read without error.
Field(l) == CASE l.field = "provider_allowlist" -> "allowlist"
              [] l.field = "token_budget" -> "budget"
              [] l.field = "budget_period" -> "period"
              [] OTHER -> "raw"
SetLocal(e, l) == [e EXCEPT ![Field(l)] = IF Field(l) \in {"raw", "allowlist"} THEN l.text ELSE l.num]

\* The file is opened; it may have gone since Validate looked for it.
OpenKeysFile(found) ==
    /\ keyStatus = "waiting"
    /\ keyStatus' = IF found THEN "reading" ELSE "failed"
    /\ UNCHANGED <<entry, store, yamlEntry, described, keyFirst, named, keyLines>>

\* The ghosts: a dash ends the entry before it.
Describe(l, d) ==
    /\ yamlEntry' = SetLocal(IF l.dash THEN NoEntry ELSE yamlEntry, l)
    /\ described' = IF l.dash THEN FlushedStore(described, yamlEntry, d) ELSE described
    /\ keyFirst' = (keyFirst /\ (l.dash <=> l.field = "key") /\ yamlEntry'.raw # "")
    /\ named' = named \cup (IF l.field = "key" /\ l.text # "" THEN {l.text} ELSE {})

\* One line: a number or duration that does not parse, or an entry Add refuses, is
\* an error.
ReadKeyLine(l, d) ==
    /\ keyStatus = "reading"
    /\ keyLines < MaxKeyLines
    /\ keyLines' = keyLines + 1
    /\ IF l.field = "key"
       THEN /\ entry' = SetLocal(Flushed(entry), l)
            /\ store' = FlushedStore(store, entry, d)
            /\ keyStatus' = IF FlushFails(entry) THEN "failed" ELSE keyStatus
       ELSE /\ entry' = IF l.ok THEN SetLocal(entry, l) ELSE entry
            /\ keyStatus' = IF l.ok THEN keyStatus ELSE "failed"
            /\ UNCHANGED store
    /\ Describe(l, d)

\* The end of the file flushes the last entry.
KeysEnd(d) ==
    /\ keyStatus = "reading"
    /\ store' = FlushedStore(store, entry, d)
    /\ keyStatus' = IF FlushFails(entry) THEN "failed" ELSE "ready"
    /\ described' = FlushedStore(described, yamlEntry, d)
    /\ UNCHANGED <<entry, yamlEntry, keyFirst, named, keyLines>>

-----------------------------------------------------------------------------
\* When every entry begins with its key, a file that loads gives each key the
\* record its own entry describes: nothing of one entry reaches another, whatever
\* order, repetition or omission of fields.  (A field written before the "key" of
\* its entry goes to the entry before it, and the fields of an entry with an empty
\* key go to the next.)  For any file: what loads has a usable record for every key
\* it names, and for no other, the last entry included.
KeysLoadedAreMeant == keyStatus = "ready" =>
    /\ keyFirst => store = described
    /\ named = {k \in KeyNames : store[k].allowlist # "" /\ store[k].budget >= 0}
=============================================================================
