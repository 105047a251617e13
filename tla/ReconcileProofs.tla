--------------------------- MODULE ReconcileProofs ---------------------------
(***************************************************************************)
(* For every set of keys, providers and periods: the job's writes lose no  *)
(* token a handler records meanwhile, the drift flag is the verdict of a   *)
(* complete pass or of the one answer a broken pass got last, and a run    *)
(* that ends well has covered every account.                               *)
(* The chaos harness, which compares the same ledger with its mocks: for   *)
(* any number of streams and cut attempts every difference it can report   *)
(* has a cause outside the gateway, and its percentiles are nearest ranks. *)
(***************************************************************************)
EXTENDS Reconcile, Chaos, SumTheorems

EntryType == [tokensBilled : Nat, truncatedRequests : Nat, lastReconciledAt : Nat,
              driftFlag : BOOLEAN, providerTokens : [Providers -> Nat]]
Answers == SUBSET (Providers \X Reports)
Locals == [Providers -> Nat]
JobType == [pc : {"idle", "run", "entry", "gone"}, todo : SUBSET Accounts, left : SUBSET Configured,
            flag : BOOLEAN, cur : Accounts \cup {<<>>}, snap : [Accounts -> EntryType] \cup {<<>>},
            answers : Answers]

AuditType == [at : Nat, whole : BOOLEAN, answers : Answers, local : Locals \cup {<<>>}]

\* The full types.
TypeInv ==
    /\ period \in 1 .. LastPeriod
    /\ entries \in [Accounts -> EntryType]
    /\ streak \in [Providers -> Nat]
    /\ job \in JobType
    /\ stopped \in BOOLEAN
    /\ tick \in Nat /\ tick <= MaxRuns
    /\ recorded \in [Keys -> [requests : Nat, tokens : Nat, truncated : Nat]]
    /\ audit \in [Accounts -> AuditType]

-----------------------------------------------------------------------------
\* The comparison of Apply is a Boolean.
LEMMA AboveIsBoolean == ASSUME NEW l, NEW n PROVE Above(l, n) \in BOOLEAN
  BY Zenon DEF Above

\* What RecordTerminal does to an entry.
LEMMA RecordKeeps ==
    ASSUME NEW e \in EntryType, NEW p, NEW n \in Nat, NEW t \in BOOLEAN
    PROVE  LET x == RecordTerminal(e, p, n, t)
           IN  /\ x \in EntryType
               /\ x.lastReconciledAt = e.lastReconciledAt /\ x.driftFlag = e.driftFlag
               /\ x.tokensBilled = e.tokensBilled + n
               /\ x.truncatedRequests = e.truncatedRequests + IF t THEN 1 ELSE 0
               /\ x.providerTokens = [q \in Providers |-> e.providerTokens[q] + IF q = p THEN n ELSE 0]
  <1> DEFINE m == IF n < 0 THEN 0 ELSE n
             b == e.tokensBilled + m
             tr == IF t THEN e.truncatedRequests + 1 ELSE e.truncatedRequests
             pt == [q \in DOMAIN e.providerTokens |-> IF q = p THEN e.providerTokens[q] + m
                                                               ELSE e.providerTokens[q]]
             x == [e EXCEPT !.tokensBilled = b, !.truncatedRequests = tr, !.providerTokens = pt]
  <1>0. RecordTerminal(e, p, n, t) = x
    BY Zenon DEF RecordTerminal
  <1>1. m = n
    OBVIOUS
  <1>2. /\ pt \in [Providers -> Nat]
        /\ pt = [q \in Providers |-> e.providerTokens[q] + IF q = p THEN n ELSE 0]
    BY <1>1 DEF EntryType
  <1>3. tr \in Nat /\ tr = e.truncatedRequests + IF t THEN 1 ELSE 0
    BY DEF EntryType
  <1>4. b \in Nat /\ b = e.tokensBilled + n
    BY <1>1 DEF EntryType
  <1> HIDE DEF pt, tr, b
  <1>5. x \in EntryType
    BY <1>2, <1>3, <1>4 DEF EntryType
  <1>6. /\ x.lastReconciledAt = e.lastReconciledAt /\ x.driftFlag = e.driftFlag
        /\ x.tokensBilled = b /\ x.truncatedRequests = tr /\ x.providerTokens = pt
    BY DEF EntryType
  <1> QED BY <1>0, <1>2, <1>3, <1>4, <1>5, <1>6

\* What UpsertReconciliation does to an entry.
LEMMA UpsertKeeps ==
    ASSUME NEW e \in EntryType, NEW at \in Nat, NEW flag \in BOOLEAN
    PROVE  LET x == UpsertReconciliation(e, at, flag)
           IN  /\ x \in EntryType
               /\ x.lastReconciledAt = at /\ x.driftFlag = flag
               /\ x.tokensBilled = e.tokensBilled /\ x.truncatedRequests = e.truncatedRequests
               /\ x.providerTokens = e.providerTokens
  BY DEF UpsertReconciliation, EntryType

\* The idle job.
LEMMA IdleType ==
    /\ Idle \in JobType
    /\ Idle.pc = "idle" /\ Idle.snap = <<>> /\ Idle.todo = {}
  BY DEF Idle, JobType, Answers

\* The ledger is empty and the job idle.
LEMMA InitTypes == Init => TypeInv
  <1> SUFFICES ASSUME Init PROVE TypeInv
    OBVIOUS
  <1>1. NewEntry(Providers) \in EntryType
    BY DEF NewEntry, EntryType
  <1>2. {} \in Answers /\ <<>> \in Locals \cup {<<>>}
    BY DEF Answers
  <1>3. audit \in [Accounts -> AuditType]
    <2>1. [at |-> 0, whole |-> FALSE, answers |-> {}, local |-> <<>>] \in AuditType
      BY <1>2 DEF AuditType
    <2> QED BY <2>1 DEF Init
  <1>4. /\ entries \in [Accounts -> EntryType]
        /\ recorded \in [Keys -> [requests : Nat, tokens : Nat, truncated : Nat]]
    BY <1>1 DEF Init
  <1>5. stopped \in BOOLEAN
    BY DEF Init
  <1> QED BY <1>3, <1>4, <1>5, IdleType, ReconcileAssumption DEF Init, TypeInv

\* The lemmas below follow Next; these are the kinds of steps that matter to them.
LEMMA Steps ==
    ASSUME TypeInv, [Next]_vars
    PROVE  \/ \E k \in Keys, p \in Providers \cup {None}, n \in Nat, t \in BOOLEAN : Record(k, p, n, t)
           \/ Start
           \/ \E a \in Accounts : PickEntry(a)
           \/ \E p \in Providers, n \in Reports : Apply(p, n)
           \/ FetchFails \/ EntryDone \/ RunDone
           \/ UNCHANGED <<entries, job, tick, recorded, audit>>
           \/ Leave
  <1>1. Counts \cup {0} \subseteq Nat
    BY ReconcileAssumption
  <1>2. Handler => \E k \in Keys, p \in Providers \cup {None}, n \in Nat, t \in BOOLEAN : Record(k, p, n, t)
    BY <1>1 DEF Handler
  <1> QED BY <1>2, Zenon DEF Next, Working, vars, Roll, Stop, Gone

\* What the steps of the job do to its locals.
LEMMA JobSteps ==
    ASSUME TypeInv
    PROVE  /\ Start => /\ job'.pc = "run" /\ job'.snap = entries /\ job'.todo = Open(entries)
                       /\ job' \in JobType
           /\ \A a \in Accounts : PickEntry(a) =>
                 /\ job'.pc = "entry" /\ job'.cur = a /\ job'.snap = job.snap
                 /\ job'.todo = job.todo \ {a} /\ job'.flag = FALSE /\ job'.answers = {}
                 /\ job'.left = Asked(job.snap, a) /\ job' \in JobType
           /\ EntryDone => /\ job'.pc = "run" /\ job'.snap = job.snap /\ job'.todo = job.todo
                           /\ job' \in JobType
           /\ RunDone => job'.pc = "idle" /\ job'.snap = job.snap /\ job'.todo = {} /\ job' \in JobType
           /\ Leave => job'.pc = "gone" /\ job'.snap = job.snap /\ job'.todo = job.todo /\ job' \in JobType
           /\ FetchFails => job' = Idle /\ job' \in JobType
  <1>0. job \in JobType /\ Idle \in JobType /\ {} \in Answers
    BY IdleType DEF TypeInv, Answers
  <1>1. Open(entries) \in SUBSET Accounts /\ \A a : Asked(job.snap, a) \in SUBSET Configured
    BY DEF Open, Asked
  <1>2. Start => /\ job'.pc = "run" /\ job'.snap = entries /\ job'.todo = Open(entries)
                 /\ job' \in JobType
    BY <1>0, <1>1 DEF Start, Entries, JobType, TypeInv
  <1>3. ASSUME NEW a \in Accounts, PickEntry(a)
        PROVE  /\ job'.pc = "entry" /\ job'.cur = a /\ job'.snap = job.snap
               /\ job'.todo = job.todo \ {a} /\ job'.flag = FALSE /\ job'.answers = {}
               /\ job'.left = Asked(job.snap, a) /\ job' \in JobType
    <2>1. Asked(job.snap, a) \in SUBSET Configured /\ FALSE \in BOOLEAN
      BY <1>1
    <2> QED BY <1>0, <1>3, <2>1 DEF PickEntry, JobType
  <1>4. EntryDone => /\ job'.pc = "run" /\ job'.snap = job.snap /\ job'.todo = job.todo
                     /\ job' \in JobType
    BY <1>0 DEF EntryDone, JobType
  <1>5. RunDone => job'.pc = "idle" /\ job'.snap = job.snap /\ job'.todo = {} /\ job' \in JobType
    BY <1>0, IdleType DEF RunDone, JobType
  <1>6. Leave => job'.pc = "gone" /\ job'.snap = job.snap /\ job'.todo = job.todo /\ job' \in JobType
    BY <1>0 DEF Leave, JobType
  <1>7. FetchFails => job' = Idle /\ job' \in JobType
    BY <1>0 DEF FetchFails, AfterError
  <1> QED BY <1>2, <1>3, <1>4, <1>5, <1>6, <1>7

\* Whether some answer is off by more than the threshold.
Drifts(local, answers) == \E x \in answers : Above(local[x[1]], x[2])

\* The verdict over a set of answers is a truth value.
LEMMA DriftsIsBoolean == ASSUME NEW l, NEW s PROVE Drifts(l, s) \in BOOLEAN
  BY Zenon DEF Drifts

\* Applying one more answer makes an entry suspect if it was or if this answer is.
LEMMA DriftsGrow ==
    ASSUME NEW l, NEW s, NEW p, NEW n
    PROVE  Drifts(l, s \cup {<<p, n>>}) <=> Drifts(l, s) \/ Above(l[p], n)
  <1>1. <<p, n>>[1] = p /\ <<p, n>>[2] = n
    OBVIOUS
  <1>2. ASSUME Drifts(l, s \cup {<<p, n>>}) PROVE Drifts(l, s) \/ Above(l[p], n)
    <2>1. PICK x \in s \cup {<<p, n>>} : Above(l[x[1]], x[2])
      BY <1>2, Zenon DEF Drifts
    <2>2. CASE x \in s
      BY <2>1, <2>2, Zenon DEF Drifts
    <2>3. CASE x = <<p, n>>
      BY <1>1, <2>1, <2>3, Zenon
    <2> QED BY <2>2, <2>3
  <1>3. Drifts(l, s) => Drifts(l, s \cup {<<p, n>>})
    BY Zenon DEF Drifts
  <1>4. Above(l[p], n) => Drifts(l, s \cup {<<p, n>>})
    BY <1>1, Zenon DEF Drifts
  <1> QED BY <1>2, <1>3, <1>4

\* A write of the job: the verdict of one account, and nothing else.
LEMMA Writes ==
    ASSUME TypeInv, NEW c \in Accounts, NEW flag \in BOOLEAN,
           entries' = [entries EXCEPT ![c] = WriteBack(c, flag)]
    PROVE  /\ entries' \in [Accounts -> EntryType]
           /\ entries'[c].lastReconciledAt = tick /\ entries'[c].driftFlag = flag
           /\ \A a \in Accounts : a # c => entries'[a] = entries[a]
           /\ \A a \in Accounts : /\ entries'[a].tokensBilled = entries[a].tokensBilled
                                  /\ entries'[a].truncatedRequests = entries[a].truncatedRequests
                                  /\ entries'[a].providerTokens = entries[a].providerTokens
  <1>1. entries \in [Accounts -> EntryType] /\ entries[c] \in EntryType /\ tick \in Nat
    BY DEF TypeInv
  <1>2. PICK x : x = UpsertReconciliation(entries[c], tick, flag)
    OBVIOUS
  <1>3. /\ x \in EntryType /\ x.lastReconciledAt = tick /\ x.driftFlag = flag
        /\ x.tokensBilled = entries[c].tokensBilled
        /\ x.truncatedRequests = entries[c].truncatedRequests
        /\ x.providerTokens = entries[c].providerTokens
    BY <1>1, <1>2, UpsertKeeps
  <1>4. entries' = [entries EXCEPT ![c] = x]
    BY <1>2 DEF WriteBack
  <1>5. entries' \in [Accounts -> EntryType] /\ entries'[c] = x /\ \A a \in Accounts : a # c => entries'[a] = entries[a]
    BY <1>1, <1>3, <1>4
  <1> QED BY <1>3, <1>5

\* What Apply and EntryDone write.
LEMMA JobWrites ==
    ASSUME TypeInv, job.pc = "entry" => job.cur \in Accounts
    PROVE  /\ \A p \in Providers, n \in Reports : Apply(p, n) =>
                 LET above == Above(job.snap[job.cur].providerTokens[p], n)
                 IN  /\ above \in BOOLEAN
                     /\ entries' = [entries EXCEPT ![job.cur] = WriteBack(job.cur, above)]
                     /\ job'.pc = "entry" /\ job'.cur = job.cur /\ job'.snap = job.snap
                     /\ job'.todo = job.todo /\ job'.answers = job.answers \cup {<<p, n>>}
                     /\ (job'.flag <=> job.flag \/ above) /\ job'.left = job.left \ {p} /\ job' \in JobType
           /\ EntryDone => /\ entries' = [entries EXCEPT ![job.cur] = WriteBack(job.cur, job.flag)]
                           /\ job.flag \in BOOLEAN /\ job.cur \in Accounts
  <1>0. job \in JobType /\ job.flag \in BOOLEAN /\ job.answers \in Answers
    BY DEF TypeInv, JobType
  <1>1. ASSUME NEW p \in Providers, NEW n \in Reports, Apply(p, n)
        PROVE  LET above == Above(job.snap[job.cur].providerTokens[p], n)
               IN  /\ above \in BOOLEAN
                   /\ entries' = [entries EXCEPT ![job.cur] = WriteBack(job.cur, above)]
                   /\ job'.pc = "entry" /\ job'.cur = job.cur /\ job'.snap = job.snap
                   /\ job'.todo = job.todo /\ job'.answers = job.answers \cup {<<p, n>>}
                   /\ (job'.flag <=> job.flag \/ above) /\ job'.left = job.left \ {p} /\ job' \in JobType
    <2> DEFINE above == Above(job.snap[job.cur].providerTokens[p], n)
               f == job.flag \/ above
               ans == job.answers \cup {<<p, n>>}
               rest == job.left \ {p}
    <2>1. above \in BOOLEAN /\ f \in BOOLEAN
      BY AboveIsBoolean
    <2>2. ans \in Answers
      BY <1>0 DEF Answers
    <2>3. /\ entries' = [entries EXCEPT ![job.cur] = WriteBack(job.cur, above)]
          /\ job' = [job EXCEPT !.left = rest, !.flag = f, !.answers = ans]
          /\ job.pc = "entry"
      BY <1>1, Zenon DEF Apply
    <2>4. rest \in SUBSET Configured
      BY <1>0 DEF JobType
    <2> HIDE DEF f, ans, rest
    <2>5. /\ job'.pc = job.pc /\ job'.cur = job.cur /\ job'.snap = job.snap
          /\ job'.todo = job.todo /\ job'.answers = ans /\ job'.flag = f /\ job'.left = rest /\ job' \in JobType
      BY <1>0, <2>1, <2>2, <2>3, <2>4 DEF JobType
    <2> HIDE DEF above
    <2> QED BY <2>1, <2>3, <2>5, Zenon DEF f, ans, rest, above
  <1>2. EntryDone => /\ entries' = [entries EXCEPT ![job.cur] = WriteBack(job.cur, job.flag)]
                     /\ job.flag \in BOOLEAN /\ job.cur \in Accounts
    BY <1>0, Zenon DEF EntryDone, Verdict
  <1> QED BY <1>1, <1>2

\* What the ghost of the account at hand becomes.
LEMMA Audits ==
    ASSUME TypeInv, job.cur \in Accounts, job.snap \in [Accounts -> EntryType],
           NEW whole \in BOOLEAN, NEW answers \in Answers,
           audit' = [audit EXCEPT ![job.cur] = Basis(whole, answers)]
    PROVE  /\ audit' \in [Accounts -> AuditType]
           /\ audit'[job.cur].at = tick /\ audit'[job.cur].whole = whole
           /\ audit'[job.cur].answers = answers
           /\ audit'[job.cur].local = job.snap[job.cur].providerTokens
           /\ \A a \in Accounts : a # job.cur => audit'[a] = audit[a]
  <1>1. PICK x : x = Basis(whole, answers)
    OBVIOUS
  <1>2. job.snap[job.cur].providerTokens \in Locals /\ tick \in Nat
    BY DEF EntryType, Locals, TypeInv
  <1>3. /\ x \in AuditType /\ x.at = tick /\ x.whole = whole /\ x.answers = answers
        /\ x.local = job.snap[job.cur].providerTokens
    BY <1>1, <1>2 DEF Basis, AuditType
  <1>4. audit' = [audit EXCEPT ![job.cur] = x] /\ audit \in [Accounts -> AuditType]
    BY <1>1 DEF TypeInv
  <1>5. /\ audit' \in [Accounts -> AuditType] /\ audit'[job.cur] = x
        /\ \A a \in Accounts : a # job.cur => audit'[a] = audit[a]
    BY <1>3, <1>4
  <1> QED BY <1>3, <1>5

\* A handler's record: the tokens of one account, and no verdict.
LEMMA Recording ==
    ASSUME TypeInv, NEW k \in Keys, NEW p \in Providers \cup {None}, NEW n \in Nat, NEW t \in BOOLEAN,
           Record(k, p, n, t), NEW b, b = <<k, period>>, NEW x, x = IF t THEN 1 ELSE 0
    PROVE  /\ b \in Accounts
           /\ entries' \in [Accounts -> EntryType]
           /\ \A a \in Accounts : /\ entries'[a].lastReconciledAt = entries[a].lastReconciledAt
                                  /\ entries'[a].driftFlag = entries[a].driftFlag
                                  /\ a # b => entries'[a] = entries[a]
           /\ entries'[b].tokensBilled = entries[b].tokensBilled + n
           /\ entries'[b].truncatedRequests = entries[b].truncatedRequests + x
           /\ entries'[b].providerTokens =
                  [q \in Providers |-> entries[b].providerTokens[q] + IF q = p THEN n ELSE 0]
  <1>1. b \in Accounts
    BY DEF TypeInv, Accounts
  <1>2. entries \in [Accounts -> EntryType] /\ entries[b] \in EntryType
    BY <1>1 DEF TypeInv
  <1>3. PICK y : y = RecordTerminal(entries[b], p, n, t)
    OBVIOUS
  <1>4. entries' = [entries EXCEPT ![b] = y]
    BY <1>3, Zenon DEF Record
  <1>5. /\ y \in EntryType
        /\ y.lastReconciledAt = entries[b].lastReconciledAt /\ y.driftFlag = entries[b].driftFlag
        /\ y.tokensBilled = entries[b].tokensBilled + n
        /\ y.truncatedRequests = entries[b].truncatedRequests + x
        /\ y.providerTokens = [q \in Providers |-> entries[b].providerTokens[q] + IF q = p THEN n ELSE 0]
    BY <1>2, <1>3, RecordKeeps
  <1>6. /\ entries' \in [Accounts -> EntryType] /\ entries'[b] = y
        /\ \A a \in Accounts : a # b => entries'[a] = entries[a]
    BY <1>1, <1>2, <1>4, <1>5
  <1>7. \A a \in Accounts : /\ entries'[a].lastReconciledAt = entries[a].lastReconciledAt
                            /\ entries'[a].driftFlag = entries[a].driftFlag
    BY <1>5, <1>6, Zenon
  <1> QED BY <1>1, <1>5, <1>6, <1>7, Zenon

\* Every step keeps the types, when the account at hand is one of the copy.
LEMMA NextTypes ==
    ASSUME TypeInv, [Next]_vars,
           job.pc = "entry" => job.cur \in Accounts /\ job.snap \in [Accounts -> EntryType]
    PROVE  TypeInv'
  <1>0. /\ period \in 1 .. LastPeriod /\ entries \in [Accounts -> EntryType]
        /\ streak \in [Providers -> Nat] /\ job \in JobType /\ stopped \in BOOLEAN
        /\ tick \in Nat /\ tick <= MaxRuns /\ MaxRuns \in Nat
        /\ recorded \in [Keys -> [requests : Nat, tokens : Nat, truncated : Nat]]
        /\ audit \in [Accounts -> AuditType]
    BY ReconcileAssumption DEF TypeInv
  <1>1. CASE Roll
    <2>1. period' \in 1 .. LastPeriod
      BY <1>0, <1>1, ReconcileAssumption DEF Roll
    <2> QED BY <1>0, <1>1, <2>1, Zenon DEF Roll, TypeInv
  <1>2. ASSUME NEW k \in Keys, NEW p \in Providers \cup {None}, NEW n \in Nat, NEW t \in BOOLEAN,
               Record(k, p, n, t)
        PROVE  TypeInv'
    <2>1. entries' \in [Accounts -> EntryType]
      BY <1>2, Recording
    <2>2. recorded' \in [Keys -> [requests : Nat, tokens : Nat, truncated : Nat]]
      <3> DEFINE x == [requests |-> recorded[k].requests + 1, tokens |-> recorded[k].tokens + n,
                       truncated |-> recorded[k].truncated + IF t THEN 1 ELSE 0]
      <3>1. recorded' = [recorded EXCEPT ![k] = x]
        BY <1>2, Zenon DEF Record
      <3>2. x \in [requests : Nat, tokens : Nat, truncated : Nat]
        BY <1>0
      <3> HIDE DEF x
      <3> QED BY <1>0, <3>1, <3>2
    <2> QED BY <1>0, <1>2, <2>1, <2>2, Zenon DEF Record, TypeInv
  <1>3. CASE Start
    <2>1. tick' \in Nat /\ tick' <= MaxRuns
      BY <1>0, <1>3 DEF Start
    <2>2. job' \in JobType
      BY <1>3, JobSteps
    <2> QED BY <1>0, <1>3, <2>1, <2>2, Zenon DEF Start, TypeInv
  <1>4. ASSUME NEW a \in Accounts, PickEntry(a) PROVE TypeInv'
    <2>1. job' \in JobType
      BY <1>4, JobSteps
    <2> QED BY <1>0, <1>4, <2>1, Zenon DEF PickEntry, TypeInv
  <1>5. ASSUME NEW p \in Providers, NEW n \in Reports, Apply(p, n) PROVE TypeInv'
    <2> DEFINE above == Above(job.snap[job.cur].providerTokens[p], n)
    <2>1. /\ above \in BOOLEAN /\ job' \in JobType
          /\ entries' = [entries EXCEPT ![job.cur] = WriteBack(job.cur, above)]
      BY <1>5, JobWrites
    <2>2. job.cur \in Accounts
      BY SMTT(40), <1>5 DEF Apply
    <2>3. entries' \in [Accounts -> EntryType]
      BY <2>1, <2>2, Writes
    <2>4. streak' \in [Providers -> Nat]
      <3>1. Observe(streak[p], above) \in Nat
        BY <1>0 DEF Observe
      <3>2. streak' = [streak EXCEPT ![p] = Observe(streak[p], above)]
        BY <1>5, Zenon DEF Apply
      <3> QED BY <1>0, <3>1, <3>2
    <2>5. {<<p, n>>} \in Answers /\ FALSE \in BOOLEAN
      BY DEF Answers
    <2>6. job.snap \in [Accounts -> EntryType] /\ audit' = [audit EXCEPT ![job.cur] = Basis(FALSE, {<<p, n>>})]
      BY <1>5, Zenon DEF Apply
    <2>7. audit' \in [Accounts -> AuditType]
      BY <2>2, <2>5, <2>6, Audits
    <2> QED BY <1>0, <1>5, <2>1, <2>3, <2>4, <2>7, Zenon DEF Apply, TypeInv
  <1>6. CASE FetchFails
    <2>1. job' \in JobType
      BY <1>6, JobSteps
    <2> QED BY <1>0, <1>6, <2>1, Zenon DEF FetchFails, TypeInv
  <1>7. CASE EntryDone
    <2>1. /\ job' \in JobType /\ job.cur \in Accounts /\ job.flag \in BOOLEAN
          /\ entries' = [entries EXCEPT ![job.cur] = WriteBack(job.cur, job.flag)]
      BY <1>7, JobSteps, JobWrites
    <2>2. entries' \in [Accounts -> EntryType]
      BY <2>1, Writes
    <2>3. audit' \in [Accounts -> AuditType]
      <3>1. audit' = [audit EXCEPT ![job.cur] = Basis(TRUE, job.answers)] /\ job.snap \in [Accounts -> EntryType]
        BY <1>7, Zenon DEF EntryDone
      <3>2. job.answers \in Answers /\ TRUE \in BOOLEAN
        BY <1>0 DEF JobType
      <3> QED BY <2>1, <3>1, <3>2, Audits
    <2> QED BY <1>0, <1>7, <2>1, <2>2, <2>3, Zenon DEF EntryDone, TypeInv
  <1>8. CASE RunDone
    <2>1. job' \in JobType
      BY <1>8, JobSteps
    <2> QED BY <1>0, <1>8, <2>1, Zenon DEF RunDone, TypeInv
  <1>9. CASE Leave
    <2>1. job' \in JobType
      BY <1>9, JobSteps
    <2> QED BY <1>0, <1>9, <2>1, Zenon DEF Leave, TypeInv
  <1>10. CASE Stop
    BY <1>0, <1>10, Zenon DEF Stop, TypeInv
  <1>11. CASE UNCHANGED vars
    BY <1>0, <1>11, Zenon DEF vars, TypeInv
  <1>12. Handler => \E k \in Keys, p \in Providers \cup {None}, n \in Nat, t \in BOOLEAN : Record(k, p, n, t)
    <2>1. Counts \cup {0} \subseteq Nat
      BY ReconcileAssumption
    <2> QED BY <2>1 DEF Handler
  <1> QED BY <1>1, <1>2, <1>3, <1>4, <1>5, <1>6, <1>7, <1>8, <1>9, <1>10, <1>11, <1>12, Zenon
          DEF Next, Working, Gone

\* The job is at work.
AtWork == job.pc \in {"run", "entry"}

\* While the job is on an account, it has the verdict over the answers so far, and
\* every provider that is to be asked is ahead of it or has answered.
AskedInv ==
    /\ AtWork => job.snap \in [Accounts -> EntryType]
    /\ job.pc = "entry" =>
          /\ job.cur \in Accounts /\ job.cur \notin job.todo
          /\ job.flag <=> Drifts(job.snap[job.cur].providerTokens, job.answers)
          /\ \A p \in Asked(job.snap, job.cur) : p \in job.left \/ \E n \in Reports : <<p, n>> \in job.answers

\* FlagIsVerdict for one account.
FlagOf(e, x) ==
    /\ e.driftFlag <=> Drifts(x.local, x.answers)
    /\ e.lastReconciledAt = x.at
    /\ x.whole => \A p \in Configured : x.local[p] > 0 => \E n \in Reports : <<p, n>> \in x.answers
    /\ ~x.whole => \A y, z \in x.answers : y = z
FlagInv == \A a \in Accounts : FlagOf(entries[a], audit[a])

\* The run has been through every account of its copy that is not ahead of it.
Covered(a) == entries[a].lastReconciledAt = tick /\ audit[a].whole
CoverInv == AtWork => \A a \in Open(job.snap) :
    a \in job.todo \/ (job.pc = "entry" /\ a = job.cur) \/ Covered(a)

\* The inductive invariant behind FlagIsVerdict and CompleteRunsCoverAll.
PassInv == TypeInv /\ AskedInv /\ FlagInv /\ CoverInv /\ CompleteRunsCoverAll

\* Before the first run no entry has a time stamp and no verdict is open.
LEMMA InitPass == Init => PassInv
  <1> SUFFICES ASSUME Init PROVE PassInv
    OBVIOUS
  <1>0. TypeInv
    BY InitTypes
  <1>1. job.pc = "idle" /\ job.snap = <<>> /\ tick = 0
    BY IdleType DEF Init
  <1>2. \A a \in Accounts : /\ audit[a].at = 0 /\ audit[a].answers = {} /\ audit[a].whole = FALSE
                            /\ entries[a].driftFlag = FALSE /\ entries[a].lastReconciledAt = 0
    BY DEF Init, NewEntry
  <1>4. AskedInv
    BY <1>1 DEF AskedInv, AtWork
  <1>5. FlagInv
    BY <1>2, Zenon DEF FlagInv, FlagOf, Drifts
  <1> QED BY <1>0, <1>1, <1>4, <1>5 DEF PassInv, CoverInv, CompleteRunsCoverAll, AtWork

\* Every step of the job, of the handlers and of the clock keeps the flags and the
\* time stamps in agreement with the answers they rest on.
LEMMA NextPass == PassInv /\ [Next]_vars => PassInv'
  <1> SUFFICES ASSUME PassInv, [Next]_vars PROVE PassInv'
    OBVIOUS
  <1>0. /\ TypeInv /\ AskedInv /\ FlagInv /\ CoverInv /\ CompleteRunsCoverAll
        /\ job \in JobType /\ tick \in Nat /\ entries \in [Accounts -> EntryType]
        /\ audit \in [Accounts -> AuditType]
    BY DEF PassInv, TypeInv
  <1>1. TypeInv'
    BY <1>0, NextTypes DEF AskedInv, AtWork
  <1>2. ASSUME NEW k \in Keys, NEW p \in Providers \cup {None}, NEW n \in Nat, NEW t \in BOOLEAN,
               Record(k, p, n, t)
        PROVE  PassInv'
    <2>1. UNCHANGED <<job, tick, audit>>
      BY <1>2 DEF Record
    <2>2. \A a \in Accounts : /\ entries'[a].lastReconciledAt = entries[a].lastReconciledAt
                              /\ entries'[a].driftFlag = entries[a].driftFlag
      BY <1>0, <1>2, Recording
    <2>3. AskedInv'
      BY <1>0, <2>1 DEF AskedInv, AtWork
    <2>4. FlagInv'
      BY <1>0, <2>1, <2>2, ZenonT(60) DEF FlagInv, FlagOf
    <2>5. CoverInv'
      BY <1>0, <2>1, <2>2 DEF CoverInv, AtWork, Covered, Open
    <2>6. CompleteRunsCoverAll'
      BY <1>0, <2>1, <2>2 DEF CompleteRunsCoverAll, Open
    <2> QED BY <1>1, <2>3, <2>4, <2>5, <2>6 DEF PassInv
  <1>3. CASE Start
    <2>1. /\ job'.pc = "run" /\ job'.snap = entries /\ job'.todo = Open(entries)
          /\ tick' = tick + 1 /\ UNCHANGED <<entries, audit>>
      BY <1>0, <1>3, JobSteps DEF Start
    <2>2. Open(entries) \subseteq Accounts /\ Open(job'.snap) = Open(entries)
      BY <2>1 DEF Open
    <2>3. AskedInv'
      BY <1>0, <2>1, <2>2 DEF AskedInv, AtWork
    <2>4. FlagInv'
      BY <1>0, <2>1, Zenon DEF FlagInv
    <2>5. CoverInv'
      BY <2>1, <2>2 DEF CoverInv
    <2>6. CompleteRunsCoverAll'
      BY <2>1 DEF CompleteRunsCoverAll
    <2> QED BY <1>1, <2>3, <2>4, <2>5, <2>6 DEF PassInv
  <1>4. ASSUME NEW a \in Accounts, PickEntry(a) PROVE PassInv'
    <2>1. /\ job.pc = "run" /\ a \in job.todo
          /\ job'.pc = "entry" /\ job'.cur = a /\ job'.snap = job.snap
          /\ job'.todo = job.todo \ {a} /\ job'.flag = FALSE /\ job'.answers = {}
          /\ job'.left = Asked(job'.snap, job'.cur)
          /\ UNCHANGED <<entries, audit, tick>>
      BY <1>0, <1>4, JobSteps DEF PickEntry
    <2>2. ~Drifts(job'.snap[job'.cur].providerTokens, job'.answers)
      BY <2>1, Zenon DEF Drifts
    <2>3. AskedInv'
      <3>1. job'.cur \in Accounts /\ job'.cur \notin job'.todo /\ job'.snap \in [Accounts -> EntryType]
        BY <1>0, <2>1 DEF AskedInv, AtWork
      <3> QED BY <2>1, <2>2, <3>1, Zenon DEF AskedInv
    <2>4. FlagInv'
      BY <1>0, <2>1, Zenon DEF FlagInv
    <2>5. CoverInv'
      BY <1>0, <2>1 DEF CoverInv, AtWork, Covered, Open
    <2>6. CompleteRunsCoverAll'
      BY <2>1 DEF CompleteRunsCoverAll
    <2> QED BY <1>1, <2>3, <2>4, <2>5, <2>6 DEF PassInv
  <1>5. ASSUME NEW p \in Providers, NEW n \in Reports, Apply(p, n) PROVE PassInv'
    <2> DEFINE above == Above(job.snap[job.cur].providerTokens[p], n)
    <2>0. /\ job.pc = "entry" /\ job.cur \in Accounts /\ UNCHANGED tick
          /\ job.snap \in [Accounts -> EntryType]
          /\ audit' = [audit EXCEPT ![job.cur] = Basis(FALSE, {<<p, n>>})]
      BY <1>0, <1>5, Zenon DEF Apply, AskedInv, AtWork
    <2>1. /\ above \in BOOLEAN
          /\ entries' = [entries EXCEPT ![job.cur] = WriteBack(job.cur, above)]
          /\ job'.pc = "entry" /\ job'.cur = job.cur /\ job'.snap = job.snap
          /\ job'.todo = job.todo /\ job'.answers = job.answers \cup {<<p, n>>}
          /\ job'.left = job.left \ {p} /\ (job'.flag <=> job.flag \/ above)
      BY SMTT(40), <1>0, <1>5, <2>0, JobWrites
    <2>2. /\ entries'[job.cur].lastReconciledAt = tick /\ entries'[job.cur].driftFlag = above
          /\ \A a \in Accounts : a # job.cur => entries'[a] = entries[a]
      BY <1>0, <2>0, <2>1, Writes
    <2>8. /\ audit'[job.cur].at = tick /\ audit'[job.cur].whole = FALSE
          /\ audit'[job.cur].answers = {<<p, n>>}
          /\ audit'[job.cur].local = job.snap[job.cur].providerTokens
          /\ \A a \in Accounts : a # job.cur => audit'[a] = audit[a]
      <3>1. {<<p, n>>} \in Answers /\ FALSE \in BOOLEAN
        BY DEF Answers
      <3> QED BY <1>0, <2>0, <3>1, Audits
    <2>3. job'.flag <=> Drifts(job'.snap[job'.cur].providerTokens, job'.answers)
      <3> DEFINE l == job.snap[job.cur].providerTokens
      <3>1. job.flag <=> Drifts(l, job.answers)
        BY <1>0, <2>0, Zenon DEF AskedInv
      <3>2. Drifts(l, job.answers \cup {<<p, n>>}) <=> Drifts(l, job.answers) \/ Above(l[p], n)
        BY DriftsGrow
      <3>3. job'.snap[job'.cur].providerTokens = l
        BY <2>1
      <3> HIDE DEF l
      <3>4. (job'.flag <=> job.flag \/ Above(l[p], n)) /\ job'.answers = job.answers \cup {<<p, n>>}
        BY <2>1, Zenon DEF l
      <3> QED BY <3>1, <3>2, <3>3, <3>4, Zenon
    <2>4. AskedInv'
      <3>1. job'.cur \in Accounts /\ job'.cur \notin job'.todo /\ job'.snap \in [Accounts -> EntryType]
        BY <1>0, <2>0, <2>1 DEF AskedInv
      <3>2. Asked(job'.snap, job'.cur) = Asked(job.snap, job.cur)
        BY <2>1
      <3>3. ASSUME NEW q \in Asked(job.snap, job.cur)
            PROVE  q \in job'.left \/ \E m \in Reports : <<q, m>> \in job'.answers
        <4>1. q \in job.left \/ \E m \in Reports : <<q, m>> \in job.answers
          BY <1>0, <2>0, Zenon DEF AskedInv
        <4> QED BY <2>1, <4>1, Zenon
      <3> QED BY <2>3, <3>1, <3>2, <3>3, Zenon DEF AskedInv
    <2>5. FlagInv'
      <3>1. FlagOf(entries'[job.cur], audit'[job.cur])
        <4> DEFINE l == job.snap[job.cur].providerTokens
        <4>1. Drifts(l, {} \cup {<<p, n>>}) <=> Drifts(l, {}) \/ Above(l[p], n)
          BY DriftsGrow
        <4>2. {} \cup {<<p, n>>} = {<<p, n>>} /\ ~Drifts(l, {})
          BY Zenon DEF Drifts
        <4>3. Drifts(l, {<<p, n>>}) <=> above
          BY <4>1, <4>2, Zenon
        <4> HIDE DEF l, above
        <4>4. audit'[job.cur].local = l
          BY <2>8 DEF l
        <4>5. entries'[job.cur].driftFlag <=> Drifts(audit'[job.cur].local, audit'[job.cur].answers)
          BY <2>2, <2>8, <4>3, <4>4, Zenon
        <4>6. \A y, z \in audit'[job.cur].answers : y = z
          BY <2>8, Zenon
        <4> QED BY <2>2, <2>8, <4>5, <4>6, Zenon DEF FlagOf
      <3>2. ASSUME NEW a \in Accounts PROVE FlagOf(entries'[a], audit'[a])
        BY <1>0, <2>2, <2>8, <3>1, Zenon DEF FlagInv
      <3> QED BY <3>2 DEF FlagInv
    <2>6. CoverInv'
      BY <1>0, <2>0, <2>1, <2>2, <2>8 DEF CoverInv, AtWork, Covered, Open
    <2>7. CompleteRunsCoverAll'
      BY <2>1 DEF CompleteRunsCoverAll
    <2> QED BY <1>1, <2>4, <2>5, <2>6, <2>7 DEF PassInv
  <1>6. CASE FetchFails
    <2>1. job'.pc = "idle" /\ job'.snap = <<>> /\ UNCHANGED <<entries, audit, tick>>
      BY <1>0, <1>6, JobSteps, IdleType DEF FetchFails
    <2>2. AskedInv'
      BY <1>0, <2>1 DEF AskedInv, AtWork
    <2>3. FlagInv'
      BY <1>0, <2>1, Zenon DEF FlagInv
    <2> QED BY <1>1, <2>1, <2>2, <2>3 DEF PassInv, CoverInv, AtWork, CompleteRunsCoverAll
  <1>7. CASE EntryDone
    <2> DEFINE c == job.cur
    <2>0. /\ job.pc = "entry" /\ c \in Accounts /\ UNCHANGED tick /\ job.left = {}
          /\ job.snap \in [Accounts -> EntryType] /\ job.answers \in Answers
          /\ audit' = [audit EXCEPT ![job.cur] = Basis(TRUE, job.answers)]
      BY <1>0, <1>7 DEF EntryDone, AskedInv, AtWork, JobType
    <2>1. /\ job'.pc = "run" /\ job'.snap = job.snap /\ job'.todo = job.todo
          /\ entries' = [entries EXCEPT ![c] = WriteBack(c, job.flag)] /\ job.flag \in BOOLEAN
      BY <1>0, <1>7, <2>0, JobSteps, JobWrites
    <2>2. /\ entries'[c].lastReconciledAt = tick /\ entries'[c].driftFlag = job.flag
          /\ \A a \in Accounts : a # c => entries'[a] = entries[a]
      BY <1>0, <2>0, <2>1, Writes
    <2>3. /\ audit'[c].at = tick /\ audit'[c].answers = job.answers /\ audit'[c].whole = TRUE
          /\ audit'[c].local = job.snap[c].providerTokens
          /\ \A a \in Accounts : a # c => audit'[a] = audit[a]
      <3>1. TRUE \in BOOLEAN
        OBVIOUS
      <3> QED BY <1>0, <2>0, <3>1, Audits
    <2>4. AskedInv'
      BY <2>0, <2>1 DEF AskedInv, AtWork
    <2>5. FlagInv'
      <3>1. entries'[c].driftFlag <=> Drifts(audit'[c].local, audit'[c].answers)
        BY <1>0, <2>0, <2>2, <2>3, Zenon DEF AskedInv
      <3>2. ASSUME NEW p \in Configured, audit'[c].local[p] > 0
            PROVE  \E n \in Reports : <<p, n>> \in audit'[c].answers
        <4>1. p \in Asked(job.snap, job.cur)
          BY <2>3, <3>2 DEF Asked
        <4> QED BY <1>0, <2>0, <2>3, <4>1, Zenon DEF AskedInv
      <3>3. FlagOf(entries'[c], audit'[c])
        BY <2>2, <2>3, <3>1, <3>2, Zenon DEF FlagOf
      <3>4. ASSUME NEW a \in Accounts PROVE FlagOf(entries'[a], audit'[a])
        BY <1>0, <2>2, <2>3, <3>3, Zenon DEF FlagInv
      <3> QED BY <3>4 DEF FlagInv
    <2>6. CoverInv'
      BY <1>0, <2>0, <2>1, <2>2, <2>3 DEF CoverInv, AtWork, Covered, Open
    <2>7. CompleteRunsCoverAll'
      BY <2>1 DEF CompleteRunsCoverAll
    <2> QED BY <1>1, <2>4, <2>5, <2>6, <2>7 DEF PassInv
  <1>8. CASE RunDone
    <2>1. /\ job.pc = "run" /\ job.todo = {} /\ job'.pc = "idle" /\ job'.snap = job.snap
          /\ UNCHANGED <<entries, audit, tick>>
      BY <1>0, <1>8, JobSteps DEF RunDone, RunOver
    <2>2. AskedInv'
      BY <1>0, <2>1 DEF AskedInv, AtWork
    <2>3. FlagInv'
      BY <1>0, <2>1, Zenon DEF FlagInv
    <2>4. CompleteRunsCoverAll'
      BY <1>0, <2>1 DEF CompleteRunsCoverAll, CoverInv, AtWork, Covered, Open
    <2> QED BY <1>1, <2>1, <2>2, <2>3, <2>4 DEF PassInv, CoverInv, AtWork
  <1>9. CASE Leave
    <2>1. job'.pc = "gone" /\ UNCHANGED <<entries, audit, tick>>
      BY <1>0, <1>9, JobSteps DEF Leave
    <2>2. AskedInv'
      BY <1>0, <2>1 DEF AskedInv, AtWork
    <2>3. FlagInv'
      BY <1>0, <2>1, Zenon DEF FlagInv
    <2> QED BY <1>1, <2>1, <2>2, <2>3 DEF PassInv, CoverInv, AtWork, CompleteRunsCoverAll
  <1>10. CASE UNCHANGED <<entries, job, tick, recorded, audit>>
    BY <1>0, <1>1, <1>10 DEF PassInv, AskedInv, FlagInv, CoverInv, Covered, AtWork, CompleteRunsCoverAll, Open
  <1> QED BY <1>0, <1>2, <1>3, <1>4, <1>5, <1>6, <1>7, <1>8, <1>9, <1>10, Steps

\* PassInv holds in every state: the invariant of the two theorems below.
LEMMA PassAlways == Spec => []PassInv
  BY InitPass, NextPass, PTL DEF Spec, SafeSpec

\* The flag of an account is at every moment the verdict on all the providers of its
\* last complete pass or, in the middle of a pass and after one that was broken off,
\* on the one provider that answered last.
THEOREM FlagsAreVerdicts == Spec => []FlagIsVerdict
  <1>1. PassInv => FlagIsVerdict
    BY Zenon DEF PassInv, FlagInv, FlagOf, FlagIsVerdict, Drifts
  <1> QED BY <1>1, PassAlways, PTL

\* A run that ended without an error has reconciled every account that was open
\* when it took its copy.
THEOREM CompleteRunsCover == Spec => []CompleteRunsCoverAll
  <1>1. PassInv => CompleteRunsCoverAll
    BY DEF PassInv
  <1> QED BY <1>1, PassAlways, PTL

-----------------------------------------------------------------------------
\* The parts of SummaryCountsEverything.
Billed(k) == [t \in 1 .. LastPeriod |-> entries[<<k, t>>].tokensBilled]
Cut(k) == [t \in 1 .. LastPeriod |-> entries[<<k, t>>].truncatedRequests]
CountInv ==
    /\ \A a \in Accounts : entries[a].tokensBilled = SumFunction(entries[a].providerTokens)
    /\ \A k \in Keys : /\ SumFunction(Billed(k)) = recorded[k].tokens
                       /\ SumFunction(Cut(k)) = recorded[k].truncated
    /\ \A a \in Accounts : entries[a].lastReconciledAt <= MaxRuns

\* An empty ledger counts nothing.
LEMMA InitCounts == Init => CountInv
  <1> SUFFICES ASSUME Init PROVE CountInv
    OBVIOUS
  <1>1. IsFiniteSet(Providers) /\ IsFiniteSet(1 .. LastPeriod) /\ MaxRuns \in Nat
    BY ReconcileAssumption, FS_Interval
  <1>2. \A a \in Accounts : /\ entries[a].tokensBilled = 0 /\ entries[a].truncatedRequests = 0
                            /\ entries[a].providerTokens = [p \in Providers |-> 0]
                            /\ entries[a].lastReconciledAt = 0
    BY DEF Init, NewEntry
  <1>3. ASSUME NEW k \in Keys
        PROVE  Billed(k) = [t \in 1 .. LastPeriod |-> 0] /\ Cut(k) = [t \in 1 .. LastPeriod |-> 0]
    <2>1. \A t \in 1 .. LastPeriod : <<k, t>> \in Accounts
      BY DEF Accounts
    <2> QED BY <1>2, <2>1 DEF Billed, Cut
  <1>4. \A k \in Keys : recorded[k].tokens = 0 /\ recorded[k].truncated = 0
    BY DEF Init
  <1>5. /\ SumFunction([p \in Providers |-> 0]) = 0
        /\ SumFunction([t \in 1 .. LastPeriod |-> 0]) = 0
    BY <1>1, SumFunctionZero
  <1>6. \A a \in Accounts : entries[a].tokensBilled = SumFunction(entries[a].providerTokens)
    BY <1>2, <1>5
  <1>7. \A k \in Keys : /\ SumFunction(Billed(k)) = recorded[k].tokens
                        /\ SumFunction(Cut(k)) = recorded[k].truncated
    BY <1>3, <1>4, <1>5
  <1>8. \A a \in Accounts : entries[a].lastReconciledAt <= MaxRuns
    BY <1>1, <1>2
  <1> QED BY <1>6, <1>7, <1>8 DEF CountInv

\* A step that changes no count.
LEMMA SameCounts ==
    ASSUME CountInv, UNCHANGED recorded,
           \A a \in Accounts : /\ entries'[a].tokensBilled = entries[a].tokensBilled
                               /\ entries'[a].truncatedRequests = entries[a].truncatedRequests
                               /\ entries'[a].providerTokens = entries[a].providerTokens
                               /\ entries'[a].lastReconciledAt <= MaxRuns
    PROVE  CountInv'
  <1>1. ASSUME NEW k \in Keys PROVE Billed(k)' = Billed(k) /\ Cut(k)' = Cut(k)
    <2>1. \A t \in 1 .. LastPeriod : <<k, t>> \in Accounts
      BY DEF Accounts
    <2> QED BY <2>1 DEF Billed, Cut
  <1> QED BY <1>1, Zenon DEF CountInv

\* A record adds its tokens to its account, its provider and its key.
LEMMA RecordCounts ==
    ASSUME TypeInv, CountInv, NEW k \in Keys, NEW p \in Providers \cup {None}, NEW n \in Nat,
           NEW t \in BOOLEAN, Record(k, p, n, t)
    PROVE  CountInv'
  <1> DEFINE b == <<k, period>>
             extra == IF t THEN 1 ELSE 0
  <1>0. /\ IsFiniteSet(Providers) /\ IsFiniteSet(1 .. LastPeriod) /\ period \in 1 .. LastPeriod
        /\ extra \in Nat
    BY ReconcileAssumption, FS_Interval DEF TypeInv
  <1>1. /\ b \in Accounts
        /\ \A a \in Accounts : /\ entries[a] \in EntryType /\ entries'[a] \in EntryType
                               /\ entries'[a].lastReconciledAt = entries[a].lastReconciledAt
                               /\ a # b => entries'[a] = entries[a]
        /\ entries'[b].tokensBilled = entries[b].tokensBilled + n
        /\ entries'[b].truncatedRequests = entries[b].truncatedRequests + extra
        /\ entries'[b].providerTokens =
               [q \in Providers |-> entries[b].providerTokens[q] + IF q = p THEN n ELSE 0]
    <2>1. /\ b \in Accounts /\ entries' \in [Accounts -> EntryType]
          /\ \A a \in Accounts : /\ entries'[a].lastReconciledAt = entries[a].lastReconciledAt
                                 /\ a # b => entries'[a] = entries[a]
          /\ entries'[b].tokensBilled = entries[b].tokensBilled + n
          /\ entries'[b].truncatedRequests = entries[b].truncatedRequests + extra
          /\ entries'[b].providerTokens =
                 [q \in Providers |-> entries[b].providerTokens[q] + IF q = p THEN n ELSE 0]
      BY Recording
    <2>2. \A a \in Accounts : entries[a] \in EntryType /\ entries'[a] \in EntryType
      BY <2>1 DEF TypeInv
    <2> QED BY <2>1, <2>2, Zenon
  <1>2. /\ recorded'[k].tokens = recorded[k].tokens + n
        /\ recorded'[k].truncated = recorded[k].truncated + extra
        /\ \A j \in Keys : j # k => recorded'[j] = recorded[j]
    <2>1. recorded' = [recorded EXCEPT ![k] = [requests |-> recorded[k].requests + 1,
                                               tokens |-> recorded[k].tokens + n,
                                               truncated |-> recorded[k].truncated + extra]]
      BY Zenon DEF Record
    <2> QED BY <2>1 DEF TypeInv
  <1>3. p = None => n = 0
    BY DEF Record
  <1> HIDE DEF extra
  <1>4. SumFunction(entries'[b].providerTokens) = SumFunction(entries[b].providerTokens) + n
    <2>1. PICK f \in [Providers -> Nat] : f = entries[b].providerTokens
      BY <1>1 DEF EntryType
    <2>2. PICK e : e = entries'[b].providerTokens
      OBVIOUS
    <2>3. e = [q \in Providers |-> f[q] + IF q = p THEN n ELSE 0]
      BY <1>1, <2>1, <2>2
    <2>4. e \in [Providers -> Nat] /\ \A q \in Providers \ {p} : e[q] = f[q]
      BY <2>3
    <2>5. CASE p \in Providers
      <3>1. e[p] = f[p] + n /\ f[p] \in Nat
        BY <2>3, <2>5
      <3>2. SumFunction(f) \in Nat /\ SumFunction(e) = SumFunction(f) + (e[p] - f[p])
        BY <1>0, <2>4, <2>5, SumFunctionUpdate
      <3>3. SumFunction(e) = SumFunction(f) + n
        BY <3>1, <3>2
      <3> QED BY <2>1, <2>2, <3>3
    <2>6. CASE p \notin Providers
      <3>1. n = 0 /\ e = f
        BY <1>3, <2>3, <2>6
      <3>2. SumFunction(f) \in Nat
        <4>1. \A x \in Providers : f[x] \in Nat
          OBVIOUS
        <4>2. DOMAIN f = Providers /\ SumFunctionOnSet(f, Providers) \in Nat
          BY <1>0, <4>1, SumNat
        <4> QED BY <4>2 DEF SumFunction
      <3> QED BY <2>1, <2>2, <3>1, <3>2
    <2> QED BY <2>5, <2>6
  <1>5. ASSUME NEW a \in Accounts
        PROVE  entries'[a].tokensBilled = SumFunction(entries'[a].providerTokens)
    <2>1. CASE a = b
      BY <1>1, <1>4, <2>1 DEF CountInv
    <2>2. CASE a # b
      BY <1>1, <2>2 DEF CountInv
    <2> QED BY <2>1, <2>2
  <1>6. ASSUME NEW j \in Keys
        PROVE  /\ Billed(j) \in [1 .. LastPeriod -> Nat] /\ Billed(j)' \in [1 .. LastPeriod -> Nat]
               /\ Cut(j) \in [1 .. LastPeriod -> Nat] /\ Cut(j)' \in [1 .. LastPeriod -> Nat]
               /\ \A x \in 1 .. LastPeriod : /\ Billed(j)[x] = entries[<<j, x>>].tokensBilled
                                             /\ Billed(j)'[x] = entries'[<<j, x>>].tokensBilled
                                             /\ Cut(j)[x] = entries[<<j, x>>].truncatedRequests
                                             /\ Cut(j)'[x] = entries'[<<j, x>>].truncatedRequests
    <2>1. \A x \in 1 .. LastPeriod : <<j, x>> \in Accounts
      BY DEF Accounts
    <2>2. \A x \in 1 .. LastPeriod : /\ entries[<<j, x>>].tokensBilled \in Nat
                                     /\ entries'[<<j, x>>].tokensBilled \in Nat
                                     /\ entries[<<j, x>>].truncatedRequests \in Nat
                                     /\ entries'[<<j, x>>].truncatedRequests \in Nat
      BY <1>1, <2>1 DEF EntryType
    <2> QED BY <2>2 DEF Billed, Cut
  <1>7. ASSUME NEW j \in Keys, j # k
        PROVE  Billed(j)' = Billed(j) /\ Cut(j)' = Cut(j)
    <2>1. \A x \in 1 .. LastPeriod : <<j, x>> \in Accounts /\ <<j, x>> # b
      BY <1>7 DEF Accounts
    <2> HIDE DEF b
    <2> QED BY <1>1, <2>1 DEF Billed, Cut
  <1>8. /\ SumFunction(Billed(k)') = SumFunction(Billed(k)) + n
        /\ SumFunction(Cut(k)') = SumFunction(Cut(k)) + extra
    <2>1. PICK f, e, g, h : f = Billed(k) /\ e = Billed(k)' /\ g = Cut(k) /\ h = Cut(k)'
      OBVIOUS
    <2>2. /\ f \in [1 .. LastPeriod -> Nat] /\ e \in [1 .. LastPeriod -> Nat]
          /\ g \in [1 .. LastPeriod -> Nat] /\ h \in [1 .. LastPeriod -> Nat]
      BY <1>6, <2>1
    <2>3. \A x \in 1 .. LastPeriod \ {period} : e[x] = f[x] /\ h[x] = g[x]
      <3>1. \A x \in 1 .. LastPeriod \ {period} : <<k, x>> \in Accounts /\ <<k, x>> # b
        BY DEF Accounts
      <3>2. \A x \in 1 .. LastPeriod \ {period} : entries'[<<k, x>>] = entries[<<k, x>>]
        BY <1>1, <3>1
      <3>3. ASSUME NEW x \in 1 .. LastPeriod \ {period} PROVE e[x] = f[x] /\ h[x] = g[x]
        <4>1. /\ f[x] = entries[<<k, x>>].tokensBilled /\ e[x] = entries'[<<k, x>>].tokensBilled
              /\ g[x] = entries[<<k, x>>].truncatedRequests
              /\ h[x] = entries'[<<k, x>>].truncatedRequests
          BY <2>1 DEF Billed, Cut
        <4> QED BY <3>2, <4>1
      <3> QED BY <3>3
    <2>4. e[period] = f[period] + n /\ h[period] = g[period] + extra /\ f[period] \in Nat /\ g[period] \in Nat
      BY <1>0, <1>1, <1>6, <2>1, <2>2
    <2>5. SumFunction(f) \in Nat /\ SumFunction(e) = SumFunction(f) + (e[period] - f[period])
      BY <1>0, <2>2, <2>3, SumFunctionUpdate
    <2>6. SumFunction(g) \in Nat /\ SumFunction(h) = SumFunction(g) + (h[period] - g[period])
      BY <1>0, <2>2, <2>3, SumFunctionUpdate
    <2>7. SumFunction(e) = SumFunction(f) + n /\ SumFunction(h) = SumFunction(g) + extra
      BY <1>0, <2>4, <2>5, <2>6
    <2> QED BY <2>1, <2>7
  <1>9. ASSUME NEW j \in Keys
        PROVE  SumFunction(Billed(j)') = recorded'[j].tokens /\ SumFunction(Cut(j)') = recorded'[j].truncated
    <2>1. CASE j = k
      BY <1>2, <1>8, <2>1 DEF CountInv
    <2>2. CASE j # k
      BY <1>2, <1>7, <2>2 DEF CountInv
    <2> QED BY <2>1, <2>2
  <1>10. \A a \in Accounts : entries'[a].lastReconciledAt <= MaxRuns
    BY <1>1 DEF CountInv
  <1> QED BY <1>5, <1>9, <1>10 DEF CountInv

\* Every step keeps what was recorded in the summaries: the write-back of an old
\* copy touches verdicts only.
LEMMA NextCounts == PassInv /\ CountInv /\ [Next]_vars => CountInv'
  <1> SUFFICES ASSUME PassInv, CountInv, [Next]_vars PROVE CountInv'
    OBVIOUS
  <1>0. /\ TypeInv /\ tick \in Nat /\ tick <= MaxRuns
        /\ job.pc = "entry" => job.cur \in Accounts
        /\ \A a \in Accounts : entries[a].lastReconciledAt <= MaxRuns
    BY DEF PassInv, TypeInv, AskedInv, CountInv
  <1>1. ASSUME UNCHANGED <<entries, recorded>> PROVE CountInv'
    BY <1>0, <1>1, SameCounts
  <1>2. ASSUME NEW c \in Accounts, NEW flag \in BOOLEAN, UNCHANGED recorded,
               entries' = [entries EXCEPT ![c] = WriteBack(c, flag)]
        PROVE  CountInv'
    <2>1. /\ entries'[c].lastReconciledAt = tick
          /\ \A a \in Accounts : a # c => entries'[a] = entries[a]
          /\ \A a \in Accounts : /\ entries'[a].tokensBilled = entries[a].tokensBilled
                                 /\ entries'[a].truncatedRequests = entries[a].truncatedRequests
                                 /\ entries'[a].providerTokens = entries[a].providerTokens
      BY <1>0, <1>2, Writes
    <2>2. \A a \in Accounts : entries'[a].lastReconciledAt <= MaxRuns
      BY <1>0, <2>1
    <2> QED BY <1>2, <2>1, <2>2, SameCounts
  <1>3. ASSUME NEW p \in Providers, NEW n \in Reports, Apply(p, n) PROVE CountInv'
    <2> DEFINE above == Above(job.snap[job.cur].providerTokens[p], n)
    <2>1. above \in BOOLEAN /\ entries' = [entries EXCEPT ![job.cur] = WriteBack(job.cur, above)]
      BY <1>0, <1>3, JobWrites
    <2>2. job.cur \in Accounts /\ UNCHANGED recorded
      BY <1>0, <1>3 DEF Apply
    <2> HIDE DEF above
    <2> QED BY <1>2, <2>1, <2>2
  <1>4. CASE EntryDone
    <2>1. /\ entries' = [entries EXCEPT ![job.cur] = WriteBack(job.cur, job.flag)]
          /\ job.flag \in BOOLEAN /\ job.cur \in Accounts /\ UNCHANGED recorded
      BY <1>0, <1>4, JobWrites DEF EntryDone
    <2> QED BY <1>2, <2>1
  <1>5. CASE Start \/ FetchFails \/ RunDone \/ Leave \/ \E a \in Accounts : PickEntry(a)
    BY <1>1, <1>5 DEF Start, FetchFails, RunDone, Leave, PickEntry
  <1> QED BY <1>0, <1>1, <1>3, <1>4, <1>5, Steps, RecordCounts

\* Handlers and the job write the same entries: the usage endpoint still reports
\* every token and truncation ever recorded, and in every entry the providers'
\* tokens make up what is billed.
THEOREM NothingRecordedIsLost == Spec => []SummaryCountsEverything
  <1>1. PassInv /\ CountInv => SummaryCountsEverything
    <2> SUFFICES ASSUME PassInv, CountInv PROVE SummaryCountsEverything
      OBVIOUS
    <2>1. \A a \in Accounts : entries[a].lastReconciledAt \in 0 .. MaxRuns /\ entries[a].driftFlag \in BOOLEAN
      BY ReconcileAssumption DEF PassInv, TypeInv, CountInv, EntryType
    <2>2. /\ job.pc \in {"idle", "run", "entry", "gone"} /\ job.todo \subseteq Accounts
          /\ job.left \subseteq Configured /\ tick \in 0 .. MaxRuns
      BY ReconcileAssumption DEF PassInv, TypeInv, JobType
    <2>3. TypeOK
      BY <2>1, <2>2, Zenon DEF PassInv, TypeInv, CountInv, TypeOK
    <2>4. \A k \in Keys : /\ Summary(k).tokensBilled = recorded[k].tokens
                          /\ Summary(k).truncatedRequests = recorded[k].truncated
      BY DEF CountInv, Billed, Cut, Summary
    <2> QED BY <2>3, <2>4 DEF SummaryCountsEverything
  <1>2. Init => PassInv /\ CountInv
    BY InitPass, InitCounts
  <1>3. PassInv /\ CountInv /\ [Next]_vars => (PassInv /\ CountInv)'
    BY NextPass, NextCounts
  <1> QED BY <1>1, <1>2, <1>3, PTL DEF Spec, SafeSpec

-----------------------------------------------------------------------------
\* The harness: percentiles.

\* The samples that sort.Float64s puts no later than sample i.
UpTo(ss, i) == {j \in DOMAIN ss : ss[j] < ss[i] \/ (ss[j] = ss[i] /\ j <= i)}

\* The samples up to a value.
AtMost(ss, v) == {j \in DOMAIN ss : ss[j] <= v}

\* The positions of a list of n elements.
LEMMA PositionsCount ==
    ASSUME NEW n \in Nat
    PROVE  IsFiniteSet(1 .. n) /\ Cardinality(1 .. n) = n
  BY FS_Interval

\* A place is a position of the list.
LEMMA SamplePlace ==
    ASSUME NEW ss \in Seq(Int), NEW i \in DOMAIN ss
    PROVE  /\ UpTo(ss, i) \in SUBSET DOMAIN ss /\ IsFiniteSet(UpTo(ss, i)) /\ i \in UpTo(ss, i)
           /\ PlaceOf(ss, i) = Cardinality(UpTo(ss, i))
           /\ PlaceOf(ss, i) \in 1 .. Len(ss)
  <1>1. DOMAIN ss = 1 .. Len(ss) /\ Len(ss) \in Nat /\ ss[i] \in Int
    OBVIOUS
  <1>2. IsFiniteSet(DOMAIN ss) /\ Cardinality(DOMAIN ss) = Len(ss)
    BY <1>1, PositionsCount
  <1>3. UpTo(ss, i) \in SUBSET DOMAIN ss /\ i \in UpTo(ss, i)
    BY <1>1 DEF UpTo
  <1>4. IsFiniteSet(UpTo(ss, i)) /\ Cardinality(UpTo(ss, i)) <= Len(ss)
    BY <1>2, <1>3, FS_Subset
  <1>5. Cardinality(UpTo(ss, i)) \in Nat /\ Cardinality(UpTo(ss, i)) # 0
    BY <1>3, <1>4, FS_CardinalityType, FS_EmptySet
  <1>6. PlaceOf(ss, i) = Cardinality(UpTo(ss, i))
    BY DEF PlaceOf, UpTo
  <1> QED BY <1>1, <1>3, <1>4, <1>5, <1>6

\* A sample that comes after another has a later place.
LEMMA SampleOrder ==
    ASSUME NEW ss \in Seq(Int), NEW i \in DOMAIN ss, NEW j \in DOMAIN ss,
           ss[i] < ss[j] \/ (ss[i] = ss[j] /\ i < j)
    PROVE  PlaceOf(ss, i) < PlaceOf(ss, j)
  <1>1. DOMAIN ss = 1 .. Len(ss) /\ Len(ss) \in Nat /\ \A k \in DOMAIN ss : ss[k] \in Int
    OBVIOUS
  <1>2. UpTo(ss, i) \in SUBSET UpTo(ss, j) /\ j \notin UpTo(ss, i)
    BY <1>1 DEF UpTo
  <1>3. IsFiniteSet(UpTo(ss, j)) /\ j \in UpTo(ss, j)
    BY SamplePlace
  <1>4. /\ Cardinality(UpTo(ss, i)) <= Cardinality(UpTo(ss, j))
        /\ Cardinality(UpTo(ss, j)) = Cardinality(UpTo(ss, i)) => UpTo(ss, j) = UpTo(ss, i)
    BY <1>2, <1>3, FS_Subset
  <1>5. /\ PlaceOf(ss, i) = Cardinality(UpTo(ss, i)) /\ PlaceOf(ss, j) = Cardinality(UpTo(ss, j))
        /\ PlaceOf(ss, i) \in 1 .. Len(ss) /\ PlaceOf(ss, j) \in 1 .. Len(ss)
    BY SamplePlace
  <1> QED BY <1>1, <1>2, <1>3, <1>4, <1>5

\* The sorted list has a sample of that place at every position.
LEMMA SamplesInOrder ==
    ASSUME NEW ss \in Seq(Int)
    PROVE  /\ Len(InOrder(ss)) = Len(ss)
           /\ \A n \in 1 .. Len(ss) : \E i \in DOMAIN ss : PlaceOf(ss, i) = n /\ InOrder(ss)[n] = ss[i]
  <1> DEFINE D == DOMAIN ss
             f == [i \in D |-> PlaceOf(ss, i)]
             at == [n \in D |-> CHOOSE i \in D : PlaceOf(ss, i) = n]
  <1>1. D = 1 .. Len(ss) /\ Len(ss) \in Nat /\ IsFiniteSet(D) /\ \A i \in D : ss[i] \in Int
    BY FS_Interval
  <1>2. f \in [D -> D]
    BY <1>1, SamplePlace
  <1>3. ASSUME NEW i \in D, NEW j \in D, i # j PROVE f[i] # f[j]
    <2>1. PlaceOf(ss, i) \in Int /\ PlaceOf(ss, j) \in Int
      BY SamplePlace, <1>1
    <2>2. CASE ss[i] < ss[j] \/ (ss[i] = ss[j] /\ i < j)
      BY <2>1, <2>2, SampleOrder
    <2>3. CASE ss[j] < ss[i] \/ (ss[j] = ss[i] /\ j < i)
      BY <2>1, <2>3, SampleOrder
    <2> QED BY <1>1, <1>3, <2>2, <2>3
  <1>4. f \in Injection(D, D)
    BY <1>2, <1>3 DEF Injection, IsInjective
  <1>5. f \in Surjection(D, D)
    BY <1>1, <1>4, FS_Injection
  <1>6. \A n \in D : \E i \in D : f[i] = n
    BY <1>5 DEF Surjection
  <1>7. \A n \in D : at[n] \in D /\ PlaceOf(ss, at[n]) = n
    BY <1>6
  <1>8. InOrder(ss) = [n \in D |-> ss[at[n]]]
    BY DEF InOrder
  <1> HIDE DEF at, f
  <1>9. \A n \in 1 .. Len(ss) : ss[at[n]] \in Int
    BY <1>1, <1>7
  <1>10. InOrder(ss) \in Seq(Int) /\ Len(InOrder(ss)) = Len(ss)
    BY <1>1, <1>8, <1>9
  <1>11. \A n \in 1 .. Len(ss) : InOrder(ss)[n] = ss[at[n]]
    BY <1>1, <1>8
  <1> QED BY <1>1, <1>7, <1>10, <1>11

\* The sample of place r is the least one that r samples do not exceed.
LEMMA PlaceIsRank ==
    ASSUME NEW ss \in Seq(Int), NEW i \in DOMAIN ss, NEW v \in Int
    PROVE  /\ Cardinality(AtMost(ss, v)) \in Nat
           /\ ss[i] <= v => PlaceOf(ss, i) <= Cardinality(AtMost(ss, v))
           /\ v < ss[i] => Cardinality(AtMost(ss, v)) < PlaceOf(ss, i)
  <1>1. DOMAIN ss = 1 .. Len(ss) /\ Len(ss) \in Nat /\ \A k \in DOMAIN ss : ss[k] \in Int
    OBVIOUS
  <1>2. IsFiniteSet(DOMAIN ss) /\ AtMost(ss, v) \in SUBSET DOMAIN ss
    BY <1>1, FS_Interval DEF AtMost
  <1>3. IsFiniteSet(AtMost(ss, v)) /\ Cardinality(AtMost(ss, v)) \in Nat
    BY <1>2, FS_Subset, FS_CardinalityType
  <1>4. /\ IsFiniteSet(UpTo(ss, i)) /\ i \in UpTo(ss, i) /\ PlaceOf(ss, i) \in Int
        /\ PlaceOf(ss, i) = Cardinality(UpTo(ss, i))
    BY <1>1, SamplePlace
  <1>5. ASSUME ss[i] <= v PROVE PlaceOf(ss, i) <= Cardinality(AtMost(ss, v))
    <2>1. UpTo(ss, i) \in SUBSET AtMost(ss, v)
      BY <1>1, <1>5 DEF UpTo, AtMost
    <2> QED BY <1>3, <1>4, <2>1, FS_Subset
  <1>6. ASSUME v < ss[i] PROVE Cardinality(AtMost(ss, v)) < PlaceOf(ss, i)
    <2>1. AtMost(ss, v) \in SUBSET UpTo(ss, i) /\ i \notin AtMost(ss, v)
      BY <1>1, <1>6 DEF UpTo, AtMost
    <2>2. /\ Cardinality(AtMost(ss, v)) <= Cardinality(UpTo(ss, i))
          /\ Cardinality(UpTo(ss, i)) = Cardinality(AtMost(ss, v)) => UpTo(ss, i) = AtMost(ss, v)
      BY <1>4, <2>1, FS_Subset
    <2> QED BY <1>3, <1>4, <2>1, <2>2
  <1> QED BY <1>3, <1>5, <1>6

\* The percentages the property looks at.
Percentages == {0, 1, 50, 51, 95, 99, 100}

\* The position Percentile reads is the least rank that is enough.
LEMMA RankIsLeast ==
    ASSUME NEW n \in Nat, n >= 1, NEW pct \in Percentages
    PROVE  LET r == IF pct <= 0 THEN 1 ELSE IF pct >= 100 THEN n ELSE Rank(n, pct)
           IN  /\ r \in 1 .. n
               /\ r * 100 >= pct * n
               /\ r = 1 \/ (r - 1) * 100 < pct * n
  <1> USE DEF Rank, Bounded
  <1>1. CASE pct = 0
    BY <1>1
  <1>2. CASE pct = 1
    BY <1>2
  <1>3. CASE pct = 50
    BY <1>3
  <1>4. CASE pct = 51
    BY <1>4
  <1>5. CASE pct = 95
    BY <1>5
  <1>6. CASE pct = 99
    BY <1>6
  <1>7. CASE pct = 100
    BY <1>7
  <1> QED BY <1>1, <1>2, <1>3, <1>4, <1>5, <1>6, <1>7 DEF Percentages

\* For every list of samples, in whatever order they came and however many are equal.
LEMMA NearestRank ==
    ASSUME NEW ss \in Seq(Int), ss # <<>>, NEW pct \in Percentages
    PROVE  LET enough == {v \in ToSet(ss) : Cardinality(AtMost(ss, v)) * 100 >= pct * Len(ss)}
           IN  /\ Percentile(ss, pct) \in enough
               /\ \A v \in enough : Percentile(ss, pct) <= v
  <1> DEFINE n == Len(ss)
             r == IF pct <= 0 THEN 1 ELSE IF pct >= 100 THEN n ELSE Rank(n, pct)
             enough == {v \in ToSet(ss) : Cardinality(AtMost(ss, v)) * 100 >= pct * n}
  <1>1. DOMAIN ss = 1 .. n /\ n \in Nat /\ n >= 1 /\ \A k \in DOMAIN ss : ss[k] \in Int
    OBVIOUS
  <1>2. r \in 1 .. n /\ r * 100 >= pct * n /\ (r = 1 \/ (r - 1) * 100 < pct * n)
    BY <1>1, RankIsLeast
  <1>3. Percentile(ss, pct) = InOrder(ss)[r]
    <2>1. Len(InOrder(ss)) = n
      BY SamplesInOrder
    <2>2. pct \in Int
      BY DEF Percentages
    <2> QED BY <2>1, <2>2 DEF Percentile
  <1>4. pct * n \in Int /\ r \in Int
    <2>1. pct \in Int
      BY DEF Percentages
    <2> QED BY <1>1, <1>2, <2>1
  <1> HIDE DEF r
  <1>5. PICK i \in DOMAIN ss : PlaceOf(ss, i) = r /\ InOrder(ss)[r] = ss[i]
    BY <1>2, SamplesInOrder
  <1>6. ss[i] \in enough
    <2>1. r <= Cardinality(AtMost(ss, ss[i])) /\ Cardinality(AtMost(ss, ss[i])) \in Nat
      <3>1. ss[i] \in Int /\ ss[i] <= ss[i]
        BY <1>1
      <3> QED BY <1>5, <3>1, PlaceIsRank
    <2>2. Cardinality(AtMost(ss, ss[i])) * 100 >= pct * n
      BY <1>2, <1>4, <2>1
    <2> QED BY <1>1, <2>2 DEF ToSet
  <1>7. ASSUME NEW v \in enough PROVE ss[i] <= v
    <2>1. PICK k \in DOMAIN ss : v = ss[k]
      BY DEF ToSet
    <2>2. v \in Int /\ Cardinality(AtMost(ss, v)) * 100 >= pct * n
      BY <1>1, <2>1
    <2>3. /\ Cardinality(AtMost(ss, v)) \in Nat
          /\ PlaceOf(ss, k) <= Cardinality(AtMost(ss, v))
          /\ v < ss[i] => Cardinality(AtMost(ss, v)) < r
      <3>1. ss[k] <= v
        BY <2>1, <2>2
      <3>2. /\ Cardinality(AtMost(ss, v)) \in Nat
            /\ ss[k] <= v => PlaceOf(ss, k) <= Cardinality(AtMost(ss, v))
        BY <2>2, PlaceIsRank
      <3>3. v < ss[i] => Cardinality(AtMost(ss, v)) < PlaceOf(ss, i)
        BY <2>2, PlaceIsRank
      <3> QED BY <1>5, <3>1, <3>2, <3>3
    <2>4. PlaceOf(ss, k) >= 1 /\ PlaceOf(ss, k) \in Int
      BY <1>1, SamplePlace
    <2>5. ~(Cardinality(AtMost(ss, v)) < r)
      BY SMTT(40), <1>2, <1>4, <2>2, <2>3, <2>4
    <2> QED BY <1>1, <2>2, <2>3, <2>5
  <1> QED BY <1>3, <1>5, <1>6, <1>7

-----------------------------------------------------------------------------
\* The harness: its scenarios.

\* The options of a model at a mock server.
At(m, p) == Snapshot(Server[p], m)

\* A mock without a failure has none of the three.
LEMMA NoReason == NoFailure \notin Reasons
  BY Zenon DEF NoFailure, Reasons

\* The table of the harness.
LEMMA ServerTable ==
    ASSUME NEW m, NEW p \in Upstreams, NEW tokens \in Nat \ {0}, NEW failure, NEW failAfter,
           m \in DOMAIN Server[p].perModel, Server[p].perModel[m] = Options(tokens, failure, failAfter)
    PROVE  At(m, p).tokens = tokens /\ At(m, p).failure = failure /\ At(m, p).failAfter = failAfter
  BY DEF At, Snapshot, MergeOptions, Options

\* The options of the first mock.
LEMMA FirstOptions ==
    /\ At("success", "openai").tokens = 10 /\ At("success", "openai").failure = NoFailure
    /\ LET o == At("deadSocket", "openai")
       IN  o.tokens = 10 /\ o.failure = "dead_socket" /\ o.failAfter = 4
    /\ LET o == At("silentHang", "openai")
       IN  o.tokens = 10 /\ o.failure = "silent_hang" /\ o.failAfter = 5
    /\ LET o == At("malformed", "openai")
       IN  o.tokens = 10 /\ o.failure = "malformed" /\ o.failAfter = 3
    /\ LET o == At("exhausted", "openai")
       IN  o.tokens = 10 /\ o.failure = "dead_socket" /\ o.failAfter = 4
  <1> DEFINE t == Server["openai"].perModel
  <1>1. /\ DOMAIN t = {"success", "deadSocket", "silentHang", "malformed", "exhausted"}
        /\ t["success"] = Options(10, NoFailure, 0) /\ t["deadSocket"] = Options(10, "dead_socket", 4)
        /\ t["silentHang"] = Options(10, "silent_hang", 5) /\ t["malformed"] = Options(10, "malformed", 3)
        /\ t["exhausted"] = Options(10, "dead_socket", 4)
    BY DEF Server
  <1>2. "openai" \in Upstreams
    BY DEF Upstreams
  <1> HIDE DEF t
  <1> QED BY <1>1, <1>2, ServerTable DEF t

\* The options of the second mock.
LEMMA SecondOptions ==
    /\ At("success", "anthropic").tokens = 10 /\ At("success", "anthropic").failure = NoFailure
    /\ At("deadSocket", "anthropic").tokens = 6 /\ At("deadSocket", "anthropic").failure = NoFailure
    /\ At("silentHang", "anthropic").tokens = 8 /\ At("silentHang", "anthropic").failure = NoFailure
    /\ At("malformed", "anthropic").tokens = 7 /\ At("malformed", "anthropic").failure = NoFailure
    /\ LET o == At("exhausted", "anthropic")
       IN  o.tokens = 6 /\ o.failure = "malformed" /\ o.failAfter = 6
  <1> DEFINE t == Server["anthropic"].perModel
  <1>1. /\ DOMAIN t = {"success", "deadSocket", "silentHang", "malformed", "exhausted"}
        /\ t["success"] = Options(10, NoFailure, 0) /\ t["deadSocket"] = Options(6, NoFailure, 0)
        /\ t["silentHang"] = Options(8, NoFailure, 0) /\ t["malformed"] = Options(7, NoFailure, 0)
        /\ t["exhausted"] = Options(6, "malformed", 6)
    BY DEF Server
  <1>2. "anthropic" \in Upstreams
    BY DEF Upstreams
  <1> HIDE DEF t
  <1> QED BY <1>1, <1>2, ServerTable DEF t

\* The models are the five of the table.
LEMMA ModelNames == Models = {"success", "deadSocket", "silentHang", "malformed", "exhausted"}
  BY DEF Models, Scenarios

\* What every mock does with a model: how much it delivers and counts.
LEMMA MockFacts ==
    ASSUME NEW m \in Models, NEW p \in Upstreams
    PROVE  LET o == At(m, p) IN
           /\ Content(o) \in 0 .. 10
           /\ Fails(o) \in BOOLEAN
           /\ Charged(o) = IF Fails(o) THEN 0 ELSE Content(o)
           /\ Fails(o) => o.failure \in Reasons
  <1>1. At(m, p).tokens \in 1 .. 10 /\ (Fails(At(m, p)) => At(m, p).failAfter \in 1 .. 10)
    <2>1. CASE p = "openai"
      BY <2>1, FirstOptions, ModelNames DEF Fails
    <2>2. CASE p = "anthropic"
      BY <2>2, SecondOptions, ModelNames DEF Fails
    <2> QED BY <2>1, <2>2 DEF Upstreams
  <1>2. Fails(At(m, p)) => At(m, p).failure \in Reasons
    <2>1. CASE p = "openai"
      BY <2>1, FirstOptions, ModelNames DEF Fails, Reasons
    <2>2. CASE p = "anthropic"
      BY <2>2, SecondOptions, ModelNames DEF Fails, Reasons
    <2> QED BY <2>1, <2>2 DEF Upstreams
  <1> QED BY <1>1, <1>2 DEF Content, Fails, FailAfter, Charged

\* The scenarios expect what the mocks do: the second provider delivers what should
\* be billed, the first one too unless it fails as listed.
LEMMA ScenarioFacts ==
    ASSUME NEW m \in Models
    PROVE  LET o == At(m, "openai") IN
           /\ Scenarios[m].expectedBilled = Content(At(m, "anthropic"))
           /\ ~Fails(o) => Scenarios[m].expectedBilled = Content(o) /\ Scenarios[m].failures = {}
           /\ Fails(o) => Scenarios[m].failures = {o.failure} /\ o.failure \in Reasons
  <1>1. /\ Scenarios["success"].expectedBilled = 10 /\ Scenarios["success"].failures = {}
        /\ Scenarios["deadSocket"].expectedBilled = 6 /\ Scenarios["deadSocket"].failures = {"dead_socket"}
        /\ Scenarios["silentHang"].expectedBilled = 8 /\ Scenarios["silentHang"].failures = {"silent_hang"}
        /\ Scenarios["malformed"].expectedBilled = 7 /\ Scenarios["malformed"].failures = {"malformed"}
        /\ Scenarios["exhausted"].expectedBilled = 6 /\ Scenarios["exhausted"].failures = {"dead_socket"}
    BY DEF Scenarios, Scenario
  <1> USE FirstOptions, SecondOptions, NoReason DEF Content, Fails, FailAfter, Reasons
  <1>2. CASE m = "success"
    BY <1>1, <1>2
  <1>3. CASE m = "deadSocket"
    BY <1>1, <1>3
  <1>4. CASE m = "silentHang"
    BY <1>1, <1>4
  <1>5. CASE m = "malformed"
    BY <1>1, <1>5
  <1>6. CASE m = "exhausted"
    BY <1>1, <1>6
  <1> QED BY <1>2, <1>3, <1>4, <1>5, <1>6, ModelNames

-----------------------------------------------------------------------------
\* The harness: streams and mocks.

HarnessEntry == [tokensBilled : Nat, truncatedRequests : Nat, lastReconciledAt : Nat,
                 driftFlag : BOOLEAN, providerTokens : [Upstreams -> Nat]]

\* The types of what the streams and the mocks change.
StreamTypes ==
    /\ model \in [Streams -> Models]
    /\ pc \in [Streams -> Upstreams \cup {"done", "cancelled"}]
    /\ mock \in [Streams -> [Upstreams -> {"none", "running", "over"}]]
    /\ body \in [Streams -> [reasons : SUBSET Reasons, truncated : BOOLEAN]]
    /\ cut \in [Streams -> SUBSET Upstreams]
    /\ entry \in HarnessEntry
    /\ usage \in [Upstreams -> Nat]

\* The stream left the first provider: because of a misfire, or as its scenario says.
FirstGone(s) ==
    /\ mock[s]["openai"] # "none"
    /\ "openai" \in cut[s] => body[s].reasons = {"silent_hang"}
    /\ "openai" \notin cut[s] => /\ Fails(OptionsOf(s, "openai"))
                                      /\ body[s].reasons = Scenarios[model[s]].failures

\* Where a stream can be, and what was billed for it: n.
AtFirst(s, n) ==
    /\ pc[s] = "openai" /\ mock[s]["openai"] = "none" /\ mock[s]["anthropic"] = "none"
    /\ body[s].reasons = {} /\ ~body[s].truncated /\ cut[s] = {} /\ n = 0
AtSecond(s, n) ==
    /\ pc[s] = "anthropic" /\ mock[s]["anthropic"] = "none" /\ FirstGone(s)
    /\ ~body[s].truncated /\ "anthropic" \notin cut[s] /\ n = 0
DoneAtFirst(s, n) ==
    /\ pc[s] = "done" /\ mock[s]["openai"] # "none" /\ mock[s]["anthropic"] = "none"
    /\ ~Fails(OptionsOf(s, "openai"))
    /\ body[s].reasons = {} /\ ~body[s].truncated /\ cut[s] = {}
    /\ n = Content(OptionsOf(s, "openai"))
DoneAtSecond(s, n) ==
    /\ pc[s] = "done" /\ mock[s]["anthropic"] # "none" /\ FirstGone(s)
    /\ body[s].truncated <=> "anthropic" \in cut[s] \/ Fails(OptionsOf(s, "anthropic"))
    /\ n <= Content(OptionsOf(s, "anthropic"))
    /\ "anthropic" \notin cut[s] => n = Content(OptionsOf(s, "anthropic"))
GaveUp(s, n) ==
    /\ pc[s] = "cancelled" /\ n = 0
    /\ \A p \in Upstreams \ cut[s] : mock[s][p] = "none" \/ Fails(OptionsOf(s, p))
StreamInv(s, n) == \/ AtFirst(s, n) \/ AtSecond(s, n) \/ DoneAtFirst(s, n) \/ DoneAtSecond(s, n)
                   \/ GaveUp(s, n)

\* What the streams billed at p, when amount is what each was billed, and what the
\* mock p counted.
BilledTo(amount, p) == [s \in Streams |-> IF BilledAt(s, p) THEN amount[s] ELSE 0]
CountedBy(p) == [s \in Streams |-> Counted(s, p)]

\* The ledger is the sum of what the streams were billed, a mock's usage that of what
\* it counted.
BillInv(amount) ==
    /\ \A s \in Streams : StreamInv(s, amount[s])
    /\ \A p \in Upstreams : entry.providerTokens[p] = SumFunctionOnSet(BilledTo(amount, p), Streams)
    /\ entry.tokensBilled = SumFunctionOnSet(amount, Streams)
    /\ entry.tokensBilled = entry.providerTokens["openai"] + entry.providerTokens["anthropic"]
UsageInv == \A p \in Upstreams : usage[p] = SumFunctionOnSet(CountedBy(p), Streams)
ChaosInv == StreamTypes /\ UsageInv /\ \E amount \in [Streams -> Nat] : BillInv(amount)

\* Counts are numbers; a stream that is not over is not billed.
LEMMA CountedType ==
    ASSUME StreamTypes, NEW s \in Streams, NEW p \in Upstreams
    PROVE  /\ Counted(s, p) \in Nat /\ OptionsOf(s, p) = At(model[s], p) /\ model[s] \in Models
           /\ Content(OptionsOf(s, p)) \in 0 .. 10
           /\ Charged(OptionsOf(s, p)) \in Nat
           /\ Charged(OptionsOf(s, p)) = IF Fails(OptionsOf(s, p)) THEN 0 ELSE Content(OptionsOf(s, p))
  <1>1. model[s] \in Models
    BY DEF StreamTypes
  <1>2. OptionsOf(s, p) = At(model[s], p)
    BY DEF OptionsOf, At
  <1>3. LET o == At(model[s], p) IN
           /\ Content(o) \in 0 .. 10
           /\ Charged(o) = IF Fails(o) THEN 0 ELSE Content(o)
    BY <1>1, MockFacts
  <1> QED BY <1>1, <1>2, <1>3 DEF Counted

\* The ledger entry after a call of RecordTerminal.
LEMMA RecordHarness ==
    ASSUME NEW e \in HarnessEntry, NEW p \in Upstreams, NEW n \in Nat, NEW t \in BOOLEAN
    PROVE  /\ RecordTerminal(e, p, n, t) \in HarnessEntry
           /\ RecordTerminal(e, p, n, t).tokensBilled = e.tokensBilled + n
           /\ \A q \in Upstreams : RecordTerminal(e, p, n, t).providerTokens[q] =
                                     e.providerTokens[q] + IF q = p THEN n ELSE 0
  <1> DEFINE m == IF n < 0 THEN 0 ELSE n
             b == e.tokensBilled + m
             tr == IF t THEN e.truncatedRequests + 1 ELSE e.truncatedRequests
             pt == [q \in DOMAIN e.providerTokens |-> IF q = p THEN e.providerTokens[q] + m
                                                               ELSE e.providerTokens[q]]
             x == [e EXCEPT !.tokensBilled = b, !.truncatedRequests = tr, !.providerTokens = pt]
  <1>0. RecordTerminal(e, p, n, t) = x
    BY Zenon DEF RecordTerminal
  <1>1. m = n
    OBVIOUS
  <1>2. /\ pt \in [Upstreams -> Nat]
        /\ \A q \in Upstreams : pt[q] = e.providerTokens[q] + IF q = p THEN n ELSE 0
    BY <1>1 DEF HarnessEntry
  <1>3. tr \in Nat
    BY DEF HarnessEntry
  <1>4. b \in Nat /\ b = e.tokensBilled + n
    BY <1>1 DEF HarnessEntry
  <1> HIDE DEF pt, tr, b
  <1>5. x \in HarnessEntry /\ x.tokensBilled = b /\ x.providerTokens = pt
    BY <1>2, <1>3, <1>4 DEF HarnessEntry
  <1> QED BY <1>0, <1>2, <1>4, <1>5

\* A step of stream t or of its mocks leaves the other streams alone.
OthersSame(t) ==
    /\ model' = model
    /\ \A s \in Streams \ {t} : /\ pc'[s] = pc[s] /\ mock'[s] = mock[s]
                                /\ body'[s] = body[s] /\ cut'[s] = cut[s]

\* What is said of a stream that is left alone stays true.
LEMMA OthersKeep ==
    ASSUME NEW t \in Streams, OthersSame(t), NEW s \in Streams \ {t}
    PROVE  /\ \A p \in Upstreams : OptionsOf(s, p)' = OptionsOf(s, p)
           /\ \A n \in Nat : StreamInv(s, n) => StreamInv(s, n)'
           /\ \A p \in Upstreams : BilledAt(s, p)' = BilledAt(s, p) /\ Counted(s, p)' = Counted(s, p)
  <1>1. /\ model' = model /\ pc'[s] = pc[s] /\ mock'[s] = mock[s]
        /\ body'[s] = body[s] /\ cut'[s] = cut[s]
    BY DEF OthersSame
  <1>2. \A p : OptionsOf(s, p)' = OptionsOf(s, p)
    BY <1>1 DEF OptionsOf
  <1>3. FirstGone(s)' = FirstGone(s)
    BY <1>1, <1>2 DEF FirstGone
  <1>4. ASSUME NEW n \in Nat, StreamInv(s, n) PROVE StreamInv(s, n)'
    BY <1>1, <1>2, <1>3, <1>4 DEF StreamInv, AtFirst, AtSecond, DoneAtFirst, DoneAtSecond, GaveUp
  <1>5. \A p \in Upstreams : BilledAt(s, p)' = BilledAt(s, p) /\ Counted(s, p)' = Counted(s, p)
    BY <1>1, <1>2 DEF BilledAt, Counted
  <1> QED BY <1>2, <1>4, <1>5

\* A step that bills nothing.
LEMMA NothingBilled ==
    ASSUME NEW t \in Streams, OthersSame(t), NEW amount \in [Streams -> Nat], BillInv(amount),
           entry' = entry, StreamInv(t, amount[t])',
           \A p \in Upstreams : BilledAt(t, p)' = BilledAt(t, p)
    PROVE  \E a \in [Streams -> Nat] : BillInv(a)'
  <1>1. \A s \in Streams : StreamInv(s, amount[s])'
    BY OthersKeep DEF BillInv
  <1>2. \A p \in Upstreams : BilledTo(amount, p)' = BilledTo(amount, p)
    BY OthersKeep DEF BilledTo
  <1> QED BY <1>1, <1>2 DEF BillInv

\* A step that ends stream t and bills it k tokens at provider p.
LEMMA StreamBilled ==
    ASSUME StreamTypes, NEW t \in Streams, OthersSame(t), NEW amount \in [Streams -> Nat], BillInv(amount),
           NEW p \in Upstreams, NEW k \in Nat, NEW tr \in BOOLEAN,
           pc[t] # "done", entry' = RecordTerminal(entry, p, k, tr), StreamInv(t, k)',
           \A q \in Upstreams : BilledAt(t, q)' <=> q = p
    PROVE  entry' \in HarnessEntry /\ \E a \in [Streams -> Nat] : BillInv(a)'
  <1> DEFINE x == RecordTerminal(entry, p, k, tr)
  <1>1. PICK a \in [Streams -> Nat] : a = [amount EXCEPT ![t] = k]
    OBVIOUS
  <1>2. IsFiniteSet(Streams)
    BY ChaosAssumption
  <1>3. amount[t] = 0
    BY DEF BillInv, StreamInv, AtFirst, AtSecond, DoneAtFirst, DoneAtSecond, GaveUp
  <1>4. /\ x \in HarnessEntry /\ x.tokensBilled = entry.tokensBilled + k
        /\ \A q \in Upstreams : x.providerTokens[q] = entry.providerTokens[q] + IF q = p THEN k ELSE 0
    <2>1. entry \in HarnessEntry
      BY DEF StreamTypes
    <2> QED BY <2>1, RecordHarness
  <1>5. \A s \in Streams : StreamInv(s, a[s])'
    BY <1>1, OthersKeep DEF BillInv
  <1>6. SumFunctionOnSet(a, Streams) = SumFunctionOnSet(amount, Streams) + k
    <2>1. SumFunctionOnSet(a, Streams) = SumFunctionOnSet(amount, Streams) + (a[t] - amount[t])
      <3>1. \A s \in Streams : a[s] \in Int /\ amount[s] \in Int
        OBVIOUS
      <3>2. \A s \in Streams \ {t} : a[s] = amount[s]
        BY <1>1
      <3> QED BY <1>2, <3>1, <3>2, SumUpdate
    <2>2. SumFunctionOnSet(amount, Streams) \in Int
      BY <1>2, SumType
    <2> QED BY <1>1, <1>3, <2>1, <2>2
  <1>7. ASSUME NEW q \in Upstreams
        PROVE  SumFunctionOnSet(BilledTo(a, q)', Streams) =
               SumFunctionOnSet(BilledTo(amount, q), Streams) + IF q = p THEN k ELSE 0
    <2> DEFINE f == BilledTo(amount, q)
               e == BilledTo(a, q)'
    <2>1. \A s \in Streams \ {t} : e[s] = f[s]
      BY <1>1, OthersKeep DEF BilledTo
    <2>2. \A s \in Streams : f[s] \in Int /\ e[s] \in Int
      BY <1>1 DEF BilledTo
    <2>3. f[t] = 0 /\ e[t] = IF q = p THEN k ELSE 0
      BY <1>1, <1>3 DEF BilledTo
    <2> HIDE DEF e, f
    <2>4. SumFunctionOnSet(e, Streams) = SumFunctionOnSet(f, Streams) + (e[t] - f[t])
      BY <1>2, <2>1, <2>2, SumUpdate
    <2>5. SumFunctionOnSet(f, Streams) \in Int
      BY <1>2, <2>2, SumType
    <2> QED BY <2>3, <2>4, <2>5 DEF e, f
  <1> HIDE DEF x
  <1>8. \A q \in Upstreams : entry'.providerTokens[q] = SumFunctionOnSet(BilledTo(a, q)', Streams)
    BY <1>4, <1>7 DEF BillInv, x
  <1>9. entry'.tokensBilled = SumFunctionOnSet(a, Streams)
    BY <1>4, <1>6 DEF BillInv, x
  <1>10. entry'.tokensBilled = entry'.providerTokens["openai"] + entry'.providerTokens["anthropic"]
    <2>1. /\ entry.tokensBilled \in Nat /\ entry.providerTokens["openai"] \in Nat
          /\ entry.providerTokens["anthropic"] \in Nat
      BY DEF StreamTypes, HarnessEntry, Upstreams
    <2>2. entry.tokensBilled = entry.providerTokens["openai"] + entry.providerTokens["anthropic"]
      BY DEF BillInv
    <2> QED BY <1>4, <2>1, <2>2 DEF x, Upstreams
  <1> QED BY <1>4, <1>5, <1>8, <1>9, <1>10 DEF BillInv, x

\* A step after which the mocks have counted the same.
LEMMA NothingCounted ==
    ASSUME NEW t \in Streams, OthersSame(t), UsageInv, usage' = usage,
           \A p \in Upstreams : Counted(t, p)' = Counted(t, p)
    PROVE  UsageInv'
  <1>1. \A p \in Upstreams : CountedBy(p)' = CountedBy(p)
    BY OthersKeep DEF CountedBy
  <1> QED BY <1>1 DEF UsageInv

\* The end of an attempt of stream t at p leaves its mock running, for the second
\* provider too if the first one is gone.
LEMMA AttemptEnds ==
    ASSUME StreamTypes, NEW amount \in [Streams -> Nat], BillInv(amount), NEW t \in Streams,
           NEW p \in Upstreams, pc[t] = p, MockGoesOn(t, p), model' = model
    PROVE  /\ mock' \in [Streams -> [Upstreams -> {"none", "running", "over"}]]
           /\ mock'[t][p] = "running" /\ \A q \in Upstreams \ {p} : mock'[t][q] = mock[t][q]
           /\ \A s \in Streams \ {t} : mock'[s] = mock[s]
           /\ mock[t][p] = "none" /\ mock[t]["anthropic"] = "none" /\ amount[t] = 0
           /\ p = "openai" => AtFirst(t, 0)
           /\ p = "anthropic" => AtSecond(t, 0)
           /\ \A q \in Upstreams : OptionsOf(t, q)' = OptionsOf(t, q) /\ Counted(t, q)' = Counted(t, q)
  <1>1. mock \in [Streams -> [Upstreams -> {"none", "running", "over"}]]
    BY DEF StreamTypes
  <1>2. /\ mock' \in [Streams -> [Upstreams -> {"none", "running", "over"}]]
        /\ mock'[t][p] = "running" /\ \A q \in Upstreams \ {p} : mock'[t][q] = mock[t][q]
        /\ \A s \in Streams \ {t} : mock'[s] = mock[s]
    BY <1>1 DEF MockGoesOn
  <1>3. StreamInv(t, amount[t])
    BY DEF BillInv
  <1>4. /\ mock[t][p] = "none" /\ mock[t]["anthropic"] = "none" /\ amount[t] = 0
        /\ p = "openai" => AtFirst(t, 0)
        /\ p = "anthropic" => AtSecond(t, 0)
    BY <1>3 DEF StreamInv, AtFirst, AtSecond, DoneAtFirst, DoneAtSecond, GaveUp, Upstreams
  <1>5. \A q \in Upstreams : OptionsOf(t, q)' = OptionsOf(t, q)
    BY DEF OptionsOf
  <1>6. \A q \in Upstreams : Counted(t, q)' = Counted(t, q)
    BY <1>2, <1>4, <1>5 DEF Counted
  <1> QED BY <1>2, <1>4, <1>5, <1>6

\* A failed attempt: failover, or the truncated stream is billed.  It failed as the
\* mock's options say, by a misfire, or because the client was gone.
LEMMA FailKeeps ==
    ASSUME ChaosInv, NEW t \in Streams, NEW p \in Upstreams, pc[t] = p, MockGoesOn(t, p),
           NEW n \in Nat, NEW why \in Reasons, n <= Content(OptionsOf(t, p)), Fail(t, p, n, why),
           \/ /\ cut' = cut /\ Fails(OptionsOf(t, p))
              /\ why = OptionsOf(t, p).failure /\ n = Content(OptionsOf(t, p))
           \/ /\ cut' = [cut EXCEPT ![t] = @ \cup {p}]
              /\ why = "silent_hang" \/ p = "anthropic",
           model' = model, usage' = usage
    PROVE  ChaosInv'
  <1>1. StreamTypes /\ UsageInv /\ \E amount \in [Streams -> Nat] : BillInv(amount)
    BY DEF ChaosInv
  <1>2. PICK amount \in [Streams -> Nat] : BillInv(amount)
    BY <1>1
  <1>3. /\ mock' \in [Streams -> [Upstreams -> {"none", "running", "over"}]]
        /\ mock'[t][p] = "running" /\ \A q \in Upstreams \ {p} : mock'[t][q] = mock[t][q]
        /\ \A s \in Streams \ {t} : mock'[s] = mock[s]
        /\ mock[t][p] = "none" /\ mock[t]["anthropic"] = "none" /\ amount[t] = 0
        /\ p = "openai" => AtFirst(t, 0)
        /\ p = "anthropic" => AtSecond(t, 0)
        /\ \A q \in Upstreams : OptionsOf(t, q)' = OptionsOf(t, q) /\ Counted(t, q)' = Counted(t, q)
    BY <1>1, <1>2, AttemptEnds
  <1>4. /\ cut' \in [Streams -> SUBSET Upstreams]
        /\ \A s \in Streams \ {t} : cut'[s] = cut[s]
        /\ \A q \in Upstreams \ {p} : q \in cut'[t] <=> q \in cut[t]
        /\ p \in cut[t] => p \in cut'[t]
    <2>1. cut \in [Streams -> SUBSET Upstreams]
      BY <1>1 DEF StreamTypes
    <2>2. CASE cut' = cut
      BY <2>1, <2>2
    <2>3. CASE cut' = [cut EXCEPT ![t] = @ \cup {p}]
      <3>1. cut'[t] = cut[t] \cup {p} /\ \A s \in Streams \ {t} : cut'[s] = cut[s]
        BY <2>1, <2>3
      <3>2. cut[t] \cup {p} \in SUBSET Upstreams
        BY <2>1
      <3>3. cut' \in [Streams -> SUBSET Upstreams]
        BY <2>1, <2>3, <3>2
      <3> QED BY <3>1, <3>3
    <2> QED BY <2>2, <2>3
  <1>5. \/ cut' = cut /\ Fails(OptionsOf(t, p)) /\ n = Content(OptionsOf(t, p))
        \/ p \in cut'[t] /\ (why = "silent_hang" \/ p = "anthropic")
    BY <1>1 DEF StreamTypes
  <1>6. /\ model[t] \in Models /\ OptionsOf(t, p) = At(model[t], p)
        /\ Content(OptionsOf(t, p)) \in 0 .. 10
    BY <1>1, CountedType
  <1>7. CASE p = "openai"
    <2>1. /\ pc' = [pc EXCEPT ![t] = "anthropic"]
          /\ body' = [body EXCEPT ![t].reasons = @ \cup {why}]
          /\ entry' = entry
      BY <1>7 DEF Fail
    <2>2. /\ pc' \in [Streams -> Upstreams \cup {"done", "cancelled"}] /\ pc'[t] = "anthropic"
          /\ \A s \in Streams \ {t} : pc'[s] = pc[s]
      BY <1>1, <2>1 DEF StreamTypes, Upstreams
    <2>3. /\ body' \in [Streams -> [reasons : SUBSET Reasons, truncated : BOOLEAN]]
          /\ body'[t].reasons = body[t].reasons \cup {why} /\ body'[t].truncated = body[t].truncated
          /\ \A s \in Streams \ {t} : body'[s] = body[s]
      <3> DEFINE R == [reasons : SUBSET Reasons, truncated : BOOLEAN]
                 x == [body[t] EXCEPT !.reasons = @ \cup {why}]
      <3>1. body \in [Streams -> R] /\ body[t] \in R
        BY <1>1 DEF StreamTypes
      <3>2. body' = [body EXCEPT ![t] = x]
        BY <2>1
      <3>3. x \in R /\ x.reasons = body[t].reasons \cup {why} /\ x.truncated = body[t].truncated
        BY <3>1
      <3> HIDE DEF R, x
      <3>4. body' \in [Streams -> R] /\ body'[t] = x /\ \A s \in Streams \ {t} : body'[s] = body[s]
        BY <3>1, <3>2, <3>3
      <3> QED BY <3>3, <3>4 DEF R
    <2>4. OthersSame(t)
      BY <1>3, <1>4, <2>2, <2>3 DEF OthersSame
    <2>5. StreamTypes'
      BY <1>1, <1>3, <1>4, <2>1, <2>2, <2>3 DEF StreamTypes
    <2>6. /\ body[t].reasons = {} /\ ~body[t].truncated /\ cut[t] = {}
      BY <1>3, <1>7 DEF AtFirst
    <2>7. FirstGone(t)'
      <3>1. why = OptionsOf(t, "openai").failure /\ cut' = cut /\ Fails(OptionsOf(t, "openai"))
            => Scenarios[model[t]].failures = {why}
        BY <1>6, <1>7, ScenarioFacts
      <3>2. body'[t].reasons = {why}
        BY <2>3, <2>6
      <3> QED BY <1>3, <1>4, <1>5, <1>7, <2>6, <3>1, <3>2 DEF FirstGone
    <2>8. AtSecond(t, amount[t])'
      <3>1. "anthropic" \notin cut'[t]
        BY <1>4, <1>7, <2>6 DEF Upstreams
      <3>2. mock'[t]["anthropic"] = "none"
        BY <1>3, <1>7 DEF Upstreams
      <3> QED BY <1>3, <2>2, <2>3, <2>6, <2>7, <3>1, <3>2 DEF AtSecond
    <2>9. \A q \in Upstreams : BilledAt(t, q)' = BilledAt(t, q)
      BY <1>7, <2>2 DEF BilledAt
    <2>10. \E a \in [Streams -> Nat] : BillInv(a)'
      BY <1>2, <2>1, <2>4, <2>8, <2>9, NothingBilled DEF StreamInv
    <2>11. UsageInv'
      BY <1>1, <1>3, <2>4, NothingCounted
    <2> QED BY <2>5, <2>10, <2>11 DEF ChaosInv
  <1>8. CASE p = "anthropic"
    <2>1. /\ pc' = [pc EXCEPT ![t] = "done"]
          /\ body' = [body EXCEPT ![t].truncated = TRUE]
          /\ entry' = RecordTerminal(entry, p, n, TRUE)
      BY <1>8 DEF Fail
    <2>2. /\ pc' \in [Streams -> Upstreams \cup {"done", "cancelled"}] /\ pc'[t] = "done"
          /\ \A s \in Streams \ {t} : pc'[s] = pc[s]
      BY <1>1, <2>1 DEF StreamTypes, Upstreams
    <2>3. /\ body' \in [Streams -> [reasons : SUBSET Reasons, truncated : BOOLEAN]]
          /\ body'[t].reasons = body[t].reasons /\ body'[t].truncated
          /\ \A s \in Streams \ {t} : body'[s] = body[s]
      <3> DEFINE R == [reasons : SUBSET Reasons, truncated : BOOLEAN]
                 x == [body[t] EXCEPT !.truncated = TRUE]
      <3>1. body \in [Streams -> R] /\ body[t] \in R
        BY <1>1 DEF StreamTypes
      <3>2. body' = [body EXCEPT ![t] = x]
        BY <2>1
      <3>3. x \in R /\ x.reasons = body[t].reasons /\ x.truncated
        BY <3>1
      <3> HIDE DEF R, x
      <3>4. body' \in [Streams -> R] /\ body'[t] = x /\ \A s \in Streams \ {t} : body'[s] = body[s]
        BY <3>1, <3>2, <3>3
      <3> QED BY <3>3, <3>4 DEF R
    <2>4. OthersSame(t)
      BY <1>3, <1>4, <2>2, <2>3 DEF OthersSame
    <2>6. FirstGone(t)
      BY <1>3, <1>8 DEF AtSecond
    <2>7. FirstGone(t)'
      <3>1. "openai" \in cut'[t] <=> "openai" \in cut[t]
        BY <1>4, <1>8 DEF Upstreams
      <3>2. mock'[t]["openai"] = mock[t]["openai"] /\ OptionsOf(t, "openai")' = OptionsOf(t, "openai")
        BY <1>3, <1>8 DEF Upstreams
      <3> QED BY <2>3, <2>6, <3>1, <3>2 DEF FirstGone
    <2>8. DoneAtSecond(t, n)'
      BY <1>3, <1>5, <1>8, <2>2, <2>3, <2>7 DEF DoneAtSecond
    <2>9. \A q \in Upstreams : BilledAt(t, q)' <=> q = p
      BY <1>3, <1>8, <2>2 DEF BilledAt, Upstreams
    <2>10. entry' \in HarnessEntry /\ \E a \in [Streams -> Nat] : BillInv(a)'
      BY <1>1, <1>2, <1>8, <2>1, <2>4, <2>8, <2>9, StreamBilled DEF StreamInv
    <2>5. StreamTypes'
      BY <1>1, <1>3, <1>4, <2>1, <2>2, <2>3, <2>10 DEF StreamTypes
    <2>11. UsageInv'
      BY <1>1, <1>3, <2>4, NothingCounted
    <2> QED BY <2>5, <2>10, <2>11 DEF ChaosInv
  <1> QED BY <1>7, <1>8 DEF Upstreams

\* An attempt that ran to [DONE] is billed with all its tokens.
LEMMA DoneKeeps ==
    ASSUME ChaosInv, NEW t \in Streams, NEW p \in Upstreams, pc[t] = p, MockGoesOn(t, p),
           ~Fails(OptionsOf(t, p)), pc' = [pc EXCEPT ![t] = "done"],
           entry' = RecordTerminal(entry, p, Content(OptionsOf(t, p)), FALSE),
           body' = body, model' = model, cut' = cut, usage' = usage
    PROVE  ChaosInv'
  <1>1. StreamTypes /\ UsageInv /\ \E amount \in [Streams -> Nat] : BillInv(amount)
    BY DEF ChaosInv
  <1>2. PICK amount \in [Streams -> Nat] : BillInv(amount)
    BY <1>1
  <1>3. /\ mock' \in [Streams -> [Upstreams -> {"none", "running", "over"}]]
        /\ mock'[t][p] = "running" /\ \A q \in Upstreams \ {p} : mock'[t][q] = mock[t][q]
        /\ \A s \in Streams \ {t} : mock'[s] = mock[s]
        /\ mock[t][p] = "none" /\ mock[t]["anthropic"] = "none"
        /\ p = "openai" => AtFirst(t, 0)
        /\ p = "anthropic" => AtSecond(t, 0)
        /\ \A q \in Upstreams : OptionsOf(t, q)' = OptionsOf(t, q) /\ Counted(t, q)' = Counted(t, q)
    BY <1>1, <1>2, AttemptEnds
  <1>4. PICK k \in Nat : k = Content(OptionsOf(t, p))
    BY <1>1, CountedType
  <1>5. /\ pc' \in [Streams -> Upstreams \cup {"done", "cancelled"}] /\ pc'[t] = "done"
        /\ \A s \in Streams \ {t} : pc'[s] = pc[s]
    BY <1>1 DEF StreamTypes, Upstreams
  <1>6. OthersSame(t)
    BY <1>3, <1>5 DEF OthersSame
  <1>7. StreamInv(t, k)' /\ \A q \in Upstreams : BilledAt(t, q)' <=> q = p
    <2>1. CASE p = "openai"
      <3>1. mock'[t]["anthropic"] = "none"
        BY <1>3, <2>1 DEF Upstreams
      <3>2. DoneAtFirst(t, k)'
        BY <1>3, <1>4, <1>5, <2>1, <3>1 DEF AtFirst, DoneAtFirst
      <3>3. \A q \in Upstreams : BilledAt(t, q)' <=> q = p
        BY <1>5, <2>1, <3>1 DEF BilledAt, Upstreams
      <3> QED BY <3>2, <3>3 DEF StreamInv
    <2>2. CASE p = "anthropic"
      <3>1. AtSecond(t, 0)
        BY <1>3, <2>2
      <3>2. mock'[t]["openai"] = mock[t]["openai"] /\ OptionsOf(t, "openai")' = OptionsOf(t, "openai")
        BY <1>3, <2>2 DEF Upstreams
      <3>3. FirstGone(t)'
        BY <3>1, <3>2 DEF FirstGone, AtSecond
      <3>4. DoneAtSecond(t, k)'
        BY <1>3, <1>4, <1>5, <2>2, <3>1, <3>3 DEF AtSecond, DoneAtSecond
      <3>5. \A q \in Upstreams : BilledAt(t, q)' <=> q = p
        BY <1>3, <1>5, <2>2 DEF BilledAt, Upstreams
      <3> QED BY <3>4, <3>5 DEF StreamInv
    <2> QED BY <2>1, <2>2 DEF Upstreams
  <1>8. pc[t] # "done"
    BY DEF Upstreams
  <1>9. entry' = RecordTerminal(entry, p, k, FALSE)
    BY <1>4
  <1>10. entry' \in HarnessEntry /\ \E a \in [Streams -> Nat] : BillInv(a)'
    BY <1>1, <1>2, <1>6, <1>7, <1>8, <1>9, StreamBilled
  <1>11. StreamTypes'
    BY <1>1, <1>3, <1>5, <1>10 DEF StreamTypes
  <1>12. UsageInv'
    BY <1>1, <1>3, <1>6, NothingCounted
  <1> QED BY <1>10, <1>11, <1>12 DEF ChaosInv

\* A stream whose client broke off is cancelled and not billed.
LEMMA CancelKeeps ==
    ASSUME ChaosInv, NEW t \in Streams, NEW p \in Upstreams, pc[t] = p,
           MockGoesOn(t, p) \/ mock' = mock, pc' = [pc EXCEPT ![t] = "cancelled"],
           cut' = [cut EXCEPT ![t] = @ \cup {p}],
           entry' = entry, body' = body, model' = model, usage' = usage
    PROVE  ChaosInv'
  <1>1. StreamTypes /\ UsageInv /\ \E amount \in [Streams -> Nat] : BillInv(amount)
    BY DEF ChaosInv
  <1>2. PICK amount \in [Streams -> Nat] : BillInv(amount)
    BY <1>1
  <1>3. /\ mock[t][p] = "none" /\ amount[t] = 0
        /\ p = "openai" => AtFirst(t, 0)
        /\ p = "anthropic" => AtSecond(t, 0)
    <2>1. StreamInv(t, amount[t])
      BY <1>2 DEF BillInv
    <2> QED BY <2>1 DEF StreamInv, AtFirst, AtSecond, DoneAtFirst, DoneAtSecond, GaveUp, Upstreams
  <1>4. /\ mock' \in [Streams -> [Upstreams -> {"none", "running", "over"}]]
        /\ mock'[t][p] \in {"none", "running"} /\ \A q \in Upstreams \ {p} : mock'[t][q] = mock[t][q]
        /\ \A s \in Streams \ {t} : mock'[s] = mock[s]
    <2>1. mock \in [Streams -> [Upstreams -> {"none", "running", "over"}]]
      BY <1>1 DEF StreamTypes
    <2>2. CASE MockGoesOn(t, p)
      BY <2>1, <2>2 DEF MockGoesOn
    <2>3. CASE mock' = mock
      BY <1>3, <2>1, <2>3
    <2> QED BY <2>2, <2>3
  <1>5. /\ pc' \in [Streams -> Upstreams \cup {"done", "cancelled"}] /\ pc'[t] = "cancelled"
        /\ \A s \in Streams \ {t} : pc'[s] = pc[s]
    BY <1>1 DEF StreamTypes, Upstreams
  <1>6. /\ cut' \in [Streams -> SUBSET Upstreams] /\ cut'[t] = cut[t] \cup {p}
        /\ \A s \in Streams \ {t} : cut'[s] = cut[s]
    <2>1. cut \in [Streams -> SUBSET Upstreams] /\ cut[t] \cup {p} \in SUBSET Upstreams
      BY <1>1 DEF StreamTypes
    <2> QED BY <2>1
  <1>7. OthersSame(t)
    BY <1>4, <1>5, <1>6 DEF OthersSame
  <1>8. \A q \in Upstreams : OptionsOf(t, q)' = OptionsOf(t, q)
    BY DEF OptionsOf
  <1>9. \A q \in Upstreams : Counted(t, q)' = Counted(t, q)
    BY <1>3, <1>4, <1>8 DEF Counted
  <1>10. GaveUp(t, 0)'
    <2>1. ASSUME NEW q \in Upstreams, q \notin cut'[t]
          PROVE  mock'[t][q] = "none" \/ Fails(OptionsOf(t, q))
      <3>1. q # p /\ q \notin cut[t] /\ mock'[t][q] = mock[t][q]
        BY <1>4, <1>6, <2>1
      <3>2. CASE p = "openai"
        BY <1>3, <3>1, <3>2 DEF AtFirst, Upstreams
      <3>3. CASE p = "anthropic"
        BY <1>3, <3>1, <3>3 DEF AtSecond, FirstGone, Upstreams
      <3> QED BY <3>2, <3>3 DEF Upstreams
    <2> QED BY <1>5, <1>8, <2>1 DEF GaveUp
  <1>11. \A q \in Upstreams : BilledAt(t, q)' = BilledAt(t, q)
    BY <1>5 DEF BilledAt, Upstreams
  <1>12. \E a \in [Streams -> Nat] : BillInv(a)'
    BY <1>2, <1>3, <1>7, <1>10, <1>11, NothingBilled DEF StreamInv
  <1>13. StreamTypes'
    BY <1>1, <1>4, <1>5, <1>6 DEF StreamTypes
  <1>14. UsageInv'
    BY <1>1, <1>7, <1>9, NothingCounted
  <1> QED BY <1>12, <1>13, <1>14 DEF ChaosInv

\* A mock that is over has counted its stream, once.
LEMMA MockEndsKeeps ==
    ASSUME ChaosInv, NEW t \in Streams, NEW p \in Upstreams, MockEnds(t, p)
    PROVE  ChaosInv'
  <1>1. StreamTypes /\ UsageInv /\ \E amount \in [Streams -> Nat] : BillInv(amount)
    BY DEF ChaosInv
  <1>2. PICK amount \in [Streams -> Nat] : BillInv(amount)
    BY <1>1
  <1>3. /\ mock[t][p] = "running" /\ mock' = [mock EXCEPT ![t][p] = "over"]
        /\ usage' = [usage EXCEPT ![p] = @ + Charged(OptionsOf(t, p))]
        /\ pc' = pc /\ model' = model /\ body' = body /\ cut' = cut /\ entry' = entry
    BY DEF MockEnds
  <1>4. mock \in [Streams -> [Upstreams -> {"none", "running", "over"}]]
    BY <1>1 DEF StreamTypes
  <1>5. /\ mock' \in [Streams -> [Upstreams -> {"none", "running", "over"}]]
        /\ mock'[t][p] = "over" /\ \A q \in Upstreams \ {p} : mock'[t][q] = mock[t][q]
        /\ \A s \in Streams \ {t} : mock'[s] = mock[s]
    BY <1>3, <1>4
  <1>6. \A q \in Upstreams : (mock'[t][q] = "none") <=> (mock[t][q] = "none")
    BY <1>3, <1>5
  <1>7. "openai" \in Upstreams /\ "anthropic" \in Upstreams
    BY DEF Upstreams
  <1>8. OthersSame(t)
    BY <1>3, <1>5 DEF OthersSame
  <1>9. \A q : OptionsOf(t, q)' = OptionsOf(t, q)
    BY <1>3 DEF OptionsOf
  <1>10. StreamInv(t, amount[t])'
    <2>1. FirstGone(t)' = FirstGone(t)
      BY <1>3, <1>6, <1>7, <1>9 DEF FirstGone
    <2>2. StreamInv(t, amount[t])
      BY <1>2 DEF BillInv
    <2> QED BY <1>3, <1>6, <1>7, <1>9, <2>1, <2>2
            DEF StreamInv, AtFirst, AtSecond, DoneAtFirst, DoneAtSecond, GaveUp
  <1>11. \A q \in Upstreams : BilledAt(t, q)' = BilledAt(t, q)
    BY <1>3, <1>6, <1>7 DEF BilledAt
  <1>12. \E a \in [Streams -> Nat] : BillInv(a)'
    BY <1>2, <1>3, <1>8, <1>10, <1>11, NothingBilled
  <1>13. Charged(OptionsOf(t, p)) \in Nat
    BY <1>1, CountedType
  <1>14. usage \in [Upstreams -> Nat]
    BY <1>1 DEF StreamTypes
  <1>15. usage' \in [Upstreams -> Nat]
    BY <1>3, <1>13, <1>14
  <1>16. StreamTypes'
    BY <1>1, <1>3, <1>5, <1>15 DEF StreamTypes
  <1>17. ASSUME NEW q \in Upstreams PROVE usage'[q] = SumFunctionOnSet(CountedBy(q)', Streams)
    <2> DEFINE f == CountedBy(q)
               e == CountedBy(q)'
    <2>1. \A s \in Streams : f[s] = Counted(s, q) /\ e[s] = Counted(s, q)'
      BY DEF CountedBy
    <2>2. \A s \in Streams \ {t} : e[s] = f[s]
      BY <1>8, <2>1, OthersKeep
    <2>3. \A s \in Streams : f[s] \in Int
      BY <1>1, <2>1, CountedType
    <2>4. f[t] \in Nat /\ e[t] = f[t] + IF q = p THEN Charged(OptionsOf(t, p)) ELSE 0
      BY <1>1, <1>3, <1>5, <1>9, <1>13, <2>1, CountedType DEF Counted
    <2>5. usage[q] = SumFunctionOnSet(f, Streams)
      BY <1>1 DEF UsageInv
    <2>6. usage'[q] = usage[q] + IF q = p THEN Charged(OptionsOf(t, p)) ELSE 0
      BY <1>3, <1>13, <1>14
    <2> HIDE DEF e, f
    <2>7. \A s \in Streams : e[s] \in Int
      BY <1>13, <2>2, <2>3, <2>4
    <2>8. IsFiniteSet(Streams)
      BY ChaosAssumption
    <2>9. SumFunctionOnSet(e, Streams) = SumFunctionOnSet(f, Streams) + (e[t] - f[t])
      BY <2>2, <2>3, <2>7, <2>8, SumUpdate
    <2>10. usage'[q] = SumFunctionOnSet(e, Streams)
      BY <1>13, <1>14, <2>4, <2>5, <2>6, <2>9
    <2> QED BY <2>10 DEF e
  <1>18. UsageInv'
    BY <1>17 DEF UsageInv
  <1> QED BY <1>12, <1>16, <1>18 DEF ChaosInv

\* The state of the streams, the mocks and the ledger.
streamVars == <<pc, model, mock, body, cut, entry, usage>>

\* A step that changes no stream and no mock.
LEMMA StreamsSame ==
    ASSUME ChaosInv, UNCHANGED streamVars
    PROVE  ChaosInv'
  <1> USE DEF streamVars
  <1>1. StreamTypes'
    BY DEF ChaosInv, StreamTypes
  <1>2. \A s, p : OptionsOf(s, p)' = OptionsOf(s, p)
    BY DEF OptionsOf
  <1>3. UsageInv'
    <2>1. \A p \in Upstreams : CountedBy(p)' = CountedBy(p)
      BY <1>2 DEF CountedBy, Counted
    <2> QED BY <2>1 DEF ChaosInv, UsageInv
  <1>4. PICK amount \in [Streams -> Nat] : BillInv(amount)
    BY DEF ChaosInv
  <1>5. \A s \in Streams : StreamInv(s, amount[s])'
    <2>1. TAKE s \in Streams
    <2>2. FirstGone(s)' = FirstGone(s)
      BY <1>2 DEF FirstGone
    <2>3. StreamInv(s, amount[s])
      BY <1>4 DEF BillInv
    <2> QED BY <1>2, <2>2, <2>3 DEF StreamInv, AtFirst, AtSecond, DoneAtFirst, DoneAtSecond, GaveUp
  <1>6. \A p \in Upstreams : BilledTo(amount, p)' = BilledTo(amount, p)
    BY DEF BilledTo, BilledAt
  <1>7. BillInv(amount)'
    BY <1>4, <1>5, <1>6 DEF BillInv
  <1> QED BY <1>1, <1>3, <1>7 DEF ChaosInv

\* The first state: no stream billed, nothing counted.
LEMMA InitChaos == ChaosInit => ChaosInv
  <1> SUFFICES ASSUME ChaosInit PROVE ChaosInv
    OBVIOUS
  <1>1. entry \in HarnessEntry /\ entry.tokensBilled = 0 /\ \A p \in Upstreams : entry.providerTokens[p] = 0
    BY DEF ChaosInit, NewEntry, HarnessEntry
  <1>2. StreamTypes
    BY <1>1 DEF ChaosInit, StreamTypes, Upstreams
  <1>3. IsFiniteSet(Streams)
    BY ChaosAssumption
  <1>4. UsageInv
    <2>1. ASSUME NEW p \in Upstreams PROVE usage[p] = SumFunctionOnSet(CountedBy(p), Streams)
      <3>1. usage[p] = 0 /\ \A s \in Streams : CountedBy(p)[s] = 0
        BY DEF ChaosInit, CountedBy, Counted
      <3> QED BY <1>3, <3>1, SumZero
    <2> QED BY <2>1 DEF UsageInv
  <1>5. PICK amount \in [Streams -> Nat] : amount = [s \in Streams |-> 0]
    OBVIOUS
  <1>6. \A s \in Streams : StreamInv(s, amount[s])
    BY <1>5 DEF ChaosInit, StreamInv, AtFirst, Upstreams
  <1>7. SumFunctionOnSet(amount, Streams) = 0
    BY <1>3, <1>5, SumZero
  <1>8. ASSUME NEW p \in Upstreams PROVE SumFunctionOnSet(BilledTo(amount, p), Streams) = 0
    <2>1. \A s \in Streams : BilledTo(amount, p)[s] = 0
      BY <1>5 DEF BilledTo
    <2> QED BY <1>3, <2>1, SumZero
  <1>9. BillInv(amount)
    BY <1>1, <1>6, <1>7, <1>8 DEF BillInv, Upstreams
  <1> QED BY <1>2, <1>4, <1>9 DEF ChaosInv

\* Every step keeps the invariant.
LEMMA NextChaos == ChaosInv /\ [ChaosNext]_chaosVars => ChaosInv'
  <1> SUFFICES ASSUME ChaosInv, [ChaosNext]_chaosVars PROVE ChaosInv'
    OBVIOUS
  <1>0. StreamTypes
    BY DEF ChaosInv
  <1>1. ASSUME NEW t \in Streams, Scripted(t) PROVE ChaosInv'
    <2>1. PICK p \in Upstreams : p = pc[t]
      BY <1>1 DEF Scripted
    <2>2. /\ MockGoesOn(t, p) /\ model' = model /\ cut' = cut /\ usage' = usage
          /\ \/ /\ Fails(OptionsOf(t, p))
                /\ Fail(t, p, Content(OptionsOf(t, p)), OptionsOf(t, p).failure)
             \/ /\ ~Fails(OptionsOf(t, p))
                /\ pc' = [pc EXCEPT ![t] = "done"]
                /\ entry' = RecordTerminal(entry, p, Content(OptionsOf(t, p)), FALSE)
                /\ body' = body
      BY <1>1, <2>1 DEF Scripted
    <2>3. PICK n \in Nat : n = Content(OptionsOf(t, p))
      BY <1>0, CountedType
    <2>4. CASE Fails(OptionsOf(t, p))
      <3>1. PICK why \in Reasons : why = OptionsOf(t, p).failure
        <4>1. OptionsOf(t, p).failure \in Reasons
          BY <1>0, <2>4, CountedType, MockFacts
        <4> QED BY <4>1
      <3>2. Fail(t, p, n, why)
        BY <2>2, <2>3, <2>4, <3>1
      <3> QED BY <2>1, <2>2, <2>3, <2>4, <3>1, <3>2, FailKeeps
    <2>5. CASE ~Fails(OptionsOf(t, p))
      BY <2>1, <2>2, <2>5, DoneKeeps
    <2> QED BY <2>4, <2>5
  <1>2. ASSUME NEW t \in Streams, NEW n \in 0 .. 10, Misfire(t, n) PROVE ChaosInv'
    <2>1. PICK p \in Upstreams : p = pc[t]
      BY <1>2 DEF Misfire
    <2>2. /\ MockGoesOn(t, p) /\ model' = model /\ usage' = usage
          /\ n \in 0 .. Content(OptionsOf(t, p)) /\ Fail(t, p, n, "silent_hang")
          /\ cut' = [cut EXCEPT ![t] = @ \cup {p}]
      BY <1>2, <2>1 DEF Misfire
    <2>3. n \in Nat /\ n <= Content(OptionsOf(t, p)) /\ "silent_hang" \in Reasons
      BY <2>2 DEF Reasons
    <2> QED BY <2>1, <2>2, <2>3, FailKeeps
  <1>3. ASSUME NEW t \in Streams, NEW n \in 0 .. 10, StreamError(t, n) PROVE ChaosInv'
    <2>1. CASE UNCHANGED <<pc, mock, body, cut, entry>>
      <3>1. UNCHANGED streamVars
        BY <1>3, <2>1 DEF StreamError, streamVars
      <3> QED BY <3>1, StreamsSame
    <2>2. CASE /\ pc[t] \in Upstreams /\ pc' = [pc EXCEPT ![t] = "cancelled"]
               /\ cut' = [cut EXCEPT ![t] = @ \cup {pc[t]}]
               /\ MockGoesOn(t, pc[t]) \/ UNCHANGED mock
               /\ UNCHANGED <<body, entry>>
      <3>1. PICK p \in Upstreams : p = pc[t]
        BY <2>2
      <3>2. model' = model /\ usage' = usage
        BY <1>3 DEF StreamError
      <3> QED BY <2>2, <3>1, <3>2, CancelKeeps
    <2>3. CASE /\ pc[t] = "anthropic" /\ n \in 0 .. Content(OptionsOf(t, pc[t]))
               /\ Fail(t, pc[t], n, "dead_socket") /\ MockGoesOn(t, pc[t])
               /\ cut' = [cut EXCEPT ![t] = @ \cup {pc[t]}]
      <3>1. PICK p \in Upstreams : p = pc[t] /\ p = "anthropic"
        BY <2>3 DEF Upstreams
      <3>2. model' = model /\ usage' = usage
        BY <1>3 DEF StreamError
      <3>3. n \in Nat /\ n <= Content(OptionsOf(t, p)) /\ "dead_socket" \in Reasons
        BY <2>3, <3>1 DEF Reasons
      <3> QED BY <2>3, <3>1, <3>2, <3>3, FailKeeps
    <2> QED BY <1>3, <2>1, <2>2, <2>3 DEF StreamError
  <1>4. CASE Harness \/ Ended \/ UNCHANGED chaosVars
    <2>1. UNCHANGED streamVars
      BY <1>4 DEF Harness, Wait, StartRun, Compare, RunFails, Report, Ended, chaosVars, streamVars
    <2> QED BY <2>1, StreamsSame
  <1> QED BY <1>1, <1>2, <1>3, <1>4, MockEndsKeeps DEF ChaosNext, Stream, Mocks

-----------------------------------------------------------------------------
\* The harness: its runs and its samples.

\* It reconciles only when every stream is over, without an error, and every provider asked costs at
\* most one sample.
RunInv ==
    /\ harness \in {"streams", "reconcile", "reported", "failed"}
    /\ harness \in {"reconcile", "reported"} => errs = {} /\ \A s \in Streams : pc[s] = "done"
    /\ errs \subseteq Streams /\ \A s \in Streams : pc[s] = "cancelled" => s \in errs
    /\ run \in [left : 0 .. Runs, todo : SUBSET Upstreams]
    /\ samples \in Seq(Int)
    /\ Len(samples) + Cardinality(run.todo) + 2 * run.left <= 2 * Runs

\* There are two providers.
LEMMA TwoUpstreams ==
    /\ IsFiniteSet(Upstreams) /\ Cardinality(Upstreams) = 2
    /\ \A T \in SUBSET Upstreams : IsFiniteSet(T) /\ Cardinality(T) \in Nat /\ Cardinality(T) <= 2
  <1>1. IsFiniteSet({"openai"}) /\ Cardinality({"openai"}) = 1
    BY FS_Singleton
  <1>2. Upstreams = {"openai"} \cup {"anthropic"} /\ "anthropic" \notin {"openai"}
    BY DEF Upstreams
  <1>3. IsFiniteSet(Upstreams) /\ Cardinality(Upstreams) = 2
    BY <1>1, <1>2, FS_AddElement
  <1> QED BY <1>3, FS_Subset, FS_CardinalityType

\* The first state of the harness.
LEMMA InitRun == ChaosInit => RunInv
  <1> SUFFICES ASSUME ChaosInit PROVE RunInv
    OBVIOUS
  <1>1. Runs \in Nat
    BY ChaosAssumption
  <1>2. Cardinality({}) = 0
    BY FS_EmptySet
  <1>3. run.left = Runs /\ run.todo = {} /\ run \in [left : 0 .. Runs, todo : SUBSET Upstreams]
    BY <1>1 DEF ChaosInit
  <1>4. samples \in Seq(Int) /\ Len(samples) = 0
    BY DEF ChaosInit
  <1>5. harness = "streams" /\ errs = {}
    BY DEF ChaosInit
  <1>6. \A s \in Streams : pc[s] # "cancelled"
    BY DEF ChaosInit
  <1> QED BY <1>1, <1>2, <1>3, <1>4, <1>5, <1>6 DEF RunInv

\* Every step keeps it.
LEMMA NextRun == ChaosInv /\ RunInv /\ [ChaosNext]_chaosVars => RunInv'
  <1> SUFFICES ASSUME ChaosInv, RunInv, [ChaosNext]_chaosVars PROVE RunInv'
    OBVIOUS
  <1>0. /\ Runs \in Nat /\ run.left \in 0 .. Runs /\ run.todo \in SUBSET Upstreams
        /\ samples \in Seq(Int) /\ Len(samples) \in Nat
        /\ Len(samples) + Cardinality(run.todo) + 2 * run.left <= 2 * Runs
    BY ChaosAssumption DEF RunInv
  <1>1. ASSUME NEW t \in Streams, harness \notin {"reconcile", "reported"},
               UNCHANGED <<run, samples, harness>>, errs' \in {errs, errs \cup {t}},
               \A s \in Streams \ {t} : pc'[s] = pc[s],
               pc'[t] = "cancelled" => t \in errs'
        PROVE  RunInv'
    <2>1. errs' \subseteq Streams /\ errs \subseteq errs'
      BY <1>1 DEF RunInv
    <2>2. \A s \in Streams : pc'[s] = "cancelled" => s \in errs'
      BY <1>1, <2>1 DEF RunInv
    <2> QED BY <1>1, <2>1, <2>2 DEF RunInv
  <1>2. ASSUME NEW t \in Streams, Stream(t) PROVE RunInv'
    <2>1. pc[t] \in Upstreams /\ UNCHANGED <<run, samples, harness, errs>>
      BY <1>2 DEF Stream, Scripted, Misfire
    <2>2. PICK w \in {"anthropic", "done"} : pc' = [pc EXCEPT ![t] = w]
      BY <1>2 DEF Stream, Scripted, Misfire, Fail
    <2>3. pc \in [Streams -> Upstreams \cup {"done", "cancelled"}]
      BY DEF ChaosInv, StreamTypes
    <2>4. harness \notin {"reconcile", "reported"}
      BY <2>1 DEF RunInv, Upstreams
    <2>5. pc'[t] # "cancelled" /\ \A s \in Streams \ {t} : pc'[s] = pc[s]
      BY <2>2, <2>3
    <2> QED BY <1>1, <2>1, <2>4, <2>5
  <1>3. ASSUME NEW t \in Streams, NEW n \in 0 .. 10, StreamError(t, n) PROVE RunInv'
    <2>1. harness = "streams" /\ errs' = errs \cup {t} /\ UNCHANGED <<run, samples, harness>>
      BY <1>3 DEF StreamError
    <2>2. pc \in [Streams -> Upstreams \cup {"done", "cancelled"}]
      BY DEF ChaosInv, StreamTypes
    <2>3. pc' = pc \/ \E w \in {"anthropic", "done", "cancelled"} : pc' = [pc EXCEPT ![t] = w]
      BY <1>3 DEF StreamError, Fail
    <2>4. \A s \in Streams \ {t} : pc'[s] = pc[s]
      BY <2>2, <2>3
    <2> QED BY <1>1, <2>1, <2>4
  <1>4. CASE Mocks \/ Ended \/ UNCHANGED chaosVars
    <2>1. UNCHANGED <<pc, errs, run, samples, harness>>
      BY <1>4 DEF Mocks, MockEnds, Ended, chaosVars
    <2> QED BY <2>1 DEF RunInv
  <1>5. CASE Wait
    BY <1>5 DEF Wait, RunInv
  <1>6. ASSUME NEW p \in Upstreams, RunFails(p) PROVE RunInv'
    BY <1>6 DEF RunFails, RunInv
  <1>7. CASE Report
    BY <1>7 DEF Report, RunInv
  <1>8. CASE StartRun
    <2> DEFINE todo == {p \in Upstreams : entry.providerTokens[p] > 0}
    <2>1. /\ harness' = harness /\ pc' = pc /\ errs' = errs /\ samples' = samples /\ run.todo = {} /\ run.left > 0
          /\ run' = [left |-> run.left - 1, todo |-> todo]
      BY <1>8 DEF StartRun
    <2>2. todo \in SUBSET Upstreams /\ Cardinality(todo) \in Nat /\ Cardinality(todo) <= 2
      BY TwoUpstreams
    <2> HIDE DEF todo
    <2>3. run'.left = run.left - 1 /\ run'.todo = todo /\ run' \in [left : 0 .. Runs, todo : SUBSET Upstreams]
      BY <1>0, <2>1, <2>2
    <2>4. Cardinality(run.todo) = 0
      BY <2>1, FS_EmptySet
    <2>5. Len(samples) + Cardinality(run'.todo) + 2 * run'.left <= 2 * Runs
      BY SMTT(40), <1>0, <2>2, <2>3, <2>4
    <2> QED BY <2>1, <2>3, <2>5 DEF RunInv
  <1>9. ASSUME NEW p \in Upstreams, Compare(p) PROVE RunInv'
    <2> DEFINE d == Drift(entry.providerTokens[p], Reported(usage[p], Server[p].offsetPct))
    <2>1. /\ harness' = harness /\ pc' = pc /\ errs' = errs /\ p \in run.todo
          /\ run' = [run EXCEPT !.todo = @ \ {p}] /\ samples' = Sample(samples, d)
      BY <1>9 DEF Compare
    <2>2. entry.providerTokens[p] \in Nat /\ usage[p] \in Nat
      BY DEF ChaosInv, StreamTypes, HarnessEntry
    <2>3. Server[p].offsetPct \in Nat
      BY DEF Server, Upstreams
    <2>4. Reported(usage[p], Server[p].offsetPct) \in Int
      <3>1. PICK o \in Nat : o = Server[p].offsetPct
        BY <2>3
      <3>2. usage[p] * o \in Int
        BY <2>2
      <3> QED BY <2>2, <3>1, <3>2 DEF Reported
    <2>5. d \in Int
      <3>1. PICK r \in Int : r = Reported(usage[p], Server[p].offsetPct)
        BY <2>4
      <3>2. Drift(entry.providerTokens[p], r) \in Int
        BY <2>2, <3>1 DEF Drift
      <3> QED BY <3>1, <3>2
    <2> HIDE DEF d
    <2>6. samples' \in Seq(Int) /\ Len(samples') <= Len(samples) + 1 /\ Len(samples') \in Nat
      BY <1>0, <2>1, <2>5 DEF Sample
    <2>7. /\ run' \in [left : 0 .. Runs, todo : SUBSET Upstreams]
          /\ run'.left = run.left /\ run'.todo = run.todo \ {p}
      BY <2>1 DEF RunInv
    <2>8. Cardinality(run.todo \ {p}) = Cardinality(run.todo) - 1 /\ Cardinality(run.todo) \in Nat
      BY <1>0, <2>1, TwoUpstreams, FS_RemoveElement
    <2>9. Len(samples') + Cardinality(run'.todo) + 2 * run'.left <= 2 * Runs
      BY SMTT(40), <1>0, <2>6, <2>7, <2>8
    <2> QED BY <2>1, <2>6, <2>7, <2>9 DEF RunInv
  <1> QED BY <1>2, <1>3, <1>4, <1>5, <1>6, <1>7, <1>8, <1>9 DEF ChaosNext, Harness

\* The invariant of the harness, throughout.
LEMMA ChaosAlways == ChaosSpec => [](ChaosInv /\ RunInv)
  <1>1. ChaosInit => ChaosInv /\ RunInv
    BY InitChaos, InitRun
  <1>2. (ChaosInv /\ RunInv) /\ [ChaosNext]_chaosVars => (ChaosInv /\ RunInv)'
    BY NextChaos, NextRun
  <1> QED BY <1>1, <1>2, PTL DEF ChaosSpec

\* The samples of a harness run are drifts as Apply took them: Percentile gives the
\* nearest rank for every one of them.
THEOREM PercentilesAreNearestRanks == ChaosSpec => []PercentileIsNearestRank
  <1>1. RunInv => PercentileIsNearestRank
    <2> SUFFICES ASSUME RunInv, samples # <<>>, NEW pct \in {0, 1, 50, 51, 95, 99, 100}
                 PROVE  LET enough == {v \in ToSet(samples) :
                              Cardinality({i \in DOMAIN samples : samples[i] <= v}) * 100 >= pct * Len(samples)}
                        IN  /\ Percentile(samples, pct) \in enough
                            /\ \A v \in enough : Percentile(samples, pct) <= v
      BY DEF PercentileIsNearestRank
    <2>1. samples \in Seq(Int) /\ pct \in Percentages
      BY DEF RunInv, Percentages
    <2> QED BY <2>1, NearestRank DEF AtMost
  <1> QED BY <1>1, ChaosAlways, PTL

\* What a mock counted for a stream that was not billed there in full, and what a
\* stream was billed that was.
LEMMA StreamCounts ==
    ASSUME StreamTypes, NEW s \in Streams, NEW n \in Nat, StreamInv(s, n), NEW p \in Upstreams
    PROVE  /\ mock[s][p] # "over" => Counted(s, p) = 0
           /\ p \notin cut[s] /\ ~(BilledAt(s, p) /\ ~body[s].truncated) => Counted(s, p) = 0
           /\ BilledAt(s, p) /\ ~body[s].truncated =>
                 mock[s][p] # "none" /\ p \notin cut[s] /\ n = Charged(OptionsOf(s, p))
  <1>1. /\ Charged(OptionsOf(s, p)) = IF Fails(OptionsOf(s, p)) THEN 0 ELSE Content(OptionsOf(s, p))
        /\ Content(OptionsOf(s, p)) \in 0 .. 10
    BY CountedType
  <1>2. mock[s][p] # "over" => Counted(s, p) = 0
    BY DEF Counted
  <1>3. Fails(OptionsOf(s, p)) => Counted(s, p) = 0
    BY <1>1 DEF Counted
  <1>4. CASE GaveUp(s, n)
    BY <1>2, <1>3, <1>4 DEF GaveUp, BilledAt
  <1>5. CASE p = "openai"
    <2>1. CASE AtFirst(s, n)
      BY <1>2, <1>5, <2>1 DEF AtFirst, BilledAt
    <2>2. CASE AtSecond(s, n)
      BY <1>2, <1>3, <1>5, <2>2 DEF AtSecond, FirstGone, BilledAt
    <2>3. CASE DoneAtFirst(s, n)
      BY <1>1, <1>2, <1>5, <2>3 DEF DoneAtFirst, BilledAt
    <2>4. CASE DoneAtSecond(s, n)
      BY <1>2, <1>3, <1>5, <2>4 DEF DoneAtSecond, FirstGone, BilledAt
    <2> QED BY <2>1, <2>2, <2>3, <2>4, <1>4 DEF StreamInv
  <1>6. CASE p = "anthropic"
    <2>1. CASE AtFirst(s, n)
      BY <1>2, <1>6, <2>1 DEF AtFirst, BilledAt
    <2>2. CASE AtSecond(s, n)
      BY <1>2, <1>6, <2>2 DEF AtSecond, BilledAt
    <2>3. CASE DoneAtFirst(s, n)
      BY <1>2, <1>6, <2>3 DEF DoneAtFirst, BilledAt
    <2>4. CASE DoneAtSecond(s, n)
      BY <1>1, <1>2, <1>3, <1>6, <2>4 DEF DoneAtSecond, BilledAt
    <2> QED BY <2>1, <2>2, <2>3, <2>4, <1>4 DEF StreamInv
  <1> QED BY <1>5, <1>6 DEF Upstreams

\* The ledger and the providers' usage differ by truncated streams, by usage still to
\* come and by what the providers counted for streams they lost: at every moment, for
\* any number of streams, misfires and broken connections.
THEOREM DriftIsExplained == ChaosSpec => []DriftExplained
  <1>1. ChaosInv /\ RunInv => ChaosTypeOK
    <2> SUFFICES ASSUME ChaosInv, RunInv PROVE ChaosTypeOK
      OBVIOUS
    <2>1. /\ pc \in [Streams -> Upstreams \cup {"done", "cancelled"}]
          /\ \A s \in Streams, p \in Upstreams : mock[s][p] \in {"none", "running", "over"}
          /\ \A s \in Streams : body[s].reasons \subseteq Reasons /\ cut[s] \subseteq Upstreams
      BY DEF ChaosInv, StreamTypes
    <2>2. entry.tokensBilled = entry.providerTokens["openai"] + entry.providerTokens["anthropic"]
      BY DEF ChaosInv, BillInv
    <2>3. run.left \in 0 .. Runs /\ run.todo \in SUBSET Upstreams
      BY DEF RunInv
    <2>4. Len(samples) <= Cardinality(Upstreams) * Runs
      <3>1. Cardinality(run.todo) \in Nat /\ Cardinality(Upstreams) = 2
        BY <2>3, TwoUpstreams
      <3>2. Len(samples) \in Nat /\ Len(samples) + Cardinality(run.todo) + 2 * run.left <= 2 * Runs
        BY DEF RunInv
      <3>3. Runs \in Nat
        BY ChaosAssumption
      <3> QED BY <2>3, <3>1, <3>2, <3>3
    <2> QED BY <2>1, <2>2, <2>3, <2>4 DEF ChaosTypeOK, RunInv
  <1>2. ASSUME ChaosInv, NEW p \in Upstreams
        PROVE  LET complete == {s \in Streams : BilledAt(s, p) /\ ~body[s].truncated /\ mock[s][p] = "over"}
                   uncounted == {s \in Streams : BilledAt(s, p) /\ ~body[s].truncated /\ mock[s][p] = "running"}
                   truncated == {s \in Streams : BilledAt(s, p) /\ body[s].truncated}
                   abandoned == {s \in Streams : p \in cut[s] /\ mock[s][p] = "over"}
               IN  /\ usage[p] = SumFunctionOnSet(CountedBy(p), complete \cup abandoned)
                   /\ truncated \cup uncounted = {} =>
                         usage[p] = entry.providerTokens[p] + SumFunctionOnSet(CountedBy(p), abandoned)
    <2> DEFINE complete == {s \in Streams : BilledAt(s, p) /\ ~body[s].truncated /\ mock[s][p] = "over"}
               uncounted == {s \in Streams : BilledAt(s, p) /\ ~body[s].truncated /\ mock[s][p] = "running"}
               truncated == {s \in Streams : BilledAt(s, p) /\ body[s].truncated}
               abandoned == {s \in Streams : p \in cut[s] /\ mock[s][p] = "over"}
               f == CountedBy(p)
               g == [s \in Streams |-> IF s \in abandoned THEN f[s] ELSE 0]
    <2>1. StreamTypes /\ UsageInv
      BY <1>2 DEF ChaosInv
    <2>2. PICK amount \in [Streams -> Nat] : BillInv(amount)
      BY <1>2 DEF ChaosInv
    <2> DEFINE b == BilledTo(amount, p)
    <2>3. IsFiniteSet(Streams)
      BY ChaosAssumption
    <2>4. \A s \in Streams : f[s] = Counted(s, p) /\ f[s] \in Int
      BY <2>1, CountedType DEF CountedBy
    <2>5. usage[p] = SumFunctionOnSet(f, Streams)
      BY <2>1 DEF UsageInv
    <2>6. ASSUME NEW s \in Streams
          PROVE  /\ mock[s][p] # "over" => Counted(s, p) = 0
                 /\ p \notin cut[s] /\ ~(BilledAt(s, p) /\ ~body[s].truncated) => Counted(s, p) = 0
                 /\ BilledAt(s, p) /\ ~body[s].truncated =>
                       mock[s][p] # "none" /\ p \notin cut[s] /\ amount[s] = Charged(OptionsOf(s, p))
                 /\ mock[s][p] \in {"none", "running", "over"}
      <3>1. StreamInv(s, amount[s]) /\ amount[s] \in Nat
        BY <2>2 DEF BillInv
      <3>2. mock[s][p] \in {"none", "running", "over"}
        BY <2>1 DEF StreamTypes
      <3> QED BY <2>1, <3>1, <3>2, StreamCounts
    <2>7. \A s \in Streams : f[s] = IF s \in complete \cup abandoned THEN f[s] ELSE 0
      BY <2>4, <2>6
    <2>8. ASSUME truncated \cup uncounted = {}, NEW s \in Streams PROVE f[s] = b[s] + g[s]
      <3>1. amount[s] \in Nat /\ f[s] \in Int /\ f[s] = Counted(s, p)
        BY <2>2, <2>4
      <3>2. CASE BilledAt(s, p)
        <4>1. ~body[s].truncated /\ mock[s][p] # "running"
          BY <2>8, <3>2
        <4>2. /\ mock[s][p] = "over" /\ p \notin cut[s] /\ amount[s] = Charged(OptionsOf(s, p))
          BY <2>6, <3>2, <4>1
        <4>3. b[s] = amount[s] /\ g[s] = 0
          BY <3>2, <4>2 DEF BilledTo
        <4> QED BY <3>1, <4>2, <4>3 DEF Counted
      <3>3. CASE ~BilledAt(s, p)
        <4>1. b[s] = 0
          BY <3>3 DEF BilledTo
        <4>2. g[s] = f[s]
          BY <2>6, <3>1, <3>3
        <4> QED BY <3>1, <4>1, <4>2
      <3> QED BY <3>2, <3>3
    <2>9. \A s \in Streams : b[s] \in Int /\ g[s] \in Int
      BY <2>2, <2>4 DEF BilledTo
    <2>10. entry.providerTokens[p] = SumFunctionOnSet(b, Streams)
      BY <2>2 DEF BillInv
    <2>11. \A s \in Streams : g[s] = IF s \in abandoned THEN f[s] ELSE 0
      OBVIOUS
    <2>12. complete \cup abandoned \subseteq Streams /\ abandoned \subseteq Streams
      OBVIOUS
    <2> HIDE DEF complete, uncounted, truncated, abandoned, f, g, b
    <2>13. SumFunctionOnSet(f, complete \cup abandoned) = SumFunctionOnSet(f, Streams)
      <3>1. PICK T : T = complete \cup abandoned
        OBVIOUS
      <3>2. SumFunctionOnSet(f, T) = SumFunctionOnSet(f, Streams)
        BY <2>3, <2>4, <2>7, <2>12, <3>1, SumRestrict
      <3> QED BY <3>1, <3>2
    <2>14. SumFunctionOnSet(f, abandoned) = SumFunctionOnSet(g, Streams)
      BY <2>3, <2>4, <2>11, <2>12, SumRestrict
    <2>15. truncated \cup uncounted = {} =>
              SumFunctionOnSet(f, Streams) = SumFunctionOnSet(b, Streams) + SumFunctionOnSet(g, Streams)
      BY <2>3, <2>8, <2>9, SumAdd
    <2> QED BY <2>5, <2>10, <2>13, <2>14, <2>15 DEF complete, uncounted, truncated, abandoned, f
  <1>3. ChaosInv /\ RunInv => DriftExplained
    BY <1>1, <1>2 DEF DriftExplained, SumOver, CountedBy
  <1> QED BY <1>3, ChaosAlways, PTL

\* What the harness reports as a mismatch is a misfire at the second provider, and it
\* is a loss: for any number of streams.
THEOREM MismatchesAreMisfires == ChaosSpec => []MismatchIsMisfire
  <1>1. ASSUME ChaosInv, RunInv, harness = "reported" PROVE MismatchIsMisfire
    <2>1. StreamTypes
      BY <1>1 DEF ChaosInv
    <2>2. PICK amount \in [Streams -> Nat] : BillInv(amount)
      BY <1>1 DEF ChaosInv
    <2> DEFINE x == [s \in Streams |-> Scenarios[model[s]].expectedBilled]
    <2>3. ASSUME NEW s \in Streams
          PROVE  /\ x[s] \in Int /\ amount[s] \in Int /\ amount[s] <= x[s]
                 /\ "anthropic" \notin cut[s] => amount[s] = x[s]
                 /\ cut[s] = {} => body[s].reasons = Scenarios[model[s]].failures
                 /\ body[s].reasons \subseteq Scenarios[model[s]].failures \cup {"silent_hang"}
      <3>1. pc[s] = "done"
        BY <1>1 DEF RunInv
      <3>2. DoneAtFirst(s, amount[s]) \/ DoneAtSecond(s, amount[s])
        BY <2>2, <3>1 DEF BillInv, StreamInv, AtFirst, AtSecond, GaveUp
      <3>3. /\ model[s] \in Models /\ OptionsOf(s, "openai") = At(model[s], "openai")
            /\ OptionsOf(s, "anthropic") = At(model[s], "anthropic")
            /\ Content(OptionsOf(s, "anthropic")) \in 0 .. 10
        BY <2>1, CountedType DEF Upstreams
      <3>4. /\ x[s] = Content(OptionsOf(s, "anthropic"))
            /\ ~Fails(OptionsOf(s, "openai")) =>
                  x[s] = Content(OptionsOf(s, "openai")) /\ Scenarios[model[s]].failures = {}
        BY <3>3, ScenarioFacts
      <3> HIDE DEF x
      <3>5. amount[s] \in Int /\ x[s] \in Int
        BY <3>3, <3>4
      <3>6. CASE DoneAtFirst(s, amount[s])
        BY <3>4, <3>5, <3>6 DEF DoneAtFirst
      <3>7. CASE DoneAtSecond(s, amount[s])
        BY <3>4, <3>5, <3>7 DEF DoneAtSecond, FirstGone
      <3> QED BY <3>2, <3>6, <3>7
    <2>4. ExpectedBilled = SumFunctionOnSet(x, Streams)
      BY DEF ExpectedBilled, SumOver
    <2>5. IsFiniteSet(Streams)
      BY ChaosAssumption
    <2>6. entry.tokensBilled = SumFunctionOnSet(amount, Streams)
      BY <2>2 DEF BillInv
    <2> HIDE DEF x
    <2>7. entry.tokensBilled <= ExpectedBilled
      BY <2>3, <2>4, <2>5, <2>6, SumMonotone
    <2>8. entry.tokensBilled # ExpectedBilled => \E s \in Streams : "anthropic" \in cut[s]
      <3>1. SUFFICES ASSUME \A s \in Streams : "anthropic" \notin cut[s]
                     PROVE  entry.tokensBilled = ExpectedBilled
        OBVIOUS
      <3>2. \A s \in Streams : x[s] \in Int /\ amount[s] = x[s]
        BY <2>3, <3>1
      <3> QED BY <2>4, <2>5, <2>6, <3>2, SumSame
    <2>9. errs = {}
      BY <1>1 DEF RunInv
    <2> QED BY <2>3, <2>7, <2>8, <2>9 DEF MismatchIsMisfire
  <1>2. harness # "reported" => MismatchIsMisfire
    BY DEF MismatchIsMisfire
  <1>3. ChaosInv /\ RunInv => MismatchIsMisfire
    BY <1>1, <1>2
  <1> QED BY <1>3, ChaosAlways, PTL

=============================================================================
