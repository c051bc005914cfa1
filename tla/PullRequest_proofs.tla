------------------------- MODULE PullRequest_proofs -------------------------
(***************************************************************************)
(* What reviewers decided holds for the next review, for any diffs, any    *)
(* answers of the agents, any configuration and any number of reviews and  *)
(* requests; and the pool of agents keeps to its limit and its order. The  *)
(* inputs are assumed to be what the code's types say: diffs of lines, a   *)
(* configuration that the schema accepts, replies that parse.              *)
(*                                                                         *)
(* What the passes make of findings is proved in Findings_proofs; here     *)
(* first what the agents find, what is published of it (PublishedTells),   *)
(* and what each output tells of that (LocalTold, CommentTold). With it,   *)
(* no finding that a job collects is lost on the way to the store, every   *)
(* inline comment of a review whose head did not move stands on a line of  *)
(* its diff, the state keeps its types, and every place that tells of a    *)
(* review tells the same (PostedIsTold).                                   *)
(***************************************************************************)
EXTENDS PullRequest, Findings_proofs, TLAPS

-----------------------------------------------------------------------------
(* The tasks.                                                              *)

\* The tasks of a review are numbered, and each has a chunk.
LEMMA TasksTyped ==
    ASSUME NEW files, IsSequence(files), \A f \in ToSet(files) : IsFile(f), NEW c,
           IsSequence(Agents)
    PROVE  LET tasks == TasksOf(files, c)
           IN  /\ Len(tasks) \in Nat /\ DOMAIN tasks = 1 .. Len(tasks)
               /\ \A i \in DOMAIN tasks : IsChunk(tasks[i].chunk)
<1> DEFINE chosen == Reviewable(files, c.ignore, c.limits)
           C == UNION {ToSet(ChunkFile(f)) : f \in ToSet(chosen)}
           cs == Chunks(chosen)
           n == Len(Agents)
           len == Len(cs) * n
           tasks == TasksOf(files, c)
<1>1. IsSequence(chosen) /\ \A f \in ToSet(chosen) : IsFile(f)
  <2> DEFINE P == {i \in DOMAIN files : /\ ~IsIgnored(files[i].path, c.ignore)
                                        /\ SkipReason(files[i], c.limits) = "none"}
  <2>1. chosen = Selected(files, P) /\ P \in SUBSET DOMAIN files /\ files \in Seq(ToSet(files))
    BY DEF Reviewable, IsSequence
  <2> HIDE DEF P, chosen
  <2>2. chosen \in Seq(ToSet(files))
    BY <2>1, SelectedTells
  <2>3. DOMAIN chosen = 1 .. Len(chosen) /\ Len(chosen) \in Nat /\ \A i \in DOMAIN chosen : chosen[i] \in ToSet(files)
    BY <2>2, LenProperties
  <2>4. \A i \in 1 .. Len(chosen) : chosen[i] \in ToSet(chosen)
    BY <2>3 DEF ToSet
  <2>5. chosen \in Seq(ToSet(chosen)) /\ ToSet(chosen) \subseteq ToSet(files)
    BY <2>2, <2>3, <2>4 DEF ToSet
  <2> QED BY <2>5 DEF IsSequence
<1>2. cs \in Seq(C)
  <2> HIDE DEF chosen
  <2> QED BY <1>1, ChunksTyped
<1>3. \A x \in C : IsChunk(x)
  <2> HIDE DEF chosen
  <2> QED BY <1>1, ChunkFileTyped
<1>4. n \in Nat /\ DOMAIN Agents = 1 .. n /\ Len(cs) \in Nat /\ DOMAIN cs = 1 .. Len(cs)
      /\ \A k \in DOMAIN cs : cs[k] \in C
  <2> HIDE DEF cs, C
  <2> QED BY <1>2, LenProperties DEF IsSequence
<1>5. tasks = [i \in 1 .. len |->
                LET chunk == cs[1 + ((i - 1) \div n)]
                    agent == Agents[1 + ((i - 1) % n)]
                IN  [agent |-> agent, chunk |-> chunk, filtered |-> Skips(agent, chunk.path)]]
  BY DEF TasksOf, Tasks
<1>6. len \in Nat
  <2> HIDE DEF cs, n
  <2> QED BY <1>4
<1>7. ASSUME NEW i \in 1 .. len PROVE IsChunk(cs[1 + ((i - 1) \div n)])
  <2> HIDE DEF cs, C
  <2>1. n # 0
    BY <1>4
  <2> HIDE DEF n
  <2>2. i - 1 \in Nat /\ i - 1 < n * Len(cs)
    BY <1>4, <1>6
  <2> DEFINE q == (i - 1) \div n
  <2>3. q \in Nat /\ (q < Len(cs) <=> i - 1 < n * Len(cs))
    BY <1>4, <2>1, <2>2, Multiples
  <2> HIDE DEF q
  <2>4. 1 + q \in DOMAIN cs
    BY <1>4, <2>2, <2>3
  <2> QED BY <1>3, <1>4, <2>4 DEF q
<1> DEFINE task(i) == [agent |-> Agents[1 + ((i - 1) % n)], chunk |-> cs[1 + ((i - 1) \div n)],
                       filtered |-> Skips(Agents[1 + ((i - 1) % n)], cs[1 + ((i - 1) \div n)].path)]
<1>8. tasks = [i \in 1 .. len |-> task(i)]
  BY <1>5
<1>9. \A i \in 1 .. len : task(i).chunk = cs[1 + ((i - 1) \div n)]
  OBVIOUS
<1> HIDE DEF tasks, task, len
<1>10. tasks \in Seq({task(i) : i \in 1 .. len}) /\ Len(tasks) = len
  BY <1>6, <1>8
<1>11. DOMAIN tasks = 1 .. len /\ \A i \in 1 .. len : tasks[i].chunk = cs[1 + ((i - 1) \div n)]
  BY <1>8, <1>9
<1>12. \A i \in DOMAIN tasks : IsChunk(tasks[i].chunk)
  <2> HIDE DEF cs, n
  <2> QED BY <1>7, <1>11
<1> QED BY <1>6, <1>10, <1>11, <1>12 DEF tasks

-----------------------------------------------------------------------------
(* What the agents find.                                                   *)

\* What an agent makes of an answer are findings.
LEMMA FoundTyped ==
    ASSUME NEW task, IsChunk(task.chunk), NEW reply, IsReply(reply), ~(Calls(task) /\ reply = Throws)
    PROVE  IsFindings(Found(task, reply))
<1>1. IsFindings(<<>>)
  BY NoFindings
<1>2. IsFindings(RegexOnly(task.chunk))
  <2> DEFINE lines == SecretLines(task.chunk)
             hits == Ascending(lines)
             fs == RegexOnly(task.chunk)
             secret(n) == [agent |-> "secrets", category |-> "secrets", severity |-> 0,
                         title |-> <<"possible", "secret", "committed">>, why |-> <<"pattern", "matched">>,
                         file |-> task.chunk.path, line |-> n, endLine |-> n,
                         confidence |-> 60, tags |-> {<<"regex-only">>}]
  <2>1. lines \in SUBSET Int /\ IsFiniteSet(lines)
    BY SecretLinesTyped
  <2>2. fs = [i \in DOMAIN hits |-> secret(hits[i])]
    BY DEF RegexOnly
  <2>3. \A n \in Int : IsFinding(secret(n))
    BY DEF IsFinding, FindingFields, Severities, Critical, Nit, IsChunk
  <2> HIDE DEF lines, fs, secret
  <2>4. hits \in Seq(lines)
    BY <2>1, AscendingTells
  <2> HIDE DEF hits
  <2>5. Len(hits) \in Nat /\ DOMAIN hits = 1 .. Len(hits) /\ \A i \in DOMAIN hits : hits[i] \in Int
    BY <2>1, <2>4, LenProperties
  <2>6. fs = [i \in 1 .. Len(hits) |-> fs[i]]
    BY <2>2, <2>5
  <2>7. \A i \in 1 .. Len(hits) : IsFinding(fs[i])
    BY <2>2, <2>3, <2>5
  <2>8. IsFindings(fs)
    BY <2>5, <2>6, <2>7, FunctionIsSequence DEF IsFindings
  <2> QED BY <2>8 DEF fs
<1>3. ASSUME IsFindings(reply) PROVE IsFindings(Confirmed(reply)) /\ IsFindings(Prompted(task, reply))
  <2> DEFINE n == Len(reply)
             stamped == [i \in DOMAIN reply |-> [reply[i] EXCEPT !.agent = task.agent]]
             P == {i \in DOMAIN reply : reply[i].line \in task.chunk.first .. task.chunk.last + 2}
             confirmed == [i \in DOMAIN reply |-> [reply[i] EXCEPT !.agent = "secrets", !.category = "secrets"]]
  <2>1. n \in Nat /\ DOMAIN reply = 1 .. n /\ \A i \in 1 .. n : IsFinding(reply[i])
    BY <1>3, SequenceFacts DEF IsFindings
  <2>2. ASSUME NEW i \in 1 .. n PROVE IsFinding(stamped[i]) /\ IsFinding(confirmed[i])
    <3> DEFINE f == reply[i]
    <3>1. IsFinding(f) /\ stamped[i] = [f EXCEPT !.agent = task.agent]
          /\ confirmed[i] = [f EXCEPT !.agent = "secrets", !.category = "secrets"]
      BY <2>1
    <3> HIDE DEF f, stamped, confirmed
    <3>2. IsFinding([f EXCEPT !.agent = task.agent])
      BY <3>1 DEF IsFinding, FindingFields
    <3>3. IsFinding([f EXCEPT !.agent = "secrets", !.category = "secrets"])
      BY <3>1 DEF IsFinding, FindingFields
    <3> QED BY <3>1, <3>2, <3>3
  <2>3. stamped = [i \in 1 .. n |-> stamped[i]] /\ confirmed = [i \in 1 .. n |-> confirmed[i]]
        /\ P \in SUBSET DOMAIN stamped
    BY <2>1
  <2>4. Confirmed(reply) = confirmed /\ Prompted(task, reply) = Selected(stamped, P)
    BY DEF Confirmed, Prompted
  <2> HIDE DEF n, stamped, confirmed, P
  <2>5. IsFindings(confirmed) /\ IsFindings(stamped) /\ DOMAIN stamped = 1 .. n
    BY <2>1, <2>2, <2>3, FunctionIsSequence DEF IsFindings
  <2>6. IsSequence(Selected(stamped, P)) /\ ToSet(Selected(stamped, P)) = {stamped[i] : i \in P}
    BY <2>3, <2>5, SelectedIsSequence DEF IsFindings
  <2>7. IsFindings(Selected(stamped, P))
    BY <2>2, <2>3, <2>5, <2>6 DEF IsFindings
  <2> QED BY <2>4, <2>5, <2>7
<1>4. CASE ~Calls(task)
  BY <1>1, <1>4 DEF Found
<1>5. CASE Calls(task) /\ reply = Garbled
  BY <1>1, <1>2, <1>5 DEF Found
<1>6. CASE Calls(task) /\ reply # Garbled
  <2>1. IsFindings(reply)
    BY <1>6 DEF IsReply, IsFindings
  <2>2. Found(task, reply) = IF task.agent = "secrets" THEN Confirmed(reply) ELSE Prompted(task, reply)
    BY <1>6 DEF Found
  <2> QED BY <1>3, <2>1, <2>2
<1> QED BY <1>4, <1>5, <1>6

\* An execution has its fields, and a list of findings.
IsExecution(e) ==
    /\ e = [agent |-> e.agent, status |-> e.status, tokens |-> e.tokens, costUsd |-> e.costUsd,
            findings |-> e.findings]
    /\ e.status \in {"ok", "error"} /\ e.tokens \in Nat /\ e.costUsd \in Nat
    /\ IsFindings(e.findings)

\* What an agent makes of a task and a reply is an execution with typed findings.
LEMMA ExecutionTyped ==
    ASSUME NEW task, IsChunk(task.chunk), NEW reply, IsReply(reply)
    PROVE  IsExecution(Execution(task, reply))
<1>1. CASE Calls(task) /\ reply = Throws
  <2> QED BY <1>1, NoFindings DEF Execution, IsExecution
<1>2. CASE ~(Calls(task) /\ reply = Throws)
  <2>1. IsFindings(Found(task, reply))
    BY <1>2, FoundTyped
  <2> QED BY <1>2, <2>1, PoolAssumption DEF Execution, IsExecution
<1> QED BY <1>1, <1>2

IsExecutions(es) == IsSequence(es) /\ \A e \in ToSet(es) : IsExecution(e)

\* The rows that executions of the agents in G with findings in F are put together in.
Rows(G, F) ==
    [agent : G, status : {"ok", "error"}, tokens : Nat, costUsd : Nat, findings : Seq(F)]

\* Executions put together are executions.
LEMMA MergeExecutionsTyped ==
    ASSUME NEW es, IsExecutions(es)
    PROVE  IsExecutions(MergeExecutions(es))
<1> DEFINE seq == es
           E == ToSet(es)
           A == Seq(Rows({e.agent : e \in ToSet(es)}, UNION {ToSet(e.findings) : e \in ToSet(es)}))
           Add(acc, x) == MergeExecution(acc, x)
           O == [p \in A \X E |-> Add(p[1], p[2])]
           Runs(it) == it = [s \in SUBSET DOMAIN seq |->
                                IF s = {} THEN <<>> ELSE Add(it[s \ {Max(s)}], seq[Max(s)])]
           it == CHOOSE i : Runs(i)
<1>1. seq \in Seq(E) /\ <<>> \in A
  BY DEF IsExecutions, IsSequence
<1>2. ASSUME NEW acc \in A, NEW x \in E PROVE Add(acc, x) \in A
  <2> DEFINE G == {e.agent : e \in E}
             F == UNION {ToSet(e.findings) : e \in E}
             own == {i \in DOMAIN acc : acc[i].agent = x.agent}
  <2>1. acc \in Seq(Rows(G, F))
    OBVIOUS
  <2>2. /\ x = [agent |-> x.agent, status |-> x.status, tokens |-> x.tokens, costUsd |-> x.costUsd,
                findings |-> x.findings]
        /\ x.status \in {"ok", "error"} /\ x.tokens \in Nat /\ x.costUsd \in Nat
        /\ x.findings \in Seq(ToSet(x.findings))
    BY DEF IsExecutions, IsExecution, IsFindings, IsSequence
  <2>3. x.agent \in G /\ ToSet(x.findings) \subseteq F
    OBVIOUS
  <2> HIDE DEF A, G, F
  <2>4. x.findings \in Seq(F)
    BY <2>2, <2>3
  <2>5. x \in Rows(G, F)
    BY <2>2, <2>3, <2>4 DEF Rows
  <2>6. CASE own = {}
    <3>1. Add(acc, x) = Append(acc, x)
      BY <2>6 DEF MergeExecution
    <3> QED BY <2>1, <2>5, <3>1 DEF A, G, F
  <2>7. CASE own # {}
    <3> DEFINE m == Min(own)
               row == acc[m]
               new == [agent |-> x.agent, status |-> IF x.status = "error" THEN "error" ELSE row.status,
                       tokens |-> row.tokens + x.tokens, costUsd |-> row.costUsd + x.costUsd,
                       findings |-> row.findings \o x.findings]
    <3>1. Add(acc, x) = [acc EXCEPT ![m] = new]
      BY <2>7 DEF MergeExecution
    <3>2. m \in DOMAIN acc
      <4>1. own \in SUBSET DOMAIN acc
        OBVIOUS
      <4> HIDE DEF own
      <4> QED BY <2>1, <2>7, <4>1, FirstOfKind
    <3> HIDE DEF m, own
    <3>3. row \in Rows(G, F)
      BY <2>1, <3>2, LenProperties
    <3> HIDE DEF row
    <3>4. /\ row.status \in {"ok", "error"} /\ row.tokens \in Nat /\ row.costUsd \in Nat
          /\ row.findings \in Seq(F)
      BY <3>3 DEF Rows
    <3>5. row.findings \o x.findings \in Seq(F)
      BY <2>4, <3>4
    <3>6. new \in Rows(G, F)
      BY <2>2, <2>3, <3>4, <3>5 DEF Rows
    <3> HIDE DEF new
    <3>7. [acc EXCEPT ![m] = new] \in Seq(Rows(G, F))
      BY <2>1, <3>2, <3>6, ExceptSeq
    <3> QED BY <3>1, <3>7 DEF A, G, F
  <2> QED BY <2>6, <2>7
<1>3. O \in [A \X E -> A] /\ \A acc \in A, x \in E : O[<<acc, x>>] = Add(acc, x)
  <2> HIDE DEF A, E, Add
  <2> QED BY <1>2
<1>4. MergeExecutions(es) = it[DOMAIN seq]
  BY DEF MergeExecutions, FoldLeft, MapThenFoldSet
<1> HIDE DEF A, E, Add, O, seq
<1>0. ASSUME NEW s \in SUBSET DOMAIN seq, s # {}
      PROVE  seq[Max(s)] \in E /\ s \ {Max(s)} \in SUBSET DOMAIN seq
  BY <1>0, <1>1, LastIsThere
<1>5. Runs(it)
  <2>1. PICK i : IsFold(i, A, O, <<>>, seq)
    BY <1>1, <1>3, FoldExists
  <2>2. ASSUME NEW s \in SUBSET DOMAIN seq
        PROVE  i[s] = IF s = {} THEN <<>> ELSE Add(i[s \ {Max(s)}], seq[Max(s)])
    <3>1. CASE s = {}
      BY <2>1, <3>1 DEF IsFold
    <3>2. CASE s # {}
      <4>1. i[s \ {Max(s)}] \in A /\ seq[Max(s)] \in E
        BY <1>0, <2>1, <3>2 DEF IsFold
      <4> QED BY <1>3, <2>1, <3>2, <4>1 DEF IsFold
    <3> QED BY <3>1, <3>2
  <2>3. Runs(i)
    BY <2>1, <2>2 DEF IsFold
  <2> HIDE DEF Runs
  <2> QED BY <2>3
<1> HIDE DEF it
<1>6. Folds(it, A, O, <<>>, seq)
  <2>1. it[{}] = <<>>
    BY <1>5
  <2>2. ASSUME NEW s \in SUBSET DOMAIN seq, s # {}, it[s \ {Max(s)}] \in A
        PROVE  it[s] = O[<<it[s \ {Max(s)}], seq[Max(s)]>>]
    <3>1. it[s] = Add(it[s \ {Max(s)}], seq[Max(s)])
      BY <1>5, <2>2
    <3> QED BY <1>0, <1>3, <2>2, <3>1
  <2> QED BY <2>1, <2>2 DEF Folds
<1>7. PICK g : AreSteps(g, A, O, <<>>, seq, it[DOMAIN seq])
  BY <1>1, <1>3, <1>6, FoldSteps
<1>8. MergeExecutions(es) \in A
  BY <1>1, <1>4, <1>7 DEF AreSteps
<1> DEFINE G == {e.agent : e \in ToSet(es)}
           F == UNION {ToSet(e.findings) : e \in ToSet(es)}
           ms == MergeExecutions(es)
<1>9. ms \in Seq(Rows(G, F)) /\ \A f \in F : IsFinding(f)
  BY <1>8 DEF A, IsExecutions, IsExecution, IsFindings
<1> HIDE DEF G, F, ms
<1>10. IsSequence(ms) /\ ToSet(ms) \subseteq Rows(G, F)
  BY <1>9, MemberIsSequence
<1>11. ASSUME NEW e \in Rows(G, F) PROVE IsExecution(e)
  <2>1. /\ e = [agent |-> e.agent, status |-> e.status, tokens |-> e.tokens, costUsd |-> e.costUsd,
                findings |-> e.findings]
        /\ e.status \in {"ok", "error"} /\ e.tokens \in Nat /\ e.costUsd \in Nat
        /\ e.findings \in Seq(F)
    BY DEF Rows
  <2>2. IsFindings(e.findings)
    BY <1>9, <2>1, MemberIsSequence DEF IsFindings
  <2> QED BY <2>1, <2>2 DEF IsExecution
<1> QED BY <1>10, <1>11 DEF IsExecutions, ms

\* All findings of some executions are findings.
LEMMA AllFindingsTyped ==
    ASSUME NEW es, IsExecutions(es)
    PROVE  IsFindings(AllFindings(es))
<1> DEFINE seq == es
           E == ToSet(es)
           A == Seq(UNION {ToSet(e.findings) : e \in ToSet(es)})
           Add(acc, x) == acc \o x.findings
           O == [p \in A \X E |-> Add(p[1], p[2])]
           Runs(it) == it = [s \in SUBSET DOMAIN seq |->
                                IF s = {} THEN <<>> ELSE Add(it[s \ {Max(s)}], seq[Max(s)])]
           it == CHOOSE i : Runs(i)
<1>1. seq \in Seq(E) /\ <<>> \in A
  BY DEF IsExecutions, IsSequence
<1>2. ASSUME NEW acc \in A, NEW x \in E PROVE Add(acc, x) \in A
  <2>1. x.findings \in A
    BY DEF IsExecutions, IsExecution, IsFindings, IsSequence
  <2> QED BY <2>1
<1>3. O \in [A \X E -> A] /\ \A acc \in A, x \in E : O[<<acc, x>>] = Add(acc, x)
  <2> HIDE DEF A, E, Add
  <2> QED BY <1>2
<1>4. AllFindings(es) = it[DOMAIN seq]
  BY DEF AllFindings, FoldLeft, MapThenFoldSet
<1> HIDE DEF A, E, Add, O, seq
<1>0. ASSUME NEW s \in SUBSET DOMAIN seq, s # {}
      PROVE  seq[Max(s)] \in E /\ s \ {Max(s)} \in SUBSET DOMAIN seq
  BY <1>0, <1>1, LastIsThere
<1>5. Runs(it)
  <2>1. PICK i : IsFold(i, A, O, <<>>, seq)
    BY <1>1, <1>3, FoldExists
  <2>2. ASSUME NEW s \in SUBSET DOMAIN seq
        PROVE  i[s] = IF s = {} THEN <<>> ELSE Add(i[s \ {Max(s)}], seq[Max(s)])
    <3>1. CASE s = {}
      BY <2>1, <3>1 DEF IsFold
    <3>2. CASE s # {}
      <4>1. i[s \ {Max(s)}] \in A /\ seq[Max(s)] \in E
        BY <1>0, <2>1, <3>2 DEF IsFold
      <4> QED BY <1>3, <2>1, <3>2, <4>1 DEF IsFold
    <3> QED BY <3>1, <3>2
  <2>3. Runs(i)
    BY <2>1, <2>2 DEF IsFold
  <2> HIDE DEF Runs
  <2> QED BY <2>3
<1> HIDE DEF it
<1>6. Folds(it, A, O, <<>>, seq)
  <2>1. it[{}] = <<>>
    BY <1>5
  <2>2. ASSUME NEW s \in SUBSET DOMAIN seq, s # {}, it[s \ {Max(s)}] \in A
        PROVE  it[s] = O[<<it[s \ {Max(s)}], seq[Max(s)]>>]
    <3>1. it[s] = Add(it[s \ {Max(s)}], seq[Max(s)])
      BY <1>5, <2>2
    <3> QED BY <1>0, <1>3, <2>2, <3>1
  <2> QED BY <2>1, <2>2 DEF Folds
<1>7. PICK g : AreSteps(g, A, O, <<>>, seq, it[DOMAIN seq])
  BY <1>1, <1>3, <1>6, FoldSteps
<1>8. AllFindings(es) \in A
  BY <1>1, <1>4, <1>7 DEF AreSteps
<1> DEFINE F == UNION {ToSet(e.findings) : e \in ToSet(es)}
<1>9. AllFindings(es) \in Seq(F) /\ \A f \in F : IsFinding(f)
  BY <1>8 DEF A, IsExecutions, IsExecution, IsFindings
<1> HIDE DEF F
<1> QED BY <1>9, MemberIsSequence DEF IsFindings

\* What some executions cost together.
LEMMA TotalCostTyped ==
    ASSUME NEW es, IsExecutions(es)
    PROVE  TotalCostUsd(es) \in Nat
<1> DEFINE n == Len(es)
           costs == [i \in DOMAIN es |-> es[i].costUsd]
<1>1. n \in Nat /\ DOMAIN es = 1 .. n /\ \A i \in DOMAIN es : es[i] \in ToSet(es)
  BY SequenceFacts DEF IsExecutions
<1>2. \A i \in 1 .. n : es[i].costUsd \in Nat
  BY <1>1 DEF IsExecutions, IsExecution
<1>3. costs \in [1 .. n -> Nat]
  BY <1>1, <1>2
<1>4. TotalCostUsd(es) = Total(costs)
  BY DEF TotalCostUsd
<1> HIDE DEF n, costs
<1>5. costs \in Seq(Nat)
  BY <1>1, <1>3
<1> QED BY <1>4, <1>5, TotalTyped

\* What competes for the report are findings.
LEMMA CompetingTyped ==
    ASSUME NEW es, IsExecutions(es), NEW c, IsConfig(c)
    PROVE  IsFindings(Competing(es, c))
<1>1. IsFindings(AllFindings(es))
  BY AllFindingsTyped
<1>2. IsFindings(ApplySeverityRules(AllFindings(es), c.rules))
  BY <1>1, RulesTyped DEF IsConfig
<1> QED BY <1>2, CalibrationTyped DEF Competing

-----------------------------------------------------------------------------
(* What is published.                                                      *)

\* What a review publishes are findings, and they account for those of its agents.
THEOREM PublishedTells ==
    ASSUME NEW results, IsExecutions(results), NEW files, NEW c, IsConfig(c),
           NEW m, m = Published(results, files, c)
    PROVE  /\ IsExecutions(m.executions) /\ IsFindings(m.summed.findings)
           /\ Accounted(Competing(m.executions, c), m.summed.findings, m.suppressed,
                        c.floor, c.threshold, c.maxPerFile)
<1> DEFINE es == MergeExecutions(results)
           fs == Competing(es, c)
           V == Variants(fs)
           ms == SimilarityMerge(fs)
           all == Aggregate(ms, c.threshold, c.maxPerFile, c.floor).findings
           H == {i \in DOMAIN all : Suppressed(all[i], files)}
           kept == Selected(all, DOMAIN all \ H)
           hidden == Selected(all, H)
<1>1. m.executions = es /\ m.summed.findings = kept /\ m.suppressed = hidden
  BY DEF Published, Aggregated, Recompute, Summed
<1>2. H \in SUBSET DOMAIN all
  OBVIOUS
<1>3. c.maxPerFile \in Nat
  BY DEF IsConfig
<1> HIDE DEF es, H
<1>4. IsExecutions(es)
  BY MergeExecutionsTyped DEF es
<1> HIDE DEF fs
<1>5. IsFindings(fs)
  BY <1>4, CompetingTyped DEF fs
<1> HIDE DEF ms
<1>6. /\ ms \in Seq(V)
      /\ \A h \in ToSet(fs) : \E q \in DOMAIN ms : StandsFor(fs, h, ms[q])
  BY <1>5, MergeKeepsAll DEF ms
<1>7. \A v \in V : IsFinding(v) /\ Rankable(v) /\ StemsFrom(fs, v)
  <2>1. \A v \in V : IsFinding(v) /\ StemsFrom(fs, v)
    BY DEF Variants
  <2> HIDE DEF V
  <2> QED BY <2>1, FindingRankable
<1>8. RankedStock(fs)
  BY <1>5, FindingRankable DEF IsFindings, RankedStock
<1> HIDE DEF V, kept, hidden
<1>9. all \in Seq(V)
  BY <1>3, <1>6, <1>7, AggregateTyped
<1>10. Divided(all, kept, hidden)
  <2> HIDE DEF all
  <2> QED BY <1>2, <1>9, SuppressionDivides DEF kept, hidden
<1>11. Accounted(fs, kept, hidden, c.floor, c.threshold, c.maxPerFile)
  BY <1>3, <1>6, <1>7, <1>8, <1>10, AggregateAccounts
<1>12. IsFindings(kept)
  <2> HIDE DEF all
  <2>1. DOMAIN all \ H \in SUBSET DOMAIN all
    OBVIOUS
  <2>2. kept \in Seq(V)
    BY <1>9, <2>1, SelectedTells DEF kept
  <2>3. IsSequence(kept) /\ ToSet(kept) \subseteq V
    BY <2>2, MemberIsSequence
  <2> QED BY <1>7, <2>3 DEF IsFindings
<1> QED BY <1>1, <1>4, <1>11, <1>12 DEF fs

-----------------------------------------------------------------------------
(* Exit codes and verdicts.                                                *)

\* With a severity to fail on, stats and run fail on the same counts.
LEMMA StatsFailsAlike ==
    ASSUME NEW totals, NEW failOn \in Severities
    PROVE  StatsExit(totals, {failOn}) = ExitCode(totals, failOn)
<1> DEFINE present == {s \in Severities : totals[s] > 0}
<1>1. Severities = 0 .. 4 /\ Critical = 0
  BY DEF Severities, Critical, Nit
<1>2. Max({failOn}) = failOn
  BY <1>1 DEF Max
<1>3. {failOn} # {} /\ {failOn} \cap Severities # {}
  OBVIOUS
<1>4. StatsExit(totals, {failOn}) =
         IF \E s \in Severities : s <= Max({failOn}) /\ totals[s] > 0 THEN 1 ELSE 0
  BY <1>3 DEF StatsExit
<1>5. ExitCode(totals, failOn) = IF present \cap (Critical .. failOn) = {} THEN 0 ELSE 1
  BY DEF ExitCode
<1>6. present \cap (Critical .. failOn) = {} <=> ~\E s \in Severities : s <= failOn /\ totals[s] > 0
  BY <1>1
<1> QED BY <1>2, <1>4, <1>5, <1>6

-----------------------------------------------------------------------------
(* SARIF, GitLab, reviewdog, JUnit.                                        *)

\* buildRules() has a rule for every result.
LEMMA RulesCover ==
    ASSUME NEW fs, IsSequence(fs), NEW i \in DOMAIN fs
    PROVE  LET log == SarifLog(fs) IN log.rules[log.results[i].rule].id = RuleId(fs[i])
<1> DEFINE firsts == {k \in DOMAIN fs : \A j \in 1 .. k - 1 : RuleId(fs[j]) # RuleId(fs[k])}
           order == Ascending(firsts)
           rules == SarifRules(fs)
           id == RuleId(fs[i])
           same == {k \in DOMAIN fs : RuleId(fs[k]) = id}
<1>1. Len(fs) \in Nat /\ DOMAIN fs = 1 .. Len(fs)
  BY SequenceFacts
<1>2. PICK k \in same : \A u \in same : k <= u
  <2>1. same \in SUBSET Nat /\ same # {}
    BY <1>1
  <2> HIDE DEF same
  <2> QED BY <2>1, Least
<1>3. k \in firsts
  <2>1. ASSUME NEW j \in 1 .. k - 1 PROVE RuleId(fs[j]) # RuleId(fs[k])
    <3>1. j \in DOMAIN fs /\ ~(k <= j)
      BY <1>1, <1>2
    <3> QED BY <1>2, <3>1
  <2> QED BY <1>2, <2>1
<1>4. firsts \in SUBSET Int /\ IsFiniteSet(firsts)
  <2>1. firsts \subseteq 1 .. Len(fs)
    BY <1>1
  <2> QED BY <1>1, <2>1, UpToCount, FS_Subset
<1> HIDE DEF firsts
<1>5. order \in Bijection(1 .. Cardinality(firsts), firsts)
  BY <1>4, AscendingTells
<1>6. PICK n \in DOMAIN order : order[n] = k
  BY <1>3, <1>5 DEF Bijection, Surjection
<1> HIDE DEF order
<1>7. rules = [m \in DOMAIN order |-> [id |-> RuleId(fs[order[m]]),
                                       level |-> LevelFor(fs[order[m]].severity)]]
  BY DEF SarifRules, order, firsts
<1>8. \E m \in DOMAIN rules : rules[m].id = id
  BY <1>2, <1>6, <1>7
<1> HIDE DEF rules, id
<1>9. rules[CHOOSE m \in DOMAIN rules : rules[m].id = id].id = id
  BY <1>8
<1>10. /\ SarifLog(fs).rules = rules
       /\ SarifLog(fs).results[i].rule = CHOOSE m \in DOMAIN rules : rules[m].id = id
  BY DEF SarifLog, rules, id
<1> QED BY <1>9, <1>10 DEF id

\* Every format takes the same findings for serious, and JUnit counts them.
LEMMA FormatsAgree ==
    ASSUME NEW fs, IsFindings(fs)
    PROVE  LET sarif == SarifLog(fs).results
               gitlab == GitlabIssues(fs)
               rdjsonl == RdjsonlDiagnostics(fs)
               serious == {i \in DOMAIN fs : fs[i].severity \in {Critical, High}}
           IN  /\ serious = {i \in DOMAIN sarif : sarif[i].level = "error"}
               /\ serious = {i \in DOMAIN gitlab : gitlab[i].severity \in {"blocker", "critical"}}
               /\ serious = {i \in DOMAIN rdjsonl : rdjsonl[i].severity = "ERROR"}
               /\ Cardinality(serious) = JUnit(fs).failures
               /\ serious = {} <=> ExitCode(Totals(fs), Nit + 1) = 0
<1> DEFINE sarif == SarifLog(fs).results
           gitlab == GitlabIssues(fs)
           rdjsonl == RdjsonlDiagnostics(fs)
           serious == {i \in DOMAIN fs : fs[i].severity \in {Critical, High}}
<1>1. \A i \in DOMAIN fs : fs[i].severity \in Severities
  <2>1. \A i \in DOMAIN fs : fs[i] \in ToSet(fs)
    BY SequenceFacts DEF IsFindings
  <2> QED BY <2>1 DEF IsFindings, IsFinding
<1>2. Critical = 0 /\ High = 1 /\ Medium = 2 /\ Low = 3 /\ Nit = 4 /\ Severities = 0 .. 4
  BY DEF Critical, High, Medium, Low, Nit, Severities
<1>3. ASSUME NEW s \in Severities
      PROVE  /\ LevelFor(s) = "error" <=> s \in {Critical, High}
             /\ GitlabSeverity[s] \in {"blocker", "critical"} <=> s \in {Critical, High}
             /\ RdjsonlSeverity[s] = "ERROR" <=> s \in {Critical, High}
  <2>1. s \in {0, 1, 2, 3, 4}
    BY <1>2
  <2> QED BY <1>2, <2>1 DEF LevelFor, GitlabSeverity, RdjsonlSeverity
<1>4. /\ DOMAIN sarif = DOMAIN fs /\ DOMAIN gitlab = DOMAIN fs /\ DOMAIN rdjsonl = DOMAIN fs
      /\ \A i \in DOMAIN fs : /\ sarif[i].level = LevelFor(fs[i].severity)
                              /\ gitlab[i].severity = GitlabSeverity[fs[i].severity]
                              /\ rdjsonl[i].severity = RdjsonlSeverity[fs[i].severity]
  BY DEF SarifLog, GitlabIssues, RdjsonlDiagnostics
<1> HIDE DEF sarif, gitlab, rdjsonl
<1>5. /\ serious = {i \in DOMAIN sarif : sarif[i].level = "error"}
      /\ serious = {i \in DOMAIN gitlab : gitlab[i].severity \in {"blocker", "critical"}}
      /\ serious = {i \in DOMAIN rdjsonl : rdjsonl[i].severity = "ERROR"}
  BY <1>1, <1>3, <1>4
<1>6. Cardinality(serious) = JUnit(fs).failures
  BY DEF JUnit
<1>7. serious = {} <=> ExitCode(Totals(fs), Nit + 1) = 0
  <2>1. /\ Totals(fs)[Critical] > 0 <=> \E i \in DOMAIN fs : fs[i].severity = Critical
        /\ Totals(fs)[High] > 0 <=> \E i \in DOMAIN fs : fs[i].severity = High
    BY <1>2, TotalsTell DEF IsFindings
  <2> QED BY <2>1, CodesAgree
<1> QED BY <1>5, <1>6, <1>7 DEF sarif, gitlab, rdjsonl

-----------------------------------------------------------------------------
(* `clawreview stats'.                                                     *)

\* What the options of a request of `clawreview stats' have in common: the findings
\* that pass a floor, and high ones to fail on.
IsRequest(args, floor) ==
    /\ args.floor = floor /\ args.threshold = Nit /\ args.failOn = {High}
    /\ args.by \in {"severity", "agent"} /\ args.format \in {"text", "json"}
    /\ args.top.agent \in {{}, {1}}
    /\ args.format = "json" => args.header /\ args.filterSummary

\* Each line is such a request.
LEMMA LinesAreRequests ==
    ASSUME NEW floor, NEW line \in StatsLines(floor)
    PROVE  IsRequest(line, floor)
<1> DEFINE Line(format, cut, shape) ==
               [by |-> "agent", format |-> format, floor |-> floor, threshold |-> Nit, failOn |-> {High},
                top |-> [file |-> cut, agent |-> cut, category |-> {}], filterSummary |-> shape # "plain",
                header |-> shape \in {"header", "stream", "short"},
                jsonl |-> shape \in {"stream", "short"}, noFooter |-> shape = "short"]
<1>1. \E format \in {"text", "json"}, cut \in {{}, {1}}, shape \in {"plain", "summary", "header", "stream", "short"} :
          /\ line = Line(format, cut, shape)
          /\ format = "json" => shape \in {"header", "stream", "short"}
  <2>1. line \in {Line("text", {}, "plain"), Line("text", {1}, "summary"), Line("json", {1}, "header"),
                  Line("json", {}, "stream"), Line("json", {}, "short")}
    BY DEF StatsLines
  <2> HIDE DEF Line
  <2> QED BY <2>1
<1>2. ASSUME NEW format \in {"text", "json"}, NEW cut \in {{}, {1}},
             NEW shape, format = "json" => shape \in {"header", "stream", "short"}
      PROVE  IsRequest(Line(format, cut, shape), floor)
  BY <1>2 DEF IsRequest
<1> QED BY <1>1, <1>2

\* What it is answered, from the digest and the totals.
LEMMA StatsAnswer ==
    ASSUME NEW report, NEW floor, NEW args, IsRequest(args, floor),
           NEW digest, digest = FindingDigest(report.findings, floor, Nit),
           NEW totals, totals = StatsTotals(report, digest)
    PROVE  LET ran == RunStats(report, args)
           IN  /\ ran.exit = StatsExit(totals, {High})
               /\ ran.text = IF args.format = "text" THEN <<StatsText(report, args, totals, digest)>>
                             ELSE <<>>
               /\ ran.json = IF args.format = "json" THEN <<StatsJson(report, args, totals, digest)>>
                             ELSE <<>>
<1>1. ~(\/ args.by \notin {"severity", "agent", "category", "file"} \/ args.format \notin {"text", "json"})
  BY DEF IsRequest
<1>2. args.floor = floor /\ args.threshold = Nit /\ args.failOn = {High}
  BY DEF IsRequest
<1> QED BY <1>1, <1>2 DEF RunStats

\* The header says how many findings are left out.
LEMMA HeaderTells ==
    ASSUME NEW report, IsFindings(report.findings), NEW floor, NEW args, IsRequest(args, floor),
           NEW digest, digest = FindingDigest(report.findings, floor, Nit)
    PROVE  /\ FilterSummary(report, args, digest)
                = [showing |-> digest.total, inputTotal |-> Len(report.findings),
                   droppedTotal |-> Len(report.findings) - digest.total, floorApplied |-> floor > 0]
           /\ digest.total \in Nat /\ Len(report.findings) \in Nat
<1>1. args.floor = floor /\ args.threshold = Nit
  BY DEF IsRequest
<1>2. FilterReport(report.findings, floor, Nit)
         = [inputTotal |-> Len(report.findings), droppedTotal |-> Len(report.findings) - digest.total,
            floorApplied |-> floor > 0]
  BY DEF FilterReport
<1> DEFINE fs == report.findings
           counted == Selected(fs, {i \in DOMAIN fs : Passes(fs[i], floor, Nit)})
<1>3. digest.total = Len(counted)
  BY DEF FindingDigest
<1>4. Len(counted) \in Nat /\ Len(fs) \in Nat
  <2>1. IsSequence(fs)
    BY DEF IsFindings
  <2> HIDE DEF fs
  <2>2. IsSequence(counted)
    BY <2>1, SelectedIsSequence
  <2> HIDE DEF counted
  <2> QED BY <2>1, <2>2, SequenceFacts
<1> QED BY <1>1, <1>2, <1>3, <1>4 DEF FilterSummary

\* A breakdown has no more rows than there are values.
LEMMA TopsAreBounded ==
    ASSUME NEW counts, Cardinality(DOMAIN counts) \in Nat, NEW given \in {{}, {1}}
    PROVE  TopRows(counts, TopFlag(given, DefaultTop.agent)).rows <= Cardinality(DOMAIN counts)
<1> DEFINE n == TopFlag(given, DefaultTop.agent)
           c == Cardinality(DOMAIN counts)
<1>1. n \in Int
  <2>1. CASE given = {}
    BY <2>1 DEF TopFlag, DefaultTop
  <2>2. CASE given = {1}
    <3>1. (CHOOSE k \in given : TRUE) = 1
      BY <2>2
    <3>2. Min({MaxTop, 1}) = 1
      BY OfTwo DEF MaxTop
    <3>3. Max({1, 1}) = 1
      BY DEF Max
    <3>4. n = Max({1, Min({MaxTop, CHOOSE k \in given : TRUE})})
      BY <2>2 DEF TopFlag
    <3>5. n = 1
      BY <3>1, <3>2, <3>3, <3>4
    <3> QED BY <3>5
  <2> QED BY <2>1, <2>2
<1> HIDE DEF n
<1>2. TopRows(counts, n).rows = Min({n, c})
  BY DEF TopRows
<1> HIDE DEF c
<1>3. c \in Nat
  BY DEF c
<1>4. Min({n, c}) <= c
  BY <1>1, <1>3, OfTwo
<1> QED BY <1>2, <1>4 DEF n, c

\* The request that OneSummary compares the others with.
FullRequest(floor) ==
    [by |-> "severity", format |-> "json", floor |-> floor, threshold |-> Nit,
     failOn |-> {High}, top |-> [file |-> {}, agent |-> {}, category |-> {}],
     filterSummary |-> TRUE, header |-> TRUE, jsonl |-> FALSE, noFooter |-> FALSE]

\* The counts that are given do not depend on the request.
LEMMA BreakdownsAgree ==
    ASSUME NEW args, NEW digest
    PROVE  LET tops == Breakdown(args, digest)
           IN  /\ tops["byAgent"] = digest.byAgent /\ tops["byCategory"] = digest.byCategory
               /\ tops["byFile"] = digest.byFile
               /\ tops.topAgents = TopRows(digest.byAgent, TopFlag(args.top.agent, DefaultTop.agent))
  BY DEF Breakdown

\* Whatever way a report's findings are counted by, with its totals or without.
LEMMA SummariesAgree ==
    ASSUME NEW report, IsFindings(report.findings), NEW floor,
           LET fs == report.findings
               counted == Selected(fs, {i \in DOMAIN fs : Passes(fs[i], floor, Nit)})
           IN  DOMAIN report.totals = {} \/ report.totals = Totals(counted)
    PROVE  OneSummary(report, floor)
<1> DEFINE fs == report.findings
           counted == Selected(fs, {i \in DOMAIN fs : Passes(fs[i], floor, Nit)})
           digest == FindingDigest(fs, floor, Nit)
           totals == StatsTotals(report, digest)
           summary == FilterSummary(report, FullRequest(floor), digest)
           document == [totals |-> totals, counts |-> Breakdown(FullRequest(floor), digest)]
           whole == RunStats(report, FullRequest(floor))
<1>1. IsFindings(counted)
  <2>1. IsSequence(counted) /\ ToSet(counted) = {fs[i] : i \in {j \in DOMAIN fs : Passes(fs[j], floor, Nit)}}
    BY SelectedIsSequence DEF IsFindings
  <2>2. \A i \in DOMAIN fs : fs[i] \in ToSet(fs)
    BY DEF ToSet
  <2> HIDE DEF counted
  <2> QED BY <2>1, <2>2 DEF IsFindings
<1>2. /\ digest.total = Len(counted) /\ digest.totalsBySeverity = Totals(counted)
      /\ digest.byAgent = CountBy(counted, "agent")
  BY DEF FindingDigest
<1>3. totals = Totals(counted)
  <2> HIDE DEF counted, digest
  <2> QED BY <1>2 DEF StatsTotals, counted
<1>4. Cardinality(DOMAIN digest.byAgent) \in Nat
  BY <1>1, <1>2, FewValues DEF IsFindings
<1>5. IsRequest(FullRequest(floor), floor)
  BY DEF IsRequest, FullRequest
<1>6. summary.showing = digest.total /\ summary.droppedTotal = Len(fs) - digest.total
      /\ digest.total \in Nat /\ Len(fs) \in Nat
  BY <1>5, HeaderTells
<1>7. /\ document.totals = totals /\ document.counts["byAgent"] = digest.byAgent
      /\ document.counts["byCategory"] = digest.byCategory /\ document.counts["byFile"] = digest.byFile
  BY BreakdownsAgree
<1> HIDE DEF counted, digest, totals
<1>8. /\ whole.exit = StatsExit(totals, {High})
      /\ whole.json[1].header = <<summary>> /\ whole.json[1].document[1] = document
  <2>1. /\ whole.exit = StatsExit(totals, {High})
        /\ whole.json = <<StatsJson(report, FullRequest(floor), totals, digest)>>
    <3>1. FullRequest(floor).format = "json"
      BY DEF FullRequest
    <3> DEFINE args == FullRequest(floor)
    <3>2. IsRequest(args, floor)
      BY <1>5
    <3> HIDE DEF args
    <3>3. LET ran == RunStats(report, args)
          IN  /\ ran.exit = StatsExit(totals, {High})
              /\ ran.json = IF args.format = "json" THEN <<StatsJson(report, args, totals, digest)>>
                            ELSE <<>>
      BY <3>2, StatsAnswer DEF digest, totals
    <3> QED BY <3>1, <3>3 DEF args
  <2> DEFINE json == StatsJson(report, FullRequest(floor), totals, digest)
  <2>2. json.header = <<summary>> /\ json.document = <<document>>
    BY DEF StatsJson, FullRequest
  <2> HIDE DEF json, summary, document, whole
  <2>3. whole.json[1] = json
    BY <2>1 DEF json
  <2> QED BY <2>1, <2>2, <2>3
<1> HIDE DEF summary, document, whole
<1>9. summary.showing + summary.droppedTotal = Len(fs)
  BY <1>6
<1>10. summary.showing = Total([s \in 1 .. Nit + 1 |-> document.totals[s - 1]])
  BY <1>1, <1>2, <1>3, <1>6, <1>7, SeveritiesAddUp
<1>11. ASSUME NEW line \in StatsLines(floor)
       PROVE  LET ran == RunStats(report, line)
              IN  /\ ran.exit = whole.exit
                  /\ \A i \in DOMAIN ran.text :
                        /\ ran.text[i].header \in {<<>>, <<summary>>}
                        /\ ran.text[i].severity = document.totals
                        /\ ran.text[i].agent.rows <= Cardinality(DOMAIN document.counts.byAgent)
                  /\ \A i \in DOMAIN ran.json :
                        /\ ran.json[i].header = <<summary>>
                        /\ \A b \in DOMAIN ran.json[i].buckets :
                              LET bucket == ran.json[i].buckets[b]
                              IN  bucket.count = document.totals[bucket.severity]
                        /\ \A d \in DOMAIN ran.json[i].footer :
                              \A k \in {"byAgent", "byCategory", "byFile"} :
                                  ran.json[i].footer[d][k] = document.counts[k]
  <2> DEFINE ran == RunStats(report, line)
             text == StatsText(report, line, totals, digest)
             json == StatsJson(report, line, totals, digest)
             tops == Breakdown(line, digest)
  <2>1. IsRequest(line, floor)
    BY LinesAreRequests
  <2>2. /\ ran.exit = StatsExit(totals, {High})
        /\ ran.text = IF line.format = "text" THEN <<text>> ELSE <<>>
        /\ ran.json = IF line.format = "json" THEN <<json>> ELSE <<>>
    BY <2>1, StatsAnswer DEF digest, totals
  <2>3. FilterSummary(report, line, digest) = summary
    <3>1. \A args : IsRequest(args, floor) =>
             FilterSummary(report, args, digest)
                = [showing |-> digest.total, inputTotal |-> Len(report.findings),
                   droppedTotal |-> Len(report.findings) - digest.total, floorApplied |-> floor > 0]
      BY HeaderTells DEF digest
    <3> QED BY <1>5, <2>1, <3>1 DEF summary
  <2>4. /\ tops["byAgent"] = digest.byAgent /\ tops["byCategory"] = digest.byCategory
        /\ tops["byFile"] = digest.byFile
        /\ tops.topAgents = TopRows(digest.byAgent, TopFlag(line.top.agent, DefaultTop.agent))
    BY BreakdownsAgree
  <2>5. /\ text.header \in {<<>>, <<summary>>} /\ text.severity = document.totals
        /\ text.agent.rows <= Cardinality(DOMAIN document.counts.byAgent)
    <3>1. text.header = (IF line.filterSummary THEN <<FilterSummary(report, line, digest)>> ELSE <<>>)
          /\ text.severity = totals /\ text.agent = tops.topAgents
      BY DEF StatsText
    <3> HIDE DEF text, tops
    <3>2. line.top.agent \in {{}, {1}}
      BY <2>1 DEF IsRequest
    <3>3. text.agent.rows <= Cardinality(DOMAIN digest.byAgent)
      BY <1>4, <2>4, <3>1, <3>2, TopsAreBounded
    <3> QED BY <1>7, <2>3, <3>1, <3>3
  <2>6. ASSUME line.format = "json"
        PROVE  /\ json.header = <<summary>>
               /\ \A b \in DOMAIN json.buckets :
                     json.buckets[b].count = document.totals[json.buckets[b].severity]
               /\ \A d \in DOMAIN json.footer : \A k \in {"byAgent", "byCategory", "byFile"} :
                     json.footer[d][k] = document.counts[k]
    <3> DEFINE stream == line.header /\ line.filterSummary /\ line.jsonl
    <3>1. line.header /\ line.filterSummary
      BY <2>1, <2>6 DEF IsRequest
    <3>2. json.header = <<FilterSummary(report, line, digest)>>
      BY <3>1 DEF StatsJson
    <3>3. json.buckets = IF stream
                         THEN [n \in 1 .. Nit + 1 |-> [severity |-> n - 1, count |-> totals[n - 1]]]
                         ELSE <<>>
      BY DEF StatsJson
    <3>4. json.footer = IF stream /\ ~line.noFooter THEN <<tops>> ELSE <<>>
      BY DEF StatsJson
    <3> HIDE DEF json, stream, tops
    <3>5. ASSUME NEW b \in DOMAIN json.buckets
          PROVE  json.buckets[b].count = document.totals[json.buckets[b].severity]
      <4>1. CASE stream
        BY <1>7, <3>3, <3>5, <4>1
      <4>2. CASE ~stream
        BY <3>3, <3>5, <4>2
      <4> QED BY <4>1, <4>2
    <3>6. ASSUME NEW d \in DOMAIN json.footer, NEW k \in {"byAgent", "byCategory", "byFile"}
          PROVE  json.footer[d][k] = document.counts[k]
      <4>1. json.footer[d] = tops
        BY <3>4, <3>6
      <4>2. tops[k] = document.counts[k]
        BY <1>7, <2>4, <3>6
      <4> QED BY <4>1, <4>2
    <3> QED BY <2>3, <3>2, <3>5, <3>6
  <2> HIDE DEF ran, text, json
  <2>7. \A i \in DOMAIN ran.text : ran.text[i] = text
    BY <2>2
  <2>8. \A i \in DOMAIN ran.json : ran.json[i] = json /\ line.format = "json"
    BY <2>2
  <2>9. ran.exit = whole.exit
    BY <1>8, <2>2
  <2> QED BY <2>5, <2>6, <2>7, <2>8, <2>9 DEF ran
<1> DEFINE header == whole.json[1].header
           shown == whole.json[1].document[1]
<1>12. header = <<summary>> /\ header[1] = summary /\ shown = document
  BY <1>8
<1>13. /\ header[1].showing + header[1].droppedTotal = Len(fs)
       /\ header[1].showing = Total([s \in 1 .. Nit + 1 |-> shown.totals[s - 1]])
  BY <1>9, <1>10, <1>12
<1>14. ASSUME NEW line \in StatsLines(floor)
       PROVE  LET ran == RunStats(report, line)
              IN  /\ ran.exit = whole.exit
                  /\ \A i \in DOMAIN ran.text :
                        /\ ran.text[i].header \in {<<>>, header}
                        /\ ran.text[i].severity = shown.totals
                        /\ ran.text[i].agent.rows <= Cardinality(DOMAIN shown.counts.byAgent)
                  /\ \A i \in DOMAIN ran.json :
                        /\ ran.json[i].header = header
                        /\ \A b \in DOMAIN ran.json[i].buckets :
                              LET bucket == ran.json[i].buckets[b]
                              IN  bucket.count = shown.totals[bucket.severity]
                        /\ \A d \in DOMAIN ran.json[i].footer :
                              \A k \in {"byAgent", "byCategory", "byFile"} :
                                  ran.json[i].footer[d][k] = shown.counts[k]
  BY <1>11, <1>12
<1> HIDE DEF header, shown, fs
<1> QED BY <1>13, <1>14 DEF OneSummary, whole, FullRequest, header, shown, fs

\* The formats of a local run tell of one report.
THEOREM OneReportTold ==
    ASSUME NEW local, IsFindings(local.findings), {"findings", "totals"} \subseteq DOMAIN local,
           local.totals = Totals(local.findings)
    PROVE  OneReport(local)
<1> DEFINE fs == local.findings
           sarif == SarifLog(fs)
           gitlab == GitlabIssues(fs)
           rdjsonl == RdjsonlDiagnostics(fs)
           serious == {i \in DOMAIN fs : fs[i].severity \in {Critical, High}}
           told == {i \in DOMAIN sarif.results : sarif.results[i].level = "error"}
           bare == [local EXCEPT !.totals = <<>>]
<1>1. IsFindings(fs) /\ IsSequence(fs) /\ local.totals = Totals(fs)
  BY DEF IsFindings
<1>2. /\ told = serious
      /\ serious = {i \in DOMAIN gitlab : gitlab[i].severity \in {"blocker", "critical"}}
      /\ serious = {i \in DOMAIN rdjsonl : rdjsonl[i].severity = "ERROR"}
      /\ Cardinality(serious) = JUnit(fs).failures
      /\ serious = {} <=> ExitCode(Totals(fs), Nit + 1) = 0
  <2> HIDE DEF fs
  <2> QED BY <1>1, FormatsAgree
<1>3. ASSUME NEW i \in DOMAIN gitlab
      PROVE  /\ sarif.rules[sarif.results[i].rule].id = gitlab[i].check
             /\ sarif.results[i].print = rdjsonl[i].print
  <2> HIDE DEF fs
  <2>1. i \in DOMAIN fs /\ gitlab[i].check = RuleId(fs[i])
    BY DEF GitlabIssues
  <2>2. sarif.rules[sarif.results[i].rule].id = RuleId(fs[i])
    BY <1>1, <2>1, RulesCover
  <2>3. sarif.results[i].print = Fingerprint(fs[i]) /\ rdjsonl[i].print = Fingerprint(fs[i])
    BY <2>1 DEF SarifLog, RdjsonlDiagnostics
  <2> QED BY <2>1, <2>2, <2>3
<1>4. ASSUME NEW failOn \in Severities
      PROVE  StatsExit(StatsTotals(local, FindingDigest(fs, 0, Nit)), {failOn})
                = ExitCode(local.totals, failOn)
  <2>1. DOMAIN local.totals # {}
    BY <1>1, TotalsTell
  <2>2. StatsTotals(local, FindingDigest(fs, 0, Nit)) = local.totals
    BY <2>1 DEF StatsTotals
  <2> QED BY <2>2, StatsFailsAlike
<1>5. OneSummary(local, 0)
  <2> DEFINE P == {i \in DOMAIN fs : Passes(fs[i], 0, Nit)}
  <2>1. P = DOMAIN fs
    <3>1. \A i \in DOMAIN fs : fs[i].severity \in Severities /\ fs[i].confidence \in 0 .. 100
      <4>1. \A i \in DOMAIN fs : fs[i] \in ToSet(fs)
        BY <1>1, SequenceFacts
      <4> QED BY <1>1, <4>1 DEF IsFindings, IsFinding
    <3>2. Severities = 0 .. 4 /\ Nit = 4
      BY DEF Severities, Critical, Nit
    <3> QED BY <3>1, <3>2 DEF Passes
  <2>2. Selected(fs, P) = fs
    BY <1>1, <2>1, SelectedAll
  <2> QED BY <1>1, <2>2, SummariesAgree
<1>6. OneSummary(bare, 70)
  <2>1. bare.findings = fs /\ bare.totals = <<>>
    OBVIOUS
  <2>2. DOMAIN <<>> = {}
    OBVIOUS
  <2> HIDE DEF bare, fs
  <2>3. IsFindings(bare.findings) /\ DOMAIN bare.totals = {}
    BY <1>1, <2>1, <2>2
  <2> QED BY <2>3, SummariesAgree
<1> HIDE DEF sarif, gitlab, rdjsonl, bare, fs, serious, told
<1>7. /\ told = {i \in DOMAIN gitlab : gitlab[i].severity \in {"blocker", "critical"}}
      /\ told = {i \in DOMAIN rdjsonl : rdjsonl[i].severity = "ERROR"}
      /\ Cardinality(told) = JUnit(fs).failures
      /\ told = {} <=> ExitCode(local.totals, Nit + 1) = 0
  BY <1>1, <1>2
<1> QED BY <1>3, <1>4, <1>5, <1>6, <1>7 DEF OneReport, sarif, gitlab, rdjsonl, bare, fs, told

-----------------------------------------------------------------------------
(* `clawreview authors' and `clawreview explain'.                          *)

\* The lines of a parsed diff have numbers.
LEMMA LinesAreNumbers ==
    ASSUME NEW files, \A f \in ToSet(files) : IsFile(f), NEW path
    PROVE  CommentableLines(files, path) \subseteq Int
<1> SUFFICES ASSUME NEW f \in ToSet(files), NEW h \in ToSet(f.hunks), NEW i \in DOMAIN h.lines
             PROVE  LineNumber(h, i) \in Int
  BY DEF CommentableLines
<1>1. h.at \in Nat /\ IsSequence(h.lines)
  BY DEF IsFile
<1>2. i \in Nat /\ i \in 1 .. Len(h.lines) /\ Len(h.lines) \in Nat
  BY <1>1, SequenceFacts
<1> DEFINE S == {k \in 1 .. i - 1 : NewSide(h.lines[k])}
<1>3. Cardinality(S) \in Nat
  <2>1. IsFiniteSet(1 .. i - 1)
    BY <1>2, UpToCount
  <2>2. IsFiniteSet(S)
    BY <2>1, FS_Subset
  <2> QED BY <2>2, FS_CardinalityType
<1> HIDE DEF S
<1> QED BY <1>1, <1>3 DEF LineNumber, S

\* Every finding is charged to one author, or to none.
LEMMA ChargedOnce ==
    ASSUME NEW fs, IsFindings(fs), NEW blame, \A at \in DOMAIN blame : blame[at] \in {1, 2}
    PROVE  LET breakdown == AuthorBreakdown(fs, blame)
               authors == breakdown.authors
               charged == UNION {ToSet(authors[a].findings) : a \in DOMAIN authors}
           IN  /\ charged \cup ToSet(breakdown.unknown) = ToSet(fs)
               /\ DOMAIN authors \subseteq {1, 2}
               /\ Len(breakdown.unknown)
                    + Total([a \in 1 .. 2 |-> IF a \in DOMAIN authors THEN authors[a].total ELSE 0])
                    = Len(fs)
               /\ \A a \in DOMAIN authors :
                     Conclusion(authors[a].bySeverity) = "failure" <=> authors[a].worst = Critical
<1> DEFINE D == DOMAIN fs
           at(i) == <<fs[i].file, fs[i].line>>
           known == {i \in D : at(i) \in DOMAIN blame}
           by(a) == {i \in known : blame[at(i)] = a}
           By(a) == Selected(fs, by(a))
           breakdown == AuthorBreakdown(fs, blame)
           authors == breakdown.authors
           unknown == breakdown.unknown
<1>1. IsSequence(fs) /\ \A i \in D : fs[i].severity \in Severities
  <2>1. IsSequence(fs)
    BY DEF IsFindings
  <2>2. \A i \in D : fs[i] \in ToSet(fs)
    BY <2>1, SequenceFacts
  <2> QED BY <2>1, <2>2 DEF IsFindings, IsFinding
<1>2. Len(fs) \in Nat /\ D = 1 .. Len(fs) /\ IsFiniteSet(D) /\ Cardinality(D) = Len(fs)
  BY <1>1, SequenceFacts, UpToCount
<1>3. /\ DOMAIN authors = {blame[at(i)] : i \in known}
      /\ \A a \in DOMAIN authors :
            /\ authors[a].findings = By(a) /\ authors[a].bySeverity = Totals(By(a))
            /\ authors[a].total = Len(By(a))
            /\ authors[a].worst = Min({f.severity : f \in ToSet(By(a))})
      /\ unknown = Selected(fs, D \ known)
  BY DEF AuthorBreakdown
<1> HIDE DEF authors, unknown
<1>4. ASSUME NEW P \in SUBSET D
      PROVE  /\ IsSequence(Selected(fs, P)) /\ ToSet(Selected(fs, P)) = {fs[i] : i \in P}
             /\ Len(Selected(fs, P)) = Cardinality(P) /\ IsFiniteSet(P) /\ Cardinality(P) \in Nat
  <2>1. fs \in Seq(ToSet(fs))
    BY <1>1 DEF IsSequence
  <2>2. Len(Selected(fs, P)) = Cardinality(P) /\ IsFiniteSet(P) /\ Cardinality(P) \in Nat
    BY <2>1, SelectedTells
  <2> QED BY <1>1, <2>2, SelectedIsSequence
<1>5. known \in SUBSET D /\ D \ known \in SUBSET D /\ \A a : by(a) \in SUBSET D
  OBVIOUS
<1>6. \A i \in known : blame[at(i)] \in {1, 2}
  OBVIOUS
<1>7. DOMAIN authors \subseteq {1, 2}
  BY <1>3, <1>6
<1>8. (UNION {ToSet(authors[a].findings) : a \in DOMAIN authors}) \cup ToSet(unknown) = ToSet(fs)
  <2>1. \A a \in DOMAIN authors : ToSet(authors[a].findings) = {fs[i] : i \in by(a)}
    BY <1>3, <1>4, <1>5
  <2>2. ToSet(unknown) = {fs[i] : i \in D \ known}
    BY <1>3, <1>4, <1>5
  <2>3. ToSet(fs) = {fs[i] : i \in D}
    BY DEF ToSet
  <2>4. \A i \in known : \E a \in DOMAIN authors : i \in by(a)
    BY <1>3
  <2>5. \A a \in DOMAIN authors : by(a) \subseteq D
    BY <1>5
  <2> HIDE DEF known, by, D, at
  <2>6. \A x : (\E a \in DOMAIN authors : x \in ToSet(authors[a].findings)) \/ x \in ToSet(unknown)
               <=> \E i \in D : x = fs[i]
    <3>1. \A x : \A a \in DOMAIN authors :
             x \in ToSet(authors[a].findings) <=> \E i \in by(a) : x = fs[i]
      BY <2>1
    <3>2. \A x : x \in ToSet(unknown) <=> \E i \in D \ known : x = fs[i]
      BY <2>2
    <3> QED BY <1>5, <2>4, <2>5, <3>1, <3>2
  <2>7. \A x : x \in ToSet(fs) <=> \E i \in D : x = fs[i]
    BY <2>3
  <2>8. \A x : x \in UNION {ToSet(authors[a].findings) : a \in DOMAIN authors}
               <=> \E a \in DOMAIN authors : x \in ToSet(authors[a].findings)
    OBVIOUS
  <2> QED BY <2>6, <2>7, <2>8
<1>9. Len(unknown) + Total([a \in 1 .. 2 |-> IF a \in DOMAIN authors THEN authors[a].total ELSE 0])
         = Len(fs)
  <2> DEFINE ns == [a \in 1 .. 2 |-> IF a \in DOMAIN authors THEN authors[a].total ELSE 0]
             class == [i \in known |-> blame[at(i)]]
             m == 2
  <2>1. ASSUME NEW a \in 1 .. 2 PROVE ns[a] = Cardinality(by(a)) /\ Cardinality(by(a)) \in Nat
    <3>1. CASE a \in DOMAIN authors
      <4>1. authors[a].total = Len(By(a))
        BY <1>3, <3>1
      <4>2. by(a) \in SUBSET D
        BY <1>5
      <4>3. Len(By(a)) = Cardinality(by(a)) /\ Cardinality(by(a)) \in Nat
        BY <1>4, <4>2
      <4> QED BY <3>1, <4>1, <4>3
    <3>2. CASE a \notin DOMAIN authors
      <4>1. by(a) = {}
        BY <1>3, <3>2
      <4> HIDE DEF by
      <4>2. Cardinality(by(a)) = 0
        BY <4>1, FS_EmptySet
      <4> QED BY <3>2, <4>2
    <3> QED BY <3>1, <3>2
  <2>2. m \in Nat /\ ns \in Seq(Nat) /\ Len(ns) = m
    <3>1. \A a \in 1 .. 2 : ns[a] \in Nat
      <4> HIDE DEF ns, by
      <4> QED BY <2>1
    <3>2. ns = [a \in 1 .. 2 |-> ns[a]]
      OBVIOUS
    <3>3. m \in Nat /\ m = 2
      OBVIOUS
    <3> HIDE DEF ns, m
    <3>4. ns \in [1 .. m -> Nat]
      BY <3>1, <3>2, <3>3
    <3>5. m \in Nat
      BY <3>3
    <3>6. ns \in Seq(Nat) /\ Len(ns) = m
      BY <3>4, <3>5
    <3> QED BY <3>5, <3>6
  <2>3. \A d \in known : class[d] \in 1 .. m
    BY <1>6
  <2>4. \A a \in 1 .. m : ns[a] = Cardinality({d \in known : class[d] = a})
    <3>1. \A a : {d \in known : class[d] = a} = by(a)
      OBVIOUS
    <3> HIDE DEF ns, class, by, known
    <3> QED BY <2>1, <3>1
  <2>5. IsFiniteSet(known) /\ IsFiniteSet(D \ known) /\ Cardinality(known) \in Nat
        /\ Cardinality(D \ known) \in Nat /\ Len(unknown) = Cardinality(D \ known)
    BY <1>3, <1>4, <1>5
  <2> HIDE DEF ns, class, known, m, D
  <2>6. Total(ns) = Cardinality(known)
    <3>1. IsFiniteSet(known)
      BY <2>5
    <3> QED BY <2>2, <2>3, <2>4, <3>1, CountsAddUp
  <2>7. Cardinality(known) + Cardinality(D \ known) = Cardinality(D)
    <3>1. known \cup (D \ known) = D /\ known \cap (D \ known) = {}
      BY <1>5
    <3>2. Cardinality(known \cup (D \ known))
             = Cardinality(known) + Cardinality(D \ known) - Cardinality(known \cap (D \ known))
      BY <2>5, FS_Union
    <3>3. Cardinality(known \cap (D \ known)) = 0
      BY <3>1, FS_EmptySet
    <3>4. Cardinality(D) = Cardinality(known \cup (D \ known))
      BY <3>1
    <3> QED BY <2>5, <3>2, <3>3, <3>4
  <2> QED BY <1>2, <2>5, <2>6, <2>7 DEF ns, D
<1>10. ASSUME NEW a \in DOMAIN authors
       PROVE  Conclusion(authors[a].bySeverity) = "failure" <=> authors[a].worst = Critical
  <2> DEFINE own == By(a)
             levels == {f.severity : f \in ToSet(own)}
  <2>1. /\ IsSequence(own) /\ ToSet(own) = {fs[i] : i \in by(a)}
    BY <1>4, <1>5
  <2>2. \E i \in known : blame[at(i)] = a
    BY <1>3
  <2>3. Critical = 0 /\ Severities = 0 .. 4 /\ Critical \in Severities
    BY DEF Severities, Critical, Nit
  <2>4. levels \in SUBSET (0 .. 4) /\ levels # {}
    <3>1. ToSet(own) # {}
      <4>1. by(a) # {}
        BY <2>2
      <4> HIDE DEF own, by
      <4> QED BY <2>1, <4>1
    <3>2. \A f \in ToSet(own) : f.severity \in 0 .. 4
      <4> HIDE DEF own
      <4> QED BY <1>1, <1>5, <2>1, <2>3
    <3> HIDE DEF own
    <3> QED BY <3>1, <3>2
  <2>5. /\ authors[a].bySeverity = Totals(own) /\ authors[a].worst = Min(levels)
    BY <1>3
  <2>6. Totals(own)[Critical] > 0 <=> \E i \in DOMAIN own : own[i].severity = Critical
    <3> HIDE DEF own
    <3> QED BY <2>1, <2>3, TotalsTell
  <2>7. (\E i \in DOMAIN own : own[i].severity = Critical) <=> Critical \in levels
    <3> HIDE DEF own
    <3> QED BY DEF ToSet
  <2> HIDE DEF own, levels
  <2>8. Min(levels) \in levels /\ \A u \in levels : Min(levels) <= u
    BY <2>4, MinMax
  <2>9. Min(levels) = Critical <=> Critical \in levels
    <3> DEFINE least == Min(levels)
    <3>1. least \in levels /\ \A u \in levels : least <= u
      BY <2>8
    <3> HIDE DEF least
    <3>2. least = Critical <=> Critical \in levels
      BY <2>3, <2>4, <3>1
    <3> QED BY <3>2 DEF least
  <2> QED BY <2>5, <2>6, <2>7, <2>9, CodesAgree
<1> HIDE DEF D, at, known, by, By, breakdown
<1>11. authors = AuthorBreakdown(fs, blame).authors /\ unknown = AuthorBreakdown(fs, blame).unknown
  BY DEF authors, unknown, breakdown
<1> QED BY <1>7, <1>8, <1>9, <1>10, <1>11

\* `clawreview explain' finds a finding by its fingerprint, unless there is another
\* with the same.
LEMMA ExplainFinds ==
    ASSUME NEW report, IsSequence(report.findings), NEW f \in ToSet(report.findings)
    PROVE  LET answer == RunExplain(report, {Fingerprint(f)})
           IN  \/ answer.shown = <<f>>
               \/ /\ answer.candidates > 1
                  /\ Cardinality(DOMAIN IndexByFingerprint(report.findings)) < Len(report.findings)
<1> DEFINE fs == report.findings
           n == Len(fs)
           P == {Fingerprint(f)}
           M == {i \in DOMAIN fs : Fingerprint(fs[i]) \in P}
           matches == Selected(fs, M)
           answer == RunExplain(report, P)
<1>1. n \in Nat /\ DOMAIN fs = 1 .. n /\ fs \in Seq(ToSet(fs)) /\ IsFiniteSet(1 .. n) /\ Cardinality(1 .. n) = n
  BY SequenceFacts, UpToCount DEF IsSequence
<1>2. PICK j \in DOMAIN fs : f = fs[j]
  BY SequenceFacts
<1>3. j \in M /\ M \in SUBSET DOMAIN fs
  BY <1>2
<1>4. /\ IsFiniteSet(M) /\ Cardinality(M) \in Nat /\ matches \in Seq(ToSet(fs)) /\ Len(matches) = Cardinality(M)
      /\ \A k \in 1 .. Cardinality(M) : matches[k] = fs[Ascending(M)[k]] /\ Ascending(M)[k] \in M
  <2> HIDE DEF n, M, fs
  <2>1. /\ IsFiniteSet(M) /\ Cardinality(M) \in Nat /\ Selected(fs, M) \in Seq(ToSet(fs)) /\ Len(Selected(fs, M)) = Cardinality(M)
        /\ \A k \in 1 .. Cardinality(M) : Selected(fs, M)[k] = fs[Ascending(M)[k]] /\ Ascending(M)[k] \in M
    BY <1>1, <1>3, SelectedTells
  <2> QED BY <2>1
<1>5. answer = CASE matches = <<>> -> [exit |-> 1, shown |-> <<>>, candidates |-> 0]
                 [] Len(matches) = 1 -> [exit |-> 0, shown |-> matches, candidates |-> 0]
                 [] Len(matches) > 1 ->
                       [exit |-> 2, shown |-> <<>>, candidates |-> Min({ListedCandidates, Len(matches)})]
  BY DEF RunExplain
<1> HIDE DEF answer, M, matches
<1>6. Cardinality(M) >= 1
  <2>1. Cardinality(M) # 0
    BY <1>3, <1>4, FS_EmptySet
  <2> QED BY <1>4, <2>1
<1>7. ASSUME Cardinality(M) = 1 PROVE answer.shown = <<f>>
  <2>1. M = {j}
    BY <1>3, <1>4, <1>7, FS_Singleton
  <2>2. matches[1] = f
    BY <1>2, <1>4, <1>7, <2>1
  <2>3. Len(matches) = 1 /\ matches # <<>>
    <3>1. Len(matches) = 1
      BY <1>4, <1>7
    <3>2. Len(<<>>) = 0
      OBVIOUS
    <3> QED BY <3>1, <3>2
  <2>4. matches = <<f>>
    <3> DEFINE g == <<f>>
    <3>1. g \in Seq(ToSet(fs)) /\ Len(g) = 1 /\ g[1] = f
      OBVIOUS
    <3>2. matches \in Seq(ToSet(fs)) /\ Len(matches) = 1 /\ matches[1] = f
      BY <1>4, <2>2, <2>3
    <3> HIDE DEF g, fs
    <3>3. DOMAIN matches = 1 .. 1 /\ DOMAIN g = 1 .. 1 /\ \A i \in 1 .. 1 : matches[i] = g[i]
      BY <3>1, <3>2
    <3>4. matches = [i \in 1 .. 1 |-> matches[i]] /\ g = [i \in 1 .. 1 |-> g[i]]
      BY <3>1, <3>2
    <3>5. matches = g
      BY <3>3, <3>4
    <3> QED BY <3>5 DEF g
  <2>5. answer.shown = matches
    BY <1>5, <2>3
  <2> QED BY <2>4, <2>5
<1>8. ASSUME Cardinality(M) > 1
      PROVE  answer.candidates > 1 /\ Cardinality(DOMAIN IndexByFingerprint(fs)) < Len(fs)
  <2>1. Len(matches) > 1 /\ matches # <<>> /\ Len(matches) # 1 /\ Len(matches) \in Nat
    BY <1>4, <1>8
  <2>2. answer.candidates = Min({ListedCandidates, Len(matches)})
    BY <1>5, <2>1
  <2>3. Min({ListedCandidates, Len(matches)}) > 1
    <3> DEFINE l == Len(matches)
               c == ListedCandidates
    <3>1. l \in Int /\ l > 1 /\ c \in Int /\ c > 1
      BY <2>1 DEF ListedCandidates
    <3> HIDE DEF l, c
    <3>2. Min({c, l}) = IF c <= l THEN c ELSE l
      BY <3>1, OfTwo
    <3>3. Min({c, l}) > 1
      BY <3>1, <3>2
    <3> QED BY <3>3 DEF l, c
  <2>4. PICK k \in M : k # j
    <3>1. Cardinality({j}) = 1
      BY FS_Singleton
    <3>2. M # {j}
      BY <1>8, <3>1
    <3> QED BY <1>3, <3>2
  <2> DEFINE prints == {Fingerprint(g) : g \in ToSet(fs)}
             h == [i \in 1 .. n |-> Fingerprint(fs[i])]
  <2>5. h \in Surjection(1 .. n, prints)
    <3>1. ToSet(fs) = {fs[i] : i \in 1 .. n}
      BY <1>1 DEF ToSet
    <3>2. h \in [1 .. n -> prints]
      BY <3>1
    <3>3. \A p \in prints : \E i \in 1 .. n : h[i] = p
      BY <3>1
    <3> HIDE DEF h, prints
    <3> QED BY <3>2, <3>3, Fun_IsSurj
  <2>6. j \in 1 .. n /\ k \in 1 .. n /\ h[j] = h[k]
    BY <1>1, <1>2, <1>3, <2>4 DEF M
  <2>7. DOMAIN IndexByFingerprint(fs) = prints
    BY DEF IndexByFingerprint
  <2> HIDE DEF prints, h, n
  <2>8. h \notin Injection(1 .. n, prints)
    BY <2>4, <2>6 DEF Injection, IsInjective
  <2>9. /\ IsFiniteSet(prints) /\ Cardinality(prints) <= Cardinality(1 .. n)
        /\ Cardinality(prints) # Cardinality(1 .. n)
    BY <1>1, <2>5, <2>8, FS_Surjection
  <2>10. Cardinality(prints) < n
    <3>1. Cardinality(prints) \in Nat
      BY <2>9, FS_CardinalityType
    <3> QED BY <1>1, <2>9, <3>1
  <2> QED BY <2>2, <2>3, <2>7, <2>10 DEF n
<1>9. Cardinality(M) = 1 \/ Cardinality(M) > 1
  BY <1>4, <1>6
<1>10. answer.shown = <<f>> \/ (answer.candidates > 1 /\ Cardinality(DOMAIN IndexByFingerprint(fs)) < Len(fs))
  BY <1>7, <1>8, <1>9
<1> QED BY <1>10 DEF answer

\* The list of authors is cut, and the rest of them counted.
LEMMA AuthorsCut ==
    ASSUME NEW report, NEW blame, NEW all, all = AuthorBreakdown(report.findings, blame),
           IsSequence(report.findings), DOMAIN all.authors \subseteq {1, 2}
    PROVE  LET list == RunAuthors(report, blame, 1)
           IN  list.rows + list.more = Cardinality(DOMAIN all.authors)
<1> DEFINE n == Cardinality(DOMAIN all.authors)
           list == RunAuthors(report, blame, 1)
<1>1. n \in Nat
  <2>1. IsFiniteSet(1 .. 2)
    BY UpToCount
  <2>2. DOMAIN all.authors \in SUBSET (1 .. 2)
    OBVIOUS
  <2>3. IsFiniteSet(DOMAIN all.authors)
    BY <2>1, <2>2, FS_Subset
  <2> QED BY <2>3, FS_CardinalityType
<1>2. Max({1, 1}) = 1
  BY DEF Max
<1>3. CASE report.findings = <<>>
  <2>1. DOMAIN all.authors = {}
    BY <1>3 DEF AuthorBreakdown
  <2>2. n = 0
    BY <2>1, FS_EmptySet
  <2>3. list.rows = 0 /\ list.more = 0
    BY <1>3 DEF RunAuthors
  <2> QED BY <2>2, <2>3
<1>4. CASE report.findings # <<>>
  <2>1. list.rows = Min({1, n}) /\ list.more = Max({0, n - 1})
    BY <1>2, <1>4 DEF RunAuthors
  <2> HIDE DEF n, list
  <2>2. Min({1, n}) = IF 1 <= n THEN 1 ELSE n
    BY <1>1, OfTwo
  <2>3. Max({0, n - 1}) = IF 0 >= n - 1 THEN 0 ELSE n - 1
    BY <1>1 DEF Max
  <2>4. list.rows + list.more = n
    BY <1>1, <2>1, <2>2, <2>3
  <2> QED BY <2>4 DEF n, list
<1> QED BY <1>3, <1>4

\* Whoever wrote the lines, every finding of a report has its address.
LEMMA AddressesTold ==
    ASSUME NEW report, IsFindings(report.findings), NEW files, \A f \in ToSet(files) : IsFile(f)
    PROVE  OneAddress(report, files)
<1> DEFINE fs == report.findings
           paths == {f.path : f \in ToSet(files)}
           lines == UNION {{p} \X CommentableLines(files, p) : p \in paths}
           blame == [at \in lines |-> 1 + (at[2] % 2)]
           breakdown == AuthorBreakdown(fs, blame)
           authors == breakdown.authors
           charged == UNION {ToSet(authors[a].findings) : a \in DOMAIN authors}
           list == RunAuthors(report, blame, 1)
<1>1. \A at \in DOMAIN blame : blame[at] \in {1, 2}
  <2> SUFFICES ASSUME NEW at \in lines PROVE 1 + (at[2] % 2) \in {1, 2}
    OBVIOUS
  <2>1. PICK p \in paths : at \in {p} \X CommentableLines(files, p)
    OBVIOUS
  <2>2. at[2] \in Int
    BY <2>1, LinesAreNumbers
  <2> DEFINE m == at[2] % 2
  <2>3. m \in {0, 1}
    BY <2>2
  <2> HIDE DEF m
  <2>4. 1 + m \in {1, 2}
    BY <2>3
  <2> QED BY <2>4 DEF m
<1>2. IsSequence(fs)
  BY DEF IsFindings
<1> HIDE DEF blame
<1>3. /\ charged \cup ToSet(breakdown.unknown) = ToSet(fs)
      /\ DOMAIN authors \subseteq {1, 2}
      /\ Len(breakdown.unknown)
           + Total([a \in 1 .. 2 |-> IF a \in DOMAIN authors THEN authors[a].total ELSE 0]) = Len(fs)
      /\ \A a \in DOMAIN authors :
            Conclusion(authors[a].bySeverity) = "failure" <=> authors[a].worst = Critical
  BY <1>1, ChargedOnce
<1>4. list.rows + list.more = Cardinality(DOMAIN authors)
  BY <1>2, <1>3, AuthorsCut
<1>5. ASSUME NEW f \in ToSet(fs)
      PROVE  LET answer == RunExplain(report, {Fingerprint(f)})
             IN  \/ answer.shown = <<f>>
                 \/ /\ answer.candidates > 1
                    /\ Cardinality(DOMAIN IndexByFingerprint(fs)) < Len(fs)
  BY <1>2, ExplainFinds
<1> HIDE DEF breakdown, list
<1> QED BY <1>3, <1>4, <1>5 DEF OneAddress, breakdown, list, blame

-----------------------------------------------------------------------------
(* The sizes of a diff.                                                    *)

\* The lines of one kind in a hunk.
OfKind(h, kind) == {i \in DOMAIN h.lines : h.lines[i].kind = kind /\ ~h.lines[i].doubled}

\* How many lines of one kind each hunk of a file has.
KindCounts(file, kind) == [k \in DOMAIN file.hunks |-> Cardinality(OfKind(file.hunks[k], kind))]

\* The lines of a kind are counted hunk by hunk.
LEMMA KindsCounted ==
    ASSUME NEW file, IsFile(file), NEW kind
    PROVE  /\ Len(file.hunks) \in Nat
           /\ KindCounts(file, kind) \in Seq(Nat) /\ Len(KindCounts(file, kind)) = Len(file.hunks)
           /\ Total(KindCounts(file, kind)) \in Nat
<1> DEFINE hs == file.hunks
           n == Len(hs)
           counts == KindCounts(file, kind)
<1>1. n \in Nat /\ DOMAIN hs = 1 .. n /\ \A k \in 1 .. n : hs[k] \in ToSet(hs)
  BY SequenceFacts DEF IsFile
<1>2. ASSUME NEW k \in 1 .. n
      PROVE  IsFiniteSet(OfKind(hs[k], kind)) /\ Cardinality(OfKind(hs[k], kind)) \in Nat
  <2>1. IsSequence(hs[k].lines)
    BY <1>1 DEF IsFile
  <2>2. Len(hs[k].lines) \in Nat /\ DOMAIN hs[k].lines = 1 .. Len(hs[k].lines)
    BY <2>1, SequenceFacts
  <2>3. IsFiniteSet(DOMAIN hs[k].lines)
    BY <2>2, UpToCount
  <2>4. OfKind(hs[k], kind) \in SUBSET DOMAIN hs[k].lines
    BY DEF OfKind
  <2> QED BY <2>3, <2>4, FS_Subset, FS_CardinalityType
<1>3. counts = [k \in 1 .. n |-> Cardinality(OfKind(hs[k], kind))]
  BY <1>1 DEF KindCounts
<1> HIDE DEF counts, hs, n
<1>4. counts \in [1 .. n -> Nat]
  BY <1>2, <1>3
<1>5. counts \in Seq(Nat) /\ Len(counts) = n
  BY <1>1, <1>4
<1> QED BY <1>1, <1>5, TotalTyped DEF counts, hs, n

\* The changed lines of a file are those added and those removed.
LEMMA ChangesAddUp ==
    ASSUME NEW file, IsFile(file)
    PROVE  /\ ChangedLines(file) = Total(KindCounts(file, "+")) + Total(KindCounts(file, "-"))
           /\ ChangedLines(file) \in Nat
<1> DEFINE hs == file.hunks
           n == Len(hs)
           plus == KindCounts(file, "+")
           minus == KindCounts(file, "-")
           Both(h) == {i \in DOMAIN h.lines : h.lines[i].kind \in {"+", "-"} /\ ~h.lines[i].doubled}
           both == [k \in DOMAIN hs |-> Cardinality(Both(hs[k]))]
<1>1. n \in Nat /\ DOMAIN hs = 1 .. n /\ \A k \in 1 .. n : hs[k] \in ToSet(hs)
  BY SequenceFacts DEF IsFile
<1>2. /\ plus \in Seq(Nat) /\ Len(plus) = n /\ Total(plus) \in Nat
      /\ minus \in Seq(Nat) /\ Len(minus) = n /\ Total(minus) \in Nat
  BY KindsCounted
<1>3. ASSUME NEW k \in 1 .. n
      PROVE  both[k] = plus[k] + minus[k] /\ both[k] \in Nat
  <2> DEFINE A == OfKind(hs[k], "+")
             B == OfKind(hs[k], "-")
  <2>1. IsSequence(hs[k].lines)
    BY <1>1 DEF IsFile
  <2>2. Len(hs[k].lines) \in Nat /\ DOMAIN hs[k].lines = 1 .. Len(hs[k].lines)
    BY <2>1, SequenceFacts
  <2>3. IsFiniteSet(DOMAIN hs[k].lines)
    BY <2>2, UpToCount
  <2>4. A \in SUBSET DOMAIN hs[k].lines /\ B \in SUBSET DOMAIN hs[k].lines
    BY DEF OfKind
  <2>5. IsFiniteSet(A) /\ IsFiniteSet(B)
    BY <2>3, <2>4, FS_Subset
  <2>6. A \cap B = {} /\ Both(hs[k]) = A \cup B
    BY DEF OfKind
  <2>7. plus[k] = Cardinality(A) /\ minus[k] = Cardinality(B) /\ both[k] = Cardinality(Both(hs[k]))
    BY <1>1 DEF KindCounts
  <2> HIDE DEF A, B, Both, both, plus, minus
  <2>8. Cardinality(A) \in Nat /\ Cardinality(B) \in Nat
    BY <2>5, FS_CardinalityType
  <2>9. Cardinality(A \cap B) = 0
    BY <2>6, FS_EmptySet
  <2>10. Cardinality(A \cup B) = Cardinality(A) + Cardinality(B) - Cardinality(A \cap B)
    BY <2>5, FS_Union
  <2>11. Cardinality(Both(hs[k])) = Cardinality(A) + Cardinality(B)
    BY <2>6, <2>8, <2>9, <2>10
  <2> QED BY <2>7, <2>8, <2>11
<1>4. ChangedLines(file) = Total(both)
  BY DEF ChangedLines
<1>5. DOMAIN both = 1 .. n /\ both = [k \in 1 .. n |-> both[k]]
  BY <1>1
<1> HIDE DEF both, plus, minus, n
<1>6. both \in [1 .. n -> Nat]
  BY <1>3, <1>5
<1>7. both \in Seq(Nat) /\ Len(both) = n
  BY <1>1, <1>6
<1>8. \A i \in 1 .. Len(both) : both[i] = plus[i] + minus[i]
  BY <1>3, <1>7
<1>9. Total(both) = Total(plus) + Total(minus)
  BY <1>2, <1>7, <1>8, TotalOfSums
<1> QED BY <1>2, <1>4, <1>9 DEF plus, minus

\* The review and `clawreview diff-stats' measure a diff alike.
THEOREM SizesTold ==
    ASSUME NEW files, IsSequence(files), \A f \in ToSet(files) : IsFile(f),
           NEW c, c.limits.maxLines \in Nat
    PROVE  SizesAgree(files, c)
<1> DEFINE n == Len(files)
           sizes == DiffStats(files)
           added == [i \in 1 .. n |-> Total(KindCounts(files[i], "+"))]
           removed == [i \in 1 .. n |-> Total(KindCounts(files[i], "-"))]
           changed == [i \in 1 .. n |-> ChangedLines(files[i])]
           max == c.limits.maxLines
<1>1. n \in Nat /\ DOMAIN files = 1 .. n /\ \A i \in 1 .. n : IsFile(files[i])
  BY SequenceFacts
<1>2. ASSUME NEW i \in 1 .. n
      PROVE  added[i] \in Nat /\ removed[i] \in Nat /\ changed[i] \in Nat /\ changed[i] = added[i] + removed[i]
  <2>1. IsFile(files[i])
    BY <1>1
  <2>2. Total(KindCounts(files[i], "+")) \in Nat /\ Total(KindCounts(files[i], "-")) \in Nat
    BY <2>1, KindsCounted
  <2>3. /\ ChangedLines(files[i]) = Total(KindCounts(files[i], "+")) + Total(KindCounts(files[i], "-"))
        /\ ChangedLines(files[i]) \in Nat
    BY <2>1, ChangesAddUp
  <2> QED BY <2>2, <2>3
<1>3. /\ \A i \in 1 .. n : sizes.files[i].added = added[i] /\ sizes.files[i].removed = removed[i]
      /\ sizes.totals.added = Total(added) /\ sizes.totals.removed = Total(removed)
  <2> DEFINE stats == [i \in DOMAIN files |->
                    [path |-> files[i].path, binary |-> files[i].binary, hunks |-> Len(files[i].hunks),
                     added |-> Total(KindCounts(files[i], "+")), removed |-> Total(KindCounts(files[i], "-"))]]
  <2>1. /\ sizes.files = stats
        /\ sizes.totals.added = Total([i \in DOMAIN stats |-> stats[i].added])
        /\ sizes.totals.removed = Total([i \in DOMAIN stats |-> stats[i].removed])
    BY DEF DiffStats, KindCounts, OfKind
  <2>2. /\ [i \in DOMAIN stats |-> stats[i].added] = added
        /\ [i \in DOMAIN stats |-> stats[i].removed] = removed
    BY <1>1
  <2>3. \A i \in 1 .. n : stats[i].added = added[i] /\ stats[i].removed = removed[i]
    BY <1>1
  <2> HIDE DEF stats, sizes, added, removed
  <2> QED BY <2>1, <2>2, <2>3
<1>4. \A i \in 1 .. n : changed[i] = ChangedLines(files[i])
  OBVIOUS
<1>5. [i \in DOMAIN files |-> ChangedLines(files[i])] = changed
  BY <1>1
<1>6. Total(changed) = Total(added) + Total(removed)
  <2>1. added \in [1 .. n -> Nat] /\ removed \in [1 .. n -> Nat] /\ changed \in [1 .. n -> Nat]
    BY <1>2
  <2> HIDE DEF added, removed, changed, n
  <2>2. /\ added \in Seq(Nat) /\ removed \in Seq(Nat) /\ changed \in Seq(Nat)
        /\ Len(added) = n /\ Len(removed) = n /\ Len(changed) = n
    BY <1>1, <2>1
  <2>3. \A i \in 1 .. Len(changed) : changed[i] = added[i] + removed[i]
    BY <1>2, <2>2
  <2> QED BY <2>2, <2>3, TotalOfSums
<1> DEFINE P == {i \in DOMAIN files : /\ ~IsIgnored(files[i].path, c.ignore)
                                      /\ SkipReason(files[i], c.limits) = "none"}
           reviewed == ToSet(Reviewable(files, c.ignore, c.limits))
<1>7. reviewed = {files[i] : i \in P}
  <2>1. P \in SUBSET DOMAIN files
    OBVIOUS
  <2>2. ToSet(Selected(files, P)) = {files[i] : i \in P}
    BY <2>1, SelectedIsSequence
  <2> QED BY <2>2 DEF Reviewable
<1>8. ASSUME NEW f, SkipReason(f, c.limits) = "oversize-lines" PROVE ChangedLines(f) > max
  BY <1>8 DEF SkipReason
<1>9. ASSUME NEW f, SkipReason(f, c.limits) = "none" PROVE ~(ChangedLines(f) > max)
  BY <1>9 DEF SkipReason
<1>10. ASSUME NEW i \in 1 .. n, files[i] \in reviewed PROVE changed[i] \in 0 .. max
  <2>1. PICK j \in P : files[i] = files[j]
    BY <1>7, <1>10
  <2>2. ~(ChangedLines(files[i]) > max)
    BY <1>9, <2>1
  <2> HIDE DEF changed, max
  <2>3. changed[i] \in Nat /\ ~(changed[i] > max) /\ max \in Nat
    BY <1>2, <1>4, <2>2 DEF max
  <2> QED BY <2>3
<1>11. ASSUME NEW i \in 1 .. n
       PROVE  sizes.files[i].added + sizes.files[i].removed = changed[i]
  BY <1>2, <1>3, <1>11
<1> HIDE DEF sizes, added, removed, changed, reviewed, max, n
<1>12. \A i \in 1 .. n : /\ SkipReason(files[i], c.limits) = "oversize-lines" => changed[i] > max
                         /\ files[i] \in reviewed => changed[i] \in 0 .. max
  BY <1>4, <1>8, <1>10
<1>13. sizes.totals.added + sizes.totals.removed = Total(changed)
  BY <1>3, <1>6
<1> QED BY <1>1, <1>5, <1>11, <1>12, <1>13 DEF SizesAgree, sizes, reviewed, max

-----------------------------------------------------------------------------
(* What is told of what was published.                                     *)

\* What a publication m under the configuration c says of itself: totals, groups and
\* digest are those of its findings, all of which pass.
Told(m, c) ==
    /\ IsFindings(m.summed.findings)
    /\ m.summed = Summed(m.summed.findings)
    /\ m.digest = DigestOf(m.summed.findings)
    /\ \A i \in DOMAIN m.summed.findings : Passes(m.summed.findings[i], c.floor, c.threshold)

\* What is published is told of, and a local run tells the same.
LEMMA PublishedTold ==
    ASSUME NEW results, IsExecutions(results), NEW files, NEW c, IsConfig(c),
           NEW m, m = Published(results, files, c), NEW local, local = LocalReport(results, files, c)
    PROVE  /\ Told(m, c)
           /\ {"findings", "totals"} \subseteq DOMAIN local
           /\ local.findings = m.summed.findings /\ local.totals = m.summed.totals
<1> DEFINE es == MergeExecutions(results)
           fs == Competing(es, c)
           V == Variants(fs)
           ms == SimilarityMerge(fs)
           aggregated == Aggregate(ms, c.threshold, c.maxPerFile, c.floor)
           all == aggregated.findings
           H == {i \in DOMAIN all : Suppressed(all[i], files)}
           K == DOMAIN all \ H
           kept == Selected(all, K)
           W == {v \in V : Passes(v, c.floor, c.threshold)}
<1>1. m.summed = Summed(kept) /\ m.digest = FindingDigest(m.summed.findings, c.floor, c.threshold)
  BY DEF Published, Aggregated, Recompute
<1>2. m.summed.findings = kept /\ m.summed.totals = Totals(kept)
  BY <1>1 DEF Summed
<1>3. {i \in DOMAIN all : ~Suppressed(all[i], files)} = K
  OBVIOUS
<1>4. local = [aggregated EXCEPT !.findings = kept, !.totals = Totals(kept)]
  BY <1>3 DEF LocalReport, Aggregated
<1>5. {"findings", "totals"} \subseteq DOMAIN aggregated
  BY DEF Aggregate, Summed
<1> HIDE DEF aggregated, K, H
<1>6. {"findings", "totals"} \subseteq DOMAIN local /\ local.findings = kept /\ local.totals = Totals(kept)
  <2> HIDE DEF kept
  <2> QED BY <1>4, <1>5
<1>7. c.maxPerFile \in Nat
  BY DEF IsConfig
<1> HIDE DEF es
<1>8. IsExecutions(es)
  BY MergeExecutionsTyped DEF es
<1> HIDE DEF fs
<1>9. IsFindings(fs)
  BY <1>8, CompetingTyped DEF fs
<1> HIDE DEF ms
<1>10. ms \in Seq(V)
  BY <1>9, MergeKeepsAll DEF ms
<1>11. \A v \in V : IsFinding(v) /\ Rankable(v)
  <2>1. \A v \in V : IsFinding(v)
    BY DEF Variants
  <2> HIDE DEF V
  <2> QED BY <2>1, FindingRankable
<1> HIDE DEF V
<1>12. all \in Seq(W)
  BY <1>7, <1>10, <1>11, AggregatePasses DEF aggregated
<1>13. \A v \in W : IsFinding(v) /\ Passes(v, c.floor, c.threshold)
  BY <1>11
<1> HIDE DEF W, all
<1>14. kept \in Seq(W)
  <2>1. K \in SUBSET DOMAIN all
    BY DEF K
  <2> QED BY <1>12, <2>1, SelectedTells
<1> HIDE DEF kept
<1>15. IsSequence(kept) /\ ToSet(kept) \subseteq W
  BY <1>14, MemberIsSequence
<1>16. IsFindings(kept)
  BY <1>13, <1>15 DEF IsFindings
<1>17. \A i \in DOMAIN kept : Passes(kept[i], c.floor, c.threshold)
  BY <1>13, <1>15, SequenceFacts
<1>18. m.digest = DigestOf(kept)
  BY <1>1, <1>2, <1>15, <1>17, DigestOfAll
<1>19. Told(m, c)
  BY <1>1, <1>2, <1>16, <1>17, <1>18 DEF Told
<1> QED BY <1>2, <1>6, <1>19

\* A local run beside the review that is about to be posted.
LEMMA LocalTold ==
    ASSUME NEW results, IsExecutions(results),
           NEW files, IsSequence(files), \A f \in ToSet(files) : IsFile(f), NEW c, IsConfig(c),
           NEW m, m = Published(results, files, c), NEW local, local = LocalReport(results, files, c)
    PROVE  /\ local.findings = m.summed.findings /\ local.totals = m.summed.totals
           /\ OneReport(local) /\ OneAddress(local, files) /\ SizesAgree(files, c)
<1>1. /\ Told(m, c) /\ {"findings", "totals"} \subseteq DOMAIN local
      /\ local.findings = m.summed.findings /\ local.totals = m.summed.totals
  BY PublishedTold
<1>2. m.summed.totals = Totals(m.summed.findings)
  <2> DEFINE s == m.summed
  <2>1. s = Summed(s.findings)
    BY <1>1 DEF Told
  <2> HIDE DEF s
  <2>2. Summed(s.findings).totals = Totals(s.findings)
    BY DEF Summed
  <2>3. s.totals = Totals(s.findings)
    BY <2>1, <2>2
  <2> QED BY <2>3 DEF s
<1>3. IsFindings(local.findings) /\ local.totals = Totals(local.findings)
  BY <1>1, <1>2 DEF Told
<1>4. OneReport(local)
  BY <1>1, <1>3, OneReportTold
<1>5. OneAddress(local, files)
  BY <1>3, AddressesTold
<1>6. SizesAgree(files, c)
  <2>1. c.limits.maxLines \in Nat
    BY DEF IsConfig
  <2> QED BY <2>1, SizesTold
<1> QED BY <1>1, <1>4, <1>5, <1>6

-----------------------------------------------------------------------------
(* What is told of what was stored.                                        *)

\* A function on nothing is the empty sequence.
LEMMA OnNothing ==
    ASSUME NEW f, f = [x \in {} |-> f[x]]
    PROVE  f = <<>>
<1>1. <<>> = [x \in {} |-> <<>>[x]]
  <2>1. \A x : x \in DOMAIN <<>> => FALSE
    OBVIOUS
  <2>2. <<>> = [x \in 1 .. 0 |-> <<>>[x]]
    OBVIOUS
  <2>3. 1 .. 0 = {}
    OBVIOUS
  <2> QED BY <2>2, <2>3
<1>2. \A x \in {} : f[x] = <<>>[x]
  OBVIOUS
<1> QED BY <1>1, <1>2

\* renderPrComment() leaves its breakdowns out only when there is nothing to break down.
LEMMA NothingToTell ==
    ASSUME NEW fs, IsFindings(fs), Nothing(Totals(fs))
    PROVE  /\ DOMAIN fs = {} /\ DigestOf(fs).byCategory = <<>> /\ DigestOf(fs).byAgent = <<>>
           /\ DigestOf(fs).byTag = <<>>
<1>1. IsSequence(fs) /\ \A i \in DOMAIN fs : fs[i].severity \in Severities
  <2>1. IsSequence(fs)
    BY DEF IsFindings
  <2>2. \A i \in DOMAIN fs : fs[i] \in ToSet(fs)
    BY <2>1, SequenceFacts
  <2> QED BY <2>1, <2>2 DEF IsFindings, IsFinding
<1>2. DOMAIN fs = {}
  <2> SUFFICES ASSUME NEW i \in DOMAIN fs PROVE FALSE
    OBVIOUS
  <2> DEFINE s == fs[i].severity
  <2>1. s \in Severities /\ Totals(fs)[s] = 0
    BY <1>1 DEF Nothing
  <2>2. Totals(fs)[s] > 0
    BY <1>1, <2>1, TotalsTell
  <2> HIDE DEF s
  <2> QED BY <2>1, <2>2
<1>3. ToSet(fs) = {}
  BY <1>2 DEF ToSet
<1>4. \A k : CountBy(fs, k) = <<>>
  <2> TAKE k
  <2> DEFINE f == CountBy(fs, k)
             V == {g[k] : g \in ToSet(fs)}
  <2>1. V = {}
    BY <1>3
  <2>2. f = [v \in V |-> f[v]]
    BY DEF CountBy
  <2> HIDE DEF f, V
  <2>3. f = [v \in {} |-> f[v]]
    BY <2>1, <2>2
  <2> QED BY <2>3, OnNothing DEF f
<1>5. DigestOf(fs).byTag = <<>>
  <2> DEFINE f == DigestOf(fs).byTag
             V == UNION {TagsOf(g) : g \in ToSet(fs)}
  <2>1. V = {}
    BY <1>3
  <2>2. f = [t \in V |-> Cardinality({i \in DOMAIN fs : t \in TagsOf(fs[i])})]
    BY DEF DigestOf
  <2> HIDE DEF V, f
  <2>3. f = [v \in {} |-> f[v]]
    BY <2>1, <2>2
  <2> QED BY <2>3, OnNothing DEF f
<1>6. DigestOf(fs).byCategory = CountBy(fs, "category") /\ DigestOf(fs).byAgent = CountBy(fs, "agent")
  BY DEF DigestOf
<1> QED BY <1>2, <1>4, <1>5, <1>6

\* The comment tells of the stored findings gs.
TellsOf(body, gs, digest) ==
    /\ body.totals = Totals(gs)
    /\ body.byCategory = digest.byCategory
    /\ body.byAgent = digest.byAgent
    /\ body.byTag = digest.byTag
    /\ \A p \in {f.file : f \in ToSet(gs)} \cup DOMAIN body.files :
         LET stored == Selected(gs, {i \in DOMAIN gs : gs[i].file = p})
         IN  /\ Len(stored) = Len(body.files[p])
             /\ \A i \in DOMAIN stored : SameFinding(body.files[p][i], stored[i])

\* The comment on the findings fs tells of what the store has kept of them.
THEOREM CommentTold ==
    ASSUME NEW gs, NEW fs, Retold(gs, fs), IsFindings(fs),
           NEW body, body = PrComment(Summed(fs), DigestOf(fs))
    PROVE  TellsOf(body, gs, DigestOf(fs))
<1>1. Summed(fs).totals = Totals(fs) /\ Summed(fs).grouped = GroupedByFile(fs)
  BY DEF Summed
<1>2. Totals(gs) = Totals(fs)
  BY RetoldDigest
<1>3. CASE Nothing(Totals(fs))
  <2>1. /\ DOMAIN fs = {} /\ DigestOf(fs).byCategory = <<>> /\ DigestOf(fs).byAgent = <<>>
        /\ DigestOf(fs).byTag = <<>>
    BY <1>3, NothingToTell
  <2>2. /\ body.totals = Totals(fs) /\ body.byCategory = <<>> /\ body.byAgent = <<>> /\ body.byTag = <<>>
        /\ body.files = <<>>
    BY <1>1, <1>3 DEF PrComment
  <2>3. DOMAIN body.files = {}
    BY <2>2
  <2>4. {f.file : f \in ToSet(gs)} = {}
    <3>1. DOMAIN gs = {}
      BY <2>1, RetoldFields
    <3> QED BY <3>1 DEF ToSet
  <2> QED BY <1>2, <2>1, <2>2, <2>3, <2>4 DEF TellsOf
<1>4. CASE ~Nothing(Totals(fs))
  <2>1. /\ body.totals = Totals(fs) /\ body.byCategory = DigestOf(fs).byCategory
        /\ body.byAgent = DigestOf(fs).byAgent /\ body.byTag = DigestOf(fs).byTag
        /\ body.files = GroupedByFile(fs)
    BY <1>1, <1>4 DEF PrComment
  <2>2. {f.file : f \in ToSet(gs)} = {f.file : f \in ToSet(fs)}
    <3>1. DOMAIN gs = DOMAIN fs /\ \A i \in DOMAIN gs : gs[i].file = fs[i].file
      BY RetoldFields
    <3> DEFINE A == {f.file : f \in ToSet(gs)}
               B == {f.file : f \in ToSet(fs)}
    <3>2. \A v : v \in A <=> \E i \in DOMAIN gs : v = gs[i].file
      BY DEF ToSet
    <3>3. \A v : v \in B <=> \E i \in DOMAIN fs : v = fs[i].file
      BY DEF ToSet
    <3> HIDE DEF A, B
    <3>4. \A v : v \in A <=> v \in B
      BY <3>1, <3>2, <3>3
    <3>5. A = B
      BY <3>4
    <3> QED BY <3>5 DEF A, B
  <2> DEFINE paths == {f.file : f \in ToSet(fs)}
  <2>3. /\ DOMAIN body.files = paths
        /\ \A p \in paths : body.files[p] = Selected(fs, {i \in DOMAIN fs : fs[i].file = p})
    BY <2>1 DEF GroupedByFile
  <2> HIDE DEF paths
  <2>4. ASSUME NEW p \in paths
        PROVE  LET stored == Selected(gs, {i \in DOMAIN gs : gs[i].file = p})
               IN  /\ Len(stored) = Len(body.files[p])
                   /\ \A i \in DOMAIN stored : SameFinding(body.files[p][i], stored[i])
    <3>1. body.files[p] = Selected(fs, {i \in DOMAIN fs : fs[i].file = p})
      BY <2>3
    <3>2. SameGroup(Selected(gs, InFile(gs, p)), Selected(fs, InFile(fs, p)))
      BY GroupsRetold
    <3> QED BY <3>1, <3>2 DEF SameGroup, InFile
  <2>5. {f.file : f \in ToSet(gs)} \cup DOMAIN body.files = paths
    BY <2>2, <2>3 DEF paths
  <2> QED BY <1>2, <2>1, <2>4, <2>5 DEF TellsOf
<1> QED BY <1>3, <1>4

-----------------------------------------------------------------------------
(* Dismissals.                                                             *)

\* Rows of reviews that are not done have no findings yet.
RowsInv ==
    /\ head \in 0 .. Pushes
    /\ DOMAIN step = Reviews /\ step = [r \in Reviews |-> step[r]]
    /\ DOMAIN rows = Reviews /\ rows = [r \in Reviews |-> rows[r]]
    /\ \A r \in Reviews :
         /\ IsRow(rows[r])
         /\ r > head => step[r] = "new"
         /\ step[r] # "done" => rows[r].findings = <<>> /\ rows[r].status # "completed"
         /\ \A i \in DOMAIN rows[r].findings : IsStored(rows[r].findings[i])

\* The memory knows what the store shows: of a fingerprint that occurs at all,
\* all dismissed means remembered, all open means not.
MemoryAgrees ==
    \A p : /\ Everywhere(p, "dismissed") => p \in memory
           /\ Everywhere(p, "open") => p \notin memory

-----------------------------------------------------------------------------
(* What a step does to the rows.                                           *)

Quiescent ==
    \A q \in Reviews : rows'[q].findings = rows[q].findings

\* Writing a status leaves the rest of the rows alone.
LEMMA StatusOnly ==
    ASSUME RowsInv, NEW r \in Reviews, NEW c, rows' = [rows EXCEPT ![r].status = c]
    PROVE  /\ DOMAIN rows' = Reviews /\ rows' = [q \in Reviews |-> rows'[q]]
           /\ \A q \in Reviews : /\ IsRow(rows'[q])
                                 /\ rows'[q].findings = rows[q].findings
                                 /\ rows'[q].status = IF q = r THEN c ELSE rows[q].status
  BY DEF RowsInv, IsRow

\* A step of the handler that moves r on, and at most writes a status that is
\* not "completed", keeps the invariant; it moves a review that was pushed.
LEMMA HandlerStep ==
    ASSUME RowsInv, NEW r \in Reviews, NEW to, to # "new", step[r] # "done",
           step[r] # "new", head' = head,
           step' = [step EXCEPT ![r] = to],
           \/ rows' = rows /\ to # "done"
           \/ \E c \in {"running", "failed"} : rows' = [rows EXCEPT ![r].status = c]
    PROVE  RowsInv' /\ Quiescent
<1>1. \A q \in Reviews : /\ IsRow(rows'[q])
                         /\ rows'[q].findings = rows[q].findings
                         /\ rows'[q].status = "completed" => rows[q].status = "completed" /\ q # r
  <2>1. CASE rows' = rows /\ to # "done"
    BY <2>1 DEF RowsInv
  <2>2. CASE \E c \in {"running", "failed"} : rows' = [rows EXCEPT ![r].status = c]
    <3>1. PICK c \in {"running", "failed"} : rows' = [rows EXCEPT ![r].status = c]
      BY <2>2
    <3>2. \A q \in Reviews : /\ IsRow(rows'[q])
                             /\ rows'[q].findings = rows[q].findings
                             /\ rows'[q].status = IF q = r THEN c ELSE rows[q].status
      BY <3>1, StatusOnly
    <3> QED BY <3>2
  <2> QED BY <2>1, <2>2
<1>2. DOMAIN rows' = Reviews /\ rows' = [q \in Reviews |-> rows'[q]]
  BY StatusOnly DEF RowsInv
<1>3. DOMAIN step' = Reviews /\ step' = [q \in Reviews |-> step'[q]]
  BY DEF RowsInv
<1>4. \A q \in Reviews : step'[q] = IF q = r THEN to ELSE step[q]
  BY DEF RowsInv
<1>5. ASSUME NEW q \in Reviews
      PROVE  /\ q > head' => step'[q] = "new"
             /\ step'[q] # "done" => rows'[q].findings = <<>> /\ rows'[q].status # "completed"
             /\ \A i \in DOMAIN rows'[q].findings : IsStored(rows'[q].findings[i])
  <2>1. q > head' => step'[q] = "new"
    <3>1. q > head => q # r
      BY DEF RowsInv
    <3> QED BY <3>1, <1>4 DEF RowsInv
  <2>2. step'[q] # "done" => rows'[q].findings = <<>> /\ rows'[q].status # "completed"
    BY <1>1, <1>4 DEF RowsInv
  <2>3. \A i \in DOMAIN rows'[q].findings : IsStored(rows'[q].findings[i])
    BY <1>1 DEF RowsInv
  <2> QED BY <2>1, <2>2, <2>3
<1> QED BY <1>1, <1>2, <1>3, <1>5 DEF RowsInv, Quiescent

\* Findings that stay as they are keep the memory right.
LEMMA MemoryOfQuiescent ==
    ASSUME MemoryAgrees, Quiescent, memory' = memory
    PROVE  MemoryAgrees'
  BY DEF MemoryAgrees, Quiescent, Everywhere

\* The new row of a push has no findings.
LEMMA PushStep ==
    ASSUME RowsInv, Push
    PROVE  RowsInv' /\ Quiescent /\ memory' = memory
<1> DEFINE r == head + 1
<1>1. r \in Reviews /\ head' = r /\ head' \in 0 .. Pushes
  BY PullRequestAssumption DEF Push, RowsInv, Reviews
<1>2. step[r] = "new"
  BY <1>1 DEF RowsInv
<1>3. IsRow(Started) /\ Started.status = "queued" /\ Started.findings = <<>>
  BY DEF IsRow, Started, NoRow
<1>4. /\ DOMAIN rows' = Reviews /\ rows' = [q \in Reviews |-> rows'[q]]
      /\ \A q \in Reviews : rows'[q] = IF q = r THEN Started ELSE rows[q]
  BY <1>1 DEF Push, RowsInv
<1>5. /\ DOMAIN step' = Reviews /\ step' = [q \in Reviews |-> step'[q]]
      /\ \A q \in Reviews : step'[q] = IF q = r THEN "queued" ELSE step[q]
  BY <1>1 DEF Push, RowsInv
<1>6. ASSUME NEW q \in Reviews
      PROVE  /\ IsRow(rows'[q])
             /\ rows'[q].findings = rows[q].findings
             /\ q > head' => step'[q] = "new"
             /\ step'[q] # "done" => rows'[q].findings = <<>> /\ rows'[q].status # "completed"
             /\ \A i \in DOMAIN rows'[q].findings : IsStored(rows'[q].findings[i])
  <2>1. CASE q = r
    <3>1. rows[q].findings = <<>>
      BY <1>2, <2>1 DEF RowsInv
    <3>2. DOMAIN <<>> = {}
      OBVIOUS
    <3>3. ~(q > head')
      BY <1>1, <2>1 DEF Reviews
    <3> QED BY <1>3, <1>4, <1>5, <2>1, <3>1, <3>2, <3>3
  <2>2. CASE q # r
    <3>1. q > head' => q > head
      BY <1>1, PullRequestAssumption DEF Reviews, RowsInv
    <3> QED BY <1>4, <1>5, <2>2, <3>1 DEF RowsInv
  <2> QED BY <2>1, <2>2
<1>7. memory' = memory
  BY DEF Push
<1> QED BY <1>1, <1>4, <1>5, <1>6, <1>7 DEF RowsInv, Quiescent

\* store.complete(): the findings of r are new, each in the state that the
\* memory gives its fingerprint.
LEMMA StoreStep ==
    ASSUME RowsInv, MemoryAgrees, NEW r \in Reviews, Store(r)
    PROVE  /\ RowsInv' /\ MemoryAgrees'
           /\ \A q \in Reviews \ {r} : rows'[q] = rows[q]
           /\ \A f \in ToSet(rows'[r].findings) :
                f.state = IF Fingerprint(f) \in memory THEN "dismissed" ELSE "open"
<1> DEFINE fs == made[r].summed.findings
           new == [i \in DOMAIN fs |-> Stored(fs[i], memory)]
<1>1. /\ DOMAIN rows' = Reviews /\ rows' = [q \in Reviews |-> rows'[q]]
      /\ \A q \in Reviews \ {r} : rows'[q] = rows[q]
      /\ IsRow(rows'[r]) /\ rows'[r].findings = new
  BY DEF RowsInv, Store, Completed, IsRow
<1>2. /\ DOMAIN step' = Reviews /\ step' = [q \in Reviews |-> step'[q]]
      /\ step[r] = "store" /\ \A q \in Reviews : step'[q] = IF q = r THEN "done" ELSE step[q]
  BY DEF RowsInv, Store, Go
<1>3. head' = head /\ memory' = memory
  BY DEF Store
<1>4. rows[r].findings = <<>> /\ ~(r > head)
  BY <1>2 DEF RowsInv
<1>5. \A i \in DOMAIN new : /\ IsStored(new[i])
                            /\ new[i].state = "dismissed" <=> Fingerprint(new[i]) \in memory
                            /\ new[i].state = "open" <=> Fingerprint(new[i]) \notin memory
  <2> SUFFICES ASSUME NEW i \in DOMAIN fs
               PROVE  /\ IsStored(Stored(fs[i], memory))
                      /\ Stored(fs[i], memory).state = "dismissed"
                            <=> Fingerprint(Stored(fs[i], memory)) \in memory
                      /\ Stored(fs[i], memory).state = "open"
                            <=> Fingerprint(Stored(fs[i], memory)) \notin memory
    OBVIOUS
  <2> HIDE DEF fs
  <2> QED BY StoredFacts
<1> HIDE DEF fs, new
<1>6. RowsInv'
  BY <1>1, <1>2, <1>3, <1>4, <1>5 DEF RowsInv
<1>7. \A q \in Reviews \ {r} : ToSet(rows'[q].findings) = ToSet(rows[q].findings)
  BY <1>1
<1>8. ToSet(rows[r].findings) = {}
  BY <1>4 DEF ToSet
<1>9. \A f \in ToSet(rows'[r].findings) :
         /\ f.state = "dismissed" <=> Fingerprint(f) \in memory
         /\ f.state = "open" <=> Fingerprint(f) \notin memory
  BY <1>1, <1>5 DEF ToSet
<1>10. ASSUME NEW p, NEW state \in {"open", "dismissed"}, Everywhere(p, state)'
       PROVE  state = IF p \in memory THEN "dismissed" ELSE "open"
  <2>1. PICK q \in Reviews : \E g \in ToSet(rows'[q].findings) : Fingerprint(g) = p
    BY <1>10 DEF Everywhere
  <2>2. CASE q = r
    BY <1>9, <1>10, <2>1, <2>2 DEF Everywhere
  <2>3. CASE q # r
    <3>1. Everywhere(p, state)
      BY <1>7, <1>8, <1>10, <2>1, <2>3 DEF Everywhere
    <3> QED BY <3>1 DEF MemoryAgrees
  <2> QED BY <2>2, <2>3
<1>11. MemoryAgrees'
  BY <1>3, <1>10 DEF MemoryAgrees
<1>12. \A f \in ToSet(rows'[r].findings) :
          f.state = IF Fingerprint(f) \in memory THEN "dismissed" ELSE "open"
  BY <1>9
<1> QED BY <1>1, <1>6, <1>11, <1>12

\* A reviewer's request: the fingerprints it is about occur in the state it asks
\* for, and the memory follows.
LEMMA ApplyStep ==
    ASSUME RowsInv, MemoryAgrees, NEW r \in Reviews, NEW state \in {"open", "dismissed"},
           NEW S \in SUBSET DOMAIN rows[r].findings, Apply(r, S, state),
           UNCHANGED <<head, step>>
    PROVE  /\ RowsInv' /\ MemoryAgrees'
           /\ \A q \in Reviews : rows'[q].status = rows[q].status
<1> DEFINE row == rows[r]
           new == WithState(row, S, state)
<1>1. /\ DOMAIN rows' = Reviews /\ rows' = [q \in Reviews |-> rows'[q]]
      /\ rows'[r] = new /\ \A q \in Reviews \ {r} : rows'[q] = rows[q]
  BY DEF RowsInv, Apply
<1>2. IsRow(row) /\ \A i \in DOMAIN row.findings : IsStored(row.findings[i])
  BY DEF RowsInv
<1>3. /\ IsRow(new) /\ new.status = row.status
      /\ DOMAIN new.findings = DOMAIN row.findings
      /\ \A i \in DOMAIN row.findings :
           /\ IsStored(new.findings[i])
           /\ Fingerprint(new.findings[i]) = Fingerprint(row.findings[i])
           /\ new.findings[i].state = IF i \in S THEN state ELSE row.findings[i].state
  <2> HIDE DEF row
  <2> QED BY <1>2, WithStateFacts
<1> HIDE DEF new
<1>4. step[r] # "done" => new.findings = <<>>
  <2> SUFFICES ASSUME step[r] # "done" PROVE new.findings = <<>>
    OBVIOUS
  <2>1. row.findings = <<>>
    BY DEF RowsInv
  <2>2. new.findings = [i \in DOMAIN row.findings |->
                          IF i \in S THEN [row.findings[i] EXCEPT !.state = state, !.auto = FALSE]
                          ELSE row.findings[i]]
    BY <1>2 DEF new, WithState, IsRow
  <2>3. \A i \in DOMAIN row.findings : FALSE
    BY <2>1
  <2> QED BY <2>1, <2>2, <2>3
<1>5. RowsInv'
  <2>1. ASSUME NEW q \in Reviews
        PROVE  /\ IsRow(rows'[q])
               /\ q > head' => step'[q] = "new"
               /\ step'[q] # "done" => rows'[q].findings = <<>> /\ rows'[q].status # "completed"
               /\ \A i \in DOMAIN rows'[q].findings : IsStored(rows'[q].findings[i])
    <3>1. CASE q = r
      BY <1>1, <1>3, <1>4, <3>1 DEF RowsInv
    <3>2. CASE q # r
      BY <1>1, <3>2 DEF RowsInv
    <3> QED BY <3>1, <3>2
  <2> QED BY <1>1, <2>1 DEF RowsInv
<1> DEFINE Hit == Prints(row, S)
<1>6. \A p : p \in memory' <=> IF p \in Hit THEN state = "dismissed" ELSE p \in memory
  BY DEF Apply, Remember
<1>7. \A q \in Reviews : \A i \in DOMAIN rows[q].findings :
         /\ i \in DOMAIN rows'[q].findings
         /\ Fingerprint(rows'[q].findings[i]) = Fingerprint(rows[q].findings[i])
         /\ Fingerprint(rows[q].findings[i]) \notin Hit
              => rows'[q].findings[i].state = rows[q].findings[i].state
  BY <1>1, <1>3 DEF Prints
<1>8. \A q \in Reviews : DOMAIN rows'[q].findings = DOMAIN rows[q].findings
  BY <1>1, <1>3
<1>9. \A p : \A s : p \notin Hit /\ Everywhere(p, s)' => Everywhere(p, s)
  BY <1>7, <1>8 DEF Everywhere, ToSet
<1>10. \A p : \A s : p \in Hit /\ Everywhere(p, s)' => s = state
  <2> SUFFICES ASSUME NEW p \in Hit, NEW s, Everywhere(p, s)' PROVE s = state
    OBVIOUS
  <2>1. PICK i \in S : Fingerprint(row.findings[i]) = p
    BY DEF Prints
  <2>2. /\ rows'[r].findings[i] \in ToSet(rows'[r].findings)
        /\ Fingerprint(rows'[r].findings[i]) = p /\ rows'[r].findings[i].state = state
    BY <1>1, <1>3, <2>1 DEF ToSet
  <2> QED BY <2>2 DEF Everywhere
<1>11. MemoryAgrees'
  <2> SUFFICES ASSUME NEW p
               PROVE  /\ Everywhere(p, "dismissed")' => p \in memory'
                      /\ Everywhere(p, "open")' => p \notin memory'
    BY DEF MemoryAgrees
  <2>1. CASE p \in Hit
    BY <1>6, <1>10, <2>1
  <2>2. CASE p \notin Hit
    BY <1>6, <1>9, <2>2 DEF MemoryAgrees
  <2> QED BY <2>1, <2>2
<1>12. \A q \in Reviews : rows'[q].status = rows[q].status
  BY <1>1, <1>3
<1> QED BY <1>5, <1>11, <1>12

-----------------------------------------------------------------------------
(* The theorem.                                                            *)

\* The action under DismissalsFollow.
Follows ==
    \A r \in Reviews :
        rows[r].status # "completed" /\ rows'[r].status = "completed" =>
          \A f \in ToSet(rows'[r].findings) : \A state \in {"open", "dismissed"} :
              Everywhere(Fingerprint(f), state) => f.state = state

\* The handler of r moves on to a step, and at most writes a status.
Moves(r, to) ==
    /\ step[r] \notin {"done", "new"} /\ to # "new"
    /\ step' = [step EXCEPT ![r] = to]
    /\ \/ rows' = rows /\ to # "done"
       \/ \E c \in {"running", "failed"} : rows' = [rows EXCEPT ![r].status = c]

\* Of all steps only the one that stores a review completes a row.
LEMMA StepKeeps ==
    ASSUME RowsInv, MemoryAgrees, [Next]_vars
    PROVE  RowsInv' /\ MemoryAgrees' /\ Follows
<1>1. CASE UNCHANGED vars
  BY <1>1 DEF vars, RowsInv, MemoryAgrees, Everywhere, Follows
<1>2. CASE Push
  <2>1. RowsInv' /\ Quiescent /\ memory' = memory
    BY <1>2, PushStep
  <2>2. \A q \in Reviews : rows'[q].status = "completed" => rows[q].status = "completed"
    BY <1>2, PullRequestAssumption DEF Push, RowsInv, Started, NoRow, Reviews
  <2> QED BY <2>1, <2>2, MemoryOfQuiescent DEF Follows
<1>3. ASSUME NEW r \in Reviews, Begin(r) \/ Block(r) \/ Start(r) \/ Publish(r) \/ PostComment(r)
                                \/ PostInline(r) \/ FinishCheck(r) \/ Fail(r)
      PROVE  RowsInv' /\ MemoryAgrees' /\ Follows
  <2>1. UNCHANGED <<head, memory>> /\ \E to : Moves(r, to)
    <3>1. CASE Begin(r)
      <4>1. Moves(r, "gate") /\ UNCHANGED <<head, memory>>
        BY <3>1 DEF Begin, Moves, Go
      <4> QED BY <4>1
    <3>2. CASE Block(r)
      <4>1. Moves(r, "done") /\ UNCHANGED <<head, memory>>
        BY <3>2 DEF Block, Moves, Go
      <4> QED BY <4>1
    <3>3. CASE Start(r)
      <4>1. Moves(r, "agents") /\ UNCHANGED <<head, memory>>
        BY <3>3 DEF Start, Moves, Go
      <4> QED BY <4>1
    <3>4. CASE Publish(r)
      <4>1. Moves(r, "comment") /\ UNCHANGED <<head, memory>>
        BY <3>4 DEF Publish, Moves, Go
      <4> QED BY <4>1
    <3>5. CASE PostComment(r)
      <4>1. Moves(r, "inline") /\ UNCHANGED <<head, memory>>
        BY <3>5 DEF PostComment, Moves, Go
      <4> QED BY <4>1
    <3>6. CASE PostInline(r)
      <4>1. Moves(r, "check") /\ UNCHANGED <<head, memory>>
        BY <3>6 DEF PostInline, Moves, Go
      <4> QED BY <4>1
    <3>7. CASE FinishCheck(r)
      <4>1. Moves(r, "store") /\ UNCHANGED <<head, memory>>
        BY <3>7 DEF FinishCheck, Moves, Go
      <4> QED BY <4>1
    <3>8. CASE Fail(r)
      <4>1. Moves(r, "queued") /\ UNCHANGED <<head, memory>>
        BY <3>8 DEF Fail, Moves
      <4> QED BY <4>1
    <3> QED BY <1>3, <3>1, <3>2, <3>3, <3>4, <3>5, <3>6, <3>7, <3>8
  <2>2. PICK to : Moves(r, to)
    BY <2>1
  <2>3. RowsInv' /\ Quiescent
    BY <2>1, <2>2, HandlerStep DEF Moves
  <2>4. \A q \in Reviews : rows'[q].status = "completed" => rows[q].status = "completed"
    <3>1. CASE rows' = rows
      BY <3>1
    <3>2. ASSUME NEW c \in {"running", "failed"}, rows' = [rows EXCEPT ![r].status = c]
          PROVE  \A q \in Reviews : rows'[q].status = "completed" => rows[q].status = "completed"
      BY <3>2, StatusOnly
    <3> QED BY <2>2, <3>1, <3>2 DEF Moves
  <2> QED BY <2>1, <2>3, <2>4, MemoryOfQuiescent DEF Follows
<1>4. ASSUME NEW r \in Reviews, Answer(r)
      PROVE  RowsInv' /\ MemoryAgrees' /\ Follows
  <2>1. UNCHANGED <<head, step, rows, memory>>
    BY <1>4 DEF Answer
  <2> QED BY <2>1 DEF RowsInv, MemoryAgrees, Everywhere, Follows
<1>5. ASSUME NEW r \in Reviews, Store(r)
      PROVE  RowsInv' /\ MemoryAgrees' /\ Follows
  <2>1. /\ RowsInv' /\ MemoryAgrees'
        /\ \A q \in Reviews \ {r} : rows'[q] = rows[q]
        /\ \A f \in ToSet(rows'[r].findings) :
             f.state = IF Fingerprint(f) \in memory THEN "dismissed" ELSE "open"
    BY <1>5, StoreStep
  <2>2. \A f \in ToSet(rows'[r].findings) : \A state \in {"open", "dismissed"} :
           Everywhere(Fingerprint(f), state) => f.state = state
    BY <2>1 DEF MemoryAgrees
  <2> QED BY <2>1, <2>2 DEF Follows
<1>6. ASSUME NEW r \in Reviews, Triage(r)
      PROVE  RowsInv' /\ MemoryAgrees' /\ Follows
  <2>1. PICK state \in {"open", "dismissed"} :
           \E S \in SUBSET DOMAIN rows[r].findings :
               Apply(r, S, state) /\ UNCHANGED <<head, step>>
    BY <1>6 DEF Triage, FindingAction, BulkFindingAction, BulkTargets, workerVars
  <2>2. PICK S \in SUBSET DOMAIN rows[r].findings :
           Apply(r, S, state) /\ UNCHANGED <<head, step>>
    BY <2>1
  <2> QED BY <2>2, ApplyStep DEF Follows
<1>7. ASSUME ResetBudget \/ \E limit \in Limits : SetBudget(limit)
      PROVE  RowsInv' /\ MemoryAgrees' /\ Follows
  <2>1. UNCHANGED <<head, step, rows, memory>>
    BY <1>7 DEF ResetBudget, SetBudget, workerVars
  <2> QED BY <2>1 DEF RowsInv, MemoryAgrees, Everywhere, Follows
<1> QED BY <1>1, <1>2, <1>3, <1>4, <1>5, <1>6, <1>7 DEF Next, Quiet

\* Before the first push there are no findings and nothing is remembered.
LEMMA InitKeeps ==
    ASSUME Init
    PROVE  RowsInv /\ MemoryAgrees
<1>1. NoRow.findings = <<>> /\ NoRow.status = "absent" /\ IsRow(NoRow) /\ DOMAIN <<>> = {}
  BY DEF NoRow, IsRow
<1>2. RowsInv
  BY <1>1, PullRequestAssumption DEF Init, RowsInv
<1>3. \A q \in Reviews : ToSet(rows[q].findings) = {}
  BY <1>1 DEF Init, ToSet
<1>4. MemoryAgrees
  BY <1>3 DEF MemoryAgrees, Everywhere
<1> QED BY <1>2, <1>4

\* The memory of dismissals agrees with the rows at all times.
THEOREM MemoryIsRight == Spec => [](RowsInv /\ MemoryAgrees)
<1>1. Init => RowsInv /\ MemoryAgrees
  BY InitKeeps
<1>2. RowsInv /\ MemoryAgrees /\ [Next]_vars => RowsInv' /\ MemoryAgrees'
  BY StepKeeps
<1> QED BY <1>1, <1>2, PTL DEF Spec

\* What reviewers decided on a pull request holds for its next review.
THEOREM DismissalsHold == Spec => DismissalsFollow
<1>1. RowsInv /\ MemoryAgrees /\ [Next]_vars => Follows
  BY StepKeeps
<1>2. Spec => [](RowsInv /\ MemoryAgrees)
  BY MemoryIsRight
<1>3. Spec => [][Follows]_vars
  BY <1>1, <1>2, PTL DEF Spec
<1> QED BY <1>3 DEF DismissalsFollow, Follows

-----------------------------------------------------------------------------
(* The pool of agents.                                                     *)

\* What PoolSound says of one pool, and of which shape the pool is.
PoolOK(p, tasks) ==
    LET n == Len(tasks)
    IN  /\ DOMAIN p = {"cursor", "busy", "results"}
        /\ p.cursor \in 0 .. n
        /\ p.busy \in SUBSET (1 .. p.cursor)
        /\ p.results = [i \in 1 .. n |-> p.results[i]]
        /\ Cardinality(p.busy) <= Concurrency
        /\ p.cursor < n => Cardinality(p.busy) = Concurrency
        /\ \A i \in 1 .. n :
             IF i > p.cursor \/ i \in p.busy
             THEN p.results[i] = NotYet
             ELSE p.results[i] \in OwnResults(tasks[i])

\* runWithConcurrency() starts as many agents as it may.
LEMMA NewPoolOK ==
    ASSUME NEW tasks, Len(tasks) \in Nat, DOMAIN tasks = 1 .. Len(tasks)
    PROVE  PoolOK(NewPool(tasks, Concurrency), tasks)
<1> DEFINE n == Len(tasks)
           started == Min({Concurrency, n})
           p == NewPool(tasks, Concurrency)
<1>1. Concurrency \in Nat \ {0} /\ n \in Nat
  BY PullRequestAssumption
<1>2. started = IF Concurrency <= n THEN Concurrency ELSE n
  <2> HIDE DEF n
  <2> QED BY <1>1 DEF Min
<1>3. p = [cursor |-> started, busy |-> 1 .. started, results |-> [i \in 1 .. n |-> NotYet]]
  BY DEF NewPool
<1> HIDE DEF p, started, n
<1>4. IsFiniteSet(1 .. started) /\ Cardinality(1 .. started) = started
  <2>1. started \in Nat
    BY <1>1, <1>2
  <2> QED BY <2>1, UpToCount
<1>5. /\ DOMAIN p = {"cursor", "busy", "results"}
      /\ p.cursor = started /\ p.busy = 1 .. started /\ p.results = [i \in 1 .. n |-> NotYet]
  BY <1>3
<1>6. /\ p.cursor \in 0 .. n /\ p.busy \in SUBSET (1 .. p.cursor)
      /\ Cardinality(p.busy) <= Concurrency
      /\ p.cursor < n => Cardinality(p.busy) = Concurrency
  BY <1>1, <1>2, <1>4, <1>5
<1>7. p.results = [i \in 1 .. n |-> p.results[i]] /\ \A i \in 1 .. n : p.results[i] = NotYet
  BY <1>5
<1>8. \A i \in 1 .. n : i > p.cursor \/ i \in p.busy
  BY <1>1, <1>2, <1>5
<1> QED BY <1>5, <1>6, <1>7, <1>8 DEF PoolOK, p, n

\* An agent that is done hands its worker on to the next task.
LEMMA SettleOK ==
    ASSUME NEW tasks, Len(tasks) \in Nat, NEW p, PoolOK(p, tasks), NEW i \in p.busy,
           NEW e \in OwnResults(tasks[i])
    PROVE  PoolOK(Settle(p, i, e), tasks)
<1> DEFINE n == Len(tasks)
           c == p.cursor
           next == Settle(p, i, e)
           more == c < n
<1>1. /\ c \in 0 .. n /\ n \in Nat /\ p.busy \in SUBSET (1 .. c) /\ i \in 1 .. c
      /\ p.results = [k \in 1 .. n |-> p.results[k]] /\ i \in 1 .. n
      /\ Concurrency \in Nat
  BY PullRequestAssumption DEF PoolOK
<1>2. Len(p.results) = n
  BY <1>1, FunctionIsSequence
<1>3. /\ DOMAIN next = {"cursor", "busy", "results"}
      /\ next.cursor = IF more THEN c + 1 ELSE c
      /\ next.busy = (p.busy \ {i}) \cup (IF more THEN {c + 1} ELSE {})
      /\ next.results = [p.results EXCEPT ![i] = e]
  BY <1>2 DEF Settle
<1>4. /\ next.results = [k \in 1 .. n |-> next.results[k]]
      /\ \A k \in 1 .. n : next.results[k] = IF k = i THEN e ELSE p.results[k]
  BY <1>1, <1>3
<1>5. IsFiniteSet(p.busy) /\ Cardinality(p.busy) \in Nat
  <2>1. IsFiniteSet(1 .. c)
    <3>1. c \in Nat
      BY <1>1
    <3> HIDE DEF c
    <3> QED BY <3>1, UpToCount
  <2> QED BY <1>1, <2>1, FS_Subset, FS_CardinalityType
<1>6. /\ IsFiniteSet(p.busy \ {i})
      /\ Cardinality(p.busy \ {i}) = Cardinality(p.busy) - 1
  BY <1>5, FS_RemoveElement
<1>7. more => Cardinality(next.busy) = Cardinality(p.busy)
  <2> HAVE more
  <2>1. c + 1 \notin p.busy \ {i}
    BY <1>1
  <2>2. Cardinality((p.busy \ {i}) \cup {c + 1}) = Cardinality(p.busy \ {i}) + 1
    BY <1>6, <2>1, FS_AddElement
  <2>3. next.busy = (p.busy \ {i}) \cup {c + 1}
    BY <1>3
  <2> QED BY <1>5, <1>6, <2>2, <2>3
<1>8. ~more => Cardinality(next.busy) = Cardinality(p.busy) - 1
  BY <1>3, <1>6
<1>9. Cardinality(p.busy) <= Concurrency /\ (more => Cardinality(p.busy) = Concurrency)
  BY DEF PoolOK
<1>10. \A k \in 1 .. n : IF k > c \/ k \in p.busy THEN p.results[k] = NotYet
                         ELSE p.results[k] \in OwnResults(tasks[k])
  BY DEF PoolOK
<1> HIDE DEF next
<1>11. /\ next.cursor \in 0 .. n /\ next.busy \in SUBSET (1 .. next.cursor)
       /\ next.cursor < n => more
  BY <1>1, <1>3
<1>12. /\ Cardinality(next.busy) <= Concurrency
       /\ next.cursor < n => Cardinality(next.busy) = Concurrency
  BY <1>1, <1>5, <1>7, <1>8, <1>9, <1>11
<1>13. ASSUME NEW k \in 1 .. n
       PROVE  IF k > next.cursor \/ k \in next.busy THEN next.results[k] = NotYet
              ELSE next.results[k] \in OwnResults(tasks[k])
  <2>1. CASE k = i
    BY <1>1, <1>3, <1>4, <2>1
  <2>2. CASE k # i /\ more /\ k = c + 1
    BY <1>1, <1>3, <1>4, <1>10, <2>2
  <2>3. CASE k # i /\ ~(more /\ k = c + 1)
    <3>1. (k > next.cursor \/ k \in next.busy) <=> (k > c \/ k \in p.busy)
      BY <1>1, <1>3, <2>3
    <3>2. next.results[k] = p.results[k]
      BY <1>4, <2>3
    <3> QED BY <1>10, <3>1, <3>2
  <2> QED BY <2>1, <2>2, <2>3
<1> QED BY <1>3, <1>4, <1>11, <1>12, <1>13 DEF PoolOK, next

\* The pool of every review whose agents run is in order.
PoolInv ==
    /\ DOMAIN pool = Reviews /\ DOMAIN seen = Reviews
    /\ \A r \in Reviews : cfg[r] \in Configs[r]
    /\ \A r \in Reviews :
         step[r] = "agents" =>
            /\ seen[r] \in Reviews
            /\ PoolOK(pool[r], TasksOf(Diff[seen[r]], cfg[r]))

\* A step that lets no agent start or answer.
Undisturbed ==
    /\ cfg' = cfg /\ DOMAIN pool' = Reviews /\ DOMAIN seen' = Reviews
    /\ \A q \in Reviews :
         step'[q] = "agents" => step[q] = "agents" /\ pool'[q] = pool[q] /\ seen'[q] = seen[q]

\* A step that starts no agents and touches no pool of running ones keeps PoolInv.
LEMMA UndisturbedKeeps ==
    ASSUME PoolInv, Undisturbed
    PROVE  PoolInv'
<1>1. ASSUME NEW q \in Reviews, step'[q] = "agents"
      PROVE  seen'[q] \in Reviews /\ PoolOK(pool'[q], TasksOf(Diff[seen'[q]], cfg'[q]))
  BY <1>1 DEF PoolInv, Undisturbed
<1> QED BY <1>1 DEF PoolInv, Undisturbed

\* A review whose agents run has its tasks.
LEMMA TasksAreNumbered ==
    ASSUME PoolInv, NEW r \in Reviews, NEW h \in Reviews
    PROVE  LET tasks == TasksOf(Diff[h], cfg[r])
           IN  Len(tasks) \in Nat /\ DOMAIN tasks = 1 .. Len(tasks)
<1>1. /\ IsSequence(Diff[h]) /\ \A f \in ToSet(Diff[h]) : IsFile(f)
      /\ IsSequence(Agents)
  BY InputsAssumption
<1> QED BY <1>1, TasksTyped

\* Every step keeps PoolInv.
LEMMA PoolStep ==
    ASSUME RowsInv, PoolInv, [Next]_vars
    PROVE  PoolInv'
<1>1. CASE UNCHANGED vars
  BY <1>1, UndisturbedKeeps DEF vars, Undisturbed, PoolInv
<1>2. CASE Push
  <2>1. Undisturbed
    BY <1>2 DEF Push, Undisturbed, PoolInv, RowsInv
  <2> QED BY <2>1, UndisturbedKeeps
<1>3. ASSUME NEW r \in Reviews, Begin(r) \/ Block(r) \/ Publish(r) \/ PostComment(r)
                                \/ PostInline(r) \/ FinishCheck(r) \/ Store(r) \/ Fail(r)
      PROVE  PoolInv'
  <2>1. Undisturbed
    <3>1. CASE Begin(r)
      BY <3>1 DEF Begin, Go, Undisturbed, PoolInv, RowsInv
    <3>2. CASE Block(r)
      BY <3>2 DEF Block, Go, Undisturbed, PoolInv, RowsInv
    <3>3. CASE Publish(r)
      BY <3>3 DEF Publish, Go, Undisturbed, PoolInv, RowsInv
    <3>4. CASE PostComment(r)
      BY <3>4 DEF PostComment, Go, Undisturbed, PoolInv, RowsInv
    <3>5. CASE PostInline(r)
      BY <3>5 DEF PostInline, Go, Undisturbed, PoolInv, RowsInv
    <3>6. CASE FinishCheck(r)
      BY <3>6 DEF FinishCheck, Go, Undisturbed, PoolInv, RowsInv
    <3>7. CASE Store(r)
      BY <3>7 DEF Store, Go, Undisturbed, PoolInv, RowsInv
    <3>8. CASE Fail(r)
      BY <3>8 DEF Fail, Undisturbed, PoolInv, RowsInv
    <3> QED BY <1>3, <3>1, <3>2, <3>3, <3>4, <3>5, <3>6, <3>7, <3>8
  <2> QED BY <2>1, UndisturbedKeeps
<1>4. ASSUME NEW r \in Reviews, Start(r)
      PROVE  PoolInv'
  <2> DEFINE tasks == TasksOf(Diff[head], cfg[r])
  <2>1. head \in Reviews
    <3>1. step[r] = "gate"
      BY <1>4 DEF Start, Go
    <3>2. ~(r > head)
      BY <3>1 DEF RowsInv
    <3> QED BY <3>2, PullRequestAssumption DEF RowsInv, Reviews
  <2>2. PoolOK(NewPool(tasks, Concurrency), tasks)
    <3>1. Len(tasks) \in Nat /\ DOMAIN tasks = 1 .. Len(tasks)
      BY <2>1, TasksAreNumbered
    <3> HIDE DEF tasks
    <3> QED BY <3>1, NewPoolOK
  <2>3. /\ cfg' = cfg
        /\ pool' = [pool EXCEPT ![r] = NewPool(tasks, Concurrency)]
        /\ seen' = [seen EXCEPT ![r] = head]
        /\ step' = [step EXCEPT ![r] = "agents"]
    BY <1>4 DEF Start, Go
  <2>4. /\ DOMAIN pool' = Reviews /\ DOMAIN seen' = Reviews
        /\ pool'[r] = NewPool(tasks, Concurrency) /\ seen'[r] = head
        /\ \A q \in Reviews \ {r} : pool'[q] = pool[q] /\ seen'[q] = seen[q] /\ step'[q] = step[q]
    <3> HIDE DEF tasks
    <3> QED BY <2>3 DEF PoolInv, RowsInv
  <2>5. ASSUME NEW q \in Reviews, step'[q] = "agents"
        PROVE  seen'[q] \in Reviews /\ PoolOK(pool'[q], TasksOf(Diff[seen'[q]], cfg'[q]))
    <3>1. CASE q = r
      <4>1. TasksOf(Diff[seen'[q]], cfg'[q]) = tasks
        BY <2>3, <2>4, <3>1
      <4> HIDE DEF tasks
      <4> QED BY <2>1, <2>2, <2>4, <3>1, <4>1
    <3>2. CASE q # r
      BY <2>3, <2>4, <2>5, <3>2 DEF PoolInv
    <3> QED BY <3>1, <3>2
  <2> QED BY <2>3, <2>4, <2>5 DEF PoolInv
<1>5. ASSUME NEW r \in Reviews, Answer(r)
      PROVE  PoolInv'
  <2> DEFINE tasks == TasksOf(Diff[seen[r]], cfg[r])
  <2>1. /\ step[r] = "agents" /\ seen[r] \in Reviews
        /\ PoolOK(pool[r], tasks) /\ Len(tasks) \in Nat
    BY <1>5, TasksAreNumbered DEF Answer, PoolInv
  <2>2. PICK i \in pool[r].busy : \E reply \in Replies(tasks[i].agent, tasks[i].chunk) :
           pool' = [pool EXCEPT ![r] = Settle(pool[r], i, Execution(tasks[i], reply))]
    BY <1>5 DEF Answer
  <2>3. PICK e \in OwnResults(tasks[i]) : pool' = [pool EXCEPT ![r] = Settle(pool[r], i, e)]
    <3> HIDE DEF tasks
    <3> QED BY <2>2 DEF OwnResults
  <2>4. PoolOK(Settle(pool[r], i, e), tasks)
    <3> HIDE DEF tasks
    <3> QED BY <2>1, SettleOK
  <2>5. UNCHANGED <<cfg, seen, step>>
    BY <1>5 DEF Answer
  <2>6. /\ DOMAIN pool' = Reviews /\ pool'[r] = Settle(pool[r], i, e)
        /\ \A q \in Reviews \ {r} : pool'[q] = pool[q]
    BY <2>3 DEF PoolInv
  <2>7. ASSUME NEW q \in Reviews, step'[q] = "agents"
        PROVE  seen'[q] \in Reviews /\ PoolOK(pool'[q], TasksOf(Diff[seen'[q]], cfg'[q]))
    <3>1. CASE q = r
      BY <2>1, <2>4, <2>5, <2>6, <3>1
    <3>2. CASE q # r
      BY <2>5, <2>6, <2>7, <3>2 DEF PoolInv
    <3> QED BY <3>1, <3>2
  <2> QED BY <2>5, <2>6, <2>7 DEF PoolInv
<1>6. ASSUME (\E r \in Reviews : Triage(r)) \/ ResetBudget \/ \E limit \in Limits : SetBudget(limit)
      PROVE  PoolInv'
  <2>1. UNCHANGED <<cfg, workerVars>>
    BY <1>6 DEF Triage, FindingAction, BulkFindingAction, ResetBudget, SetBudget
  <2>2. Undisturbed
    BY <2>1 DEF workerVars, Undisturbed, PoolInv
  <2> QED BY <2>2, UndisturbedKeeps
<1> QED BY <1>1, <1>2, <1>3, <1>4, <1>5, <1>6 DEF Next, Quiet

\* runAgents: while a job's agents run, the workers, the next index, the tasks in
\* flight and the results agree.
THEOREM PoolIsInOrder == Spec => []PoolInv
<1>1. Init => PoolInv
  BY DEF Init, PoolInv
<1>2. RowsInv /\ PoolInv /\ [Next]_vars => PoolInv'
  BY PoolStep
<1>3. Spec => []RowsInv
  BY MemoryIsRight, PTL
<1> QED BY <1>1, <1>2, <1>3, PTL DEF Spec

\* The pool keeps to its limit, idles no worker, and puts results in their place.
THEOREM PoolStaysSound == Spec => []PoolSound
<1>1. PoolInv => PoolSound
  <2> SUFFICES ASSUME PoolInv, NEW r \in Reviews, step[r] = "agents",
                      NEW tasks, tasks = TasksOf(Diff[seen[r]], cfg[r])
               PROVE  /\ DOMAIN pool[r].results = DOMAIN tasks
                      /\ Cardinality(pool[r].busy) <= Concurrency
                      /\ pool[r].cursor < Len(tasks) => Cardinality(pool[r].busy) = Concurrency
                      /\ \A i \in DOMAIN tasks :
                           IF i > pool[r].cursor \/ i \in pool[r].busy
                           THEN pool[r].results[i] = NotYet
                           ELSE pool[r].results[i] \in OwnResults(tasks[i])
    BY DEF PoolSound
  <2>1. PoolOK(pool[r], tasks) /\ DOMAIN tasks = 1 .. Len(tasks)
    BY TasksAreNumbered DEF PoolInv
  <2> QED BY <2>1 DEF PoolOK
<1>2. Spec => []PoolInv
  BY PoolIsInOrder
<1> QED BY <1>1, <1>2, PTL

-----------------------------------------------------------------------------
(* Steps, heads and what GitHub has of a review.                           *)

\* The steps of an attempt that has fetched a diff.
Working == {"agents", "comment", "inline", "check", "store"}

\* An attempt that works has the diff of its own head or a later one.
StepsInv ==
    /\ head \in 0 .. Pushes
    /\ step \in [Reviews -> Steps]
    /\ seen \in [Reviews -> 0 .. head]
    /\ \A r \in Reviews : step[r] \in Working => seen[r] \in r .. head
    /\ \A r \in Reviews : r > head => step[r] = "new"

\* The steps that touch neither head nor seen.
LEMMA StepMoves ==
    ASSUME StepsInv, NEW r \in Reviews, NEW from \in Steps \ {"new"}, NEW to \in Steps, Go(r, from, to),
           to \in Working => from \in Working, head' = head, seen' = seen
    PROVE  StepsInv'
  BY DEF StepsInv, Go, Steps, Working

\* Every step leaves the jobs where the worker puts them.
LEMMA StepsStep ==
    ASSUME StepsInv, [Next]_vars
    PROVE  StepsInv'
<1>0. Pushes \in Nat /\ Reviews = 1 .. Pushes
  BY PullRequestAssumption DEF Reviews
<1>1. CASE UNCHANGED vars
  BY <1>1 DEF vars, StepsInv
<1>2. CASE Push
  <2>1. /\ head' = head + 1 /\ head < Pushes /\ seen' = seen
        /\ step' = [step EXCEPT ![head + 1] = "queued"]
    BY <1>2 DEF Push
  <2>2. head' \in 0 .. Pushes /\ head + 1 \in Reviews
    BY <1>0, <2>1 DEF StepsInv
  <2>3. /\ step' \in [Reviews -> Steps]
        /\ \A q \in Reviews : step'[q] = IF q = head + 1 THEN "queued" ELSE step[q]
    BY <2>1, <2>2 DEF StepsInv, Steps
  <2>4. seen' \in [Reviews -> 0 .. head']
    BY <1>0, <2>1, <2>2 DEF StepsInv
  <2>5. \A q \in Reviews : step'[q] \in Working => seen'[q] \in q .. head'
    BY <1>0, <2>1, <2>3 DEF StepsInv, Working
  <2>6. \A q \in Reviews : q > head' => step'[q] = "new"
    BY <1>0, <2>1, <2>3 DEF StepsInv
  <2> QED BY <2>2, <2>3, <2>4, <2>5, <2>6 DEF StepsInv
<1>3. ASSUME NEW r \in Reviews, Begin(r) \/ Block(r) \/ Publish(r) \/ PostComment(r) \/ PostInline(r)
                                \/ FinishCheck(r)
      PROVE  StepsInv'
  <2>1. CASE Begin(r)
    BY <2>1, StepMoves DEF Begin, Steps, Working
  <2>2. CASE Block(r)
    BY <2>2, StepMoves DEF Block, Steps, Working
  <2>3. CASE Publish(r)
    BY <2>3, StepMoves DEF Publish, Steps, Working
  <2>4. CASE PostComment(r)
    BY <2>4, StepMoves DEF PostComment, Steps, Working
  <2>5. CASE PostInline(r)
    BY <2>5, StepMoves DEF PostInline, Steps, Working
  <2>6. CASE FinishCheck(r)
    BY <2>6, StepMoves DEF FinishCheck, Steps, Working
  <2> QED BY <1>3, <2>1, <2>2, <2>3, <2>4, <2>5, <2>6
<1>4. ASSUME NEW r \in Reviews, Start(r)
      PROVE  StepsInv'
  <2>1. /\ step[r] = "gate" /\ step' = [step EXCEPT ![r] = "agents"]
        /\ seen' = [seen EXCEPT ![r] = head] /\ head' = head
    BY <1>4 DEF Start, Go
  <2>2. r \in 1 .. head /\ head \in Nat
    BY <1>0, <2>1 DEF StepsInv
  <2> QED BY <1>0, <2>1, <2>2 DEF StepsInv, Steps, Working
<1>5. ASSUME NEW r \in Reviews, Store(r) \/ Fail(r)
      PROVE  StepsInv'
  <2>1. \E to \in {"done", "queued"} :
           /\ step[r] # "new" /\ step' = [step EXCEPT ![r] = to]
           /\ seen' = [seen EXCEPT ![r] = 0] /\ head' = head
    BY <1>5 DEF Store, Go, Fail
  <2> QED BY <1>0, <2>1 DEF StepsInv, Steps, Working
<1>6. ASSUME NEW r \in Reviews, Answer(r)
      PROVE  StepsInv'
  BY <1>6 DEF Answer, StepsInv
<1>7. ASSUME (\E r \in Reviews : Triage(r)) \/ ResetBudget \/ \E limit \in Limits : SetBudget(limit)
      PROVE  StepsInv'
  <2>1. UNCHANGED <<head, step, seen>>
    BY <1>7 DEF Triage, FindingAction, BulkFindingAction, ResetBudget, SetBudget, workerVars
  <2> QED BY <2>1 DEF StepsInv
<1> QED BY <1>1, <1>2, <1>3, <1>4, <1>5, <1>6, <1>7 DEF Next, Quiet

\* Steps and heads are in order at all times.
THEOREM StepsAreInOrder == Spec => []StepsInv
<1>1. Init => StepsInv
  <2> SUFFICES ASSUME Init PROVE StepsInv
    OBVIOUS
  <2>1. Pushes \in Nat
    BY PullRequestAssumption
  <2> QED BY <2>1 DEF Init, StepsInv, Steps, Working
<1>2. StepsInv /\ [Next]_vars => StepsInv'
  BY StepsStep
<1> QED BY <1>1, <1>2, PTL DEF Spec

-----------------------------------------------------------------------------
(* What an attempt makes of the answers.                                   *)

\* What is made of a diff, and what of it is told while it is about to be posted.
MadeInv ==
    /\ DOMAIN made = Reviews
    /\ \A r \in Reviews :
         /\ IsExecutions(made[r].executions) /\ IsFindings(made[r].summed.findings)
         /\ step[r] = "comment" =>
              Accounted(Competing(made[r].executions, cfg[r]), made[r].summed.findings,
                        made[r].suppressed, cfg[r].floor, cfg[r].threshold, cfg[r].maxPerFile)

\* What a job starts from is typed: no executions, no findings.
LEMMA NothingMade ==
    IsExecutions(NoReport.executions) /\ IsFindings(NoReport.summed.findings)
<1>1. IsFindings(<<>>)
  BY NoFindings
<1>2. ToSet(<<>>) = {}
  BY DEF ToSet
<1> QED BY <1>1, <1>2 DEF NoReport, Summed, IsExecutions, IsFindings

\* A pool that is through has an execution for every task.
LEMMA FinishedPool ==
    ASSUME RowsInv, PoolInv, NEW r \in Reviews, step[r] = "agents", Finished(pool[r])
    PROVE  IsExecutions(pool[r].results)
<1> DEFINE files == Diff[seen[r]]
           tasks == TasksOf(files, cfg[r])
           p == pool[r]
           n == Len(tasks)
<1>1. /\ seen[r] \in Reviews /\ PoolOK(p, tasks) /\ cfg[r] \in Configs[r]
  BY DEF PoolInv
<1>2. /\ IsSequence(files) /\ (\A f \in ToSet(files) : IsFile(f)) /\ IsSequence(Agents)
      /\ \A task \in ToSet(tasks) : \A reply \in Replies(task.agent, task.chunk) : IsReply(reply)
  BY <1>1, InputsAssumption
<1>3. n \in Nat /\ DOMAIN tasks = 1 .. n /\ \A i \in DOMAIN tasks : IsChunk(tasks[i].chunk)
  <2> HIDE DEF files
  <2> QED BY <1>2, TasksTyped
<1> HIDE DEF tasks
<1>4. p.busy = {} /\ p.cursor = n
  <2>1. p.busy = {}
    BY DEF Finished
  <2>2. Cardinality(p.busy) = 0
    BY <2>1, FS_EmptySet
  <2>3. Concurrency # 0
    BY PullRequestAssumption
  <2>4. p.cursor \in 0 .. n /\ (p.cursor < n => Cardinality(p.busy) = Concurrency)
    BY <1>1 DEF PoolOK
  <2> HIDE DEF p, n
  <2> QED BY <1>3, <2>1, <2>2, <2>3, <2>4
<1>5. ASSUME NEW i \in 1 .. n PROVE IsExecution(p.results[i])
  <2>1. p.results[i] \in OwnResults(tasks[i])
    <3>1. IF i > p.cursor \/ i \in p.busy THEN p.results[i] = NotYet
          ELSE p.results[i] \in OwnResults(tasks[i])
      BY <1>1 DEF PoolOK
    <3> HIDE DEF p, n
    <3> QED BY <1>3, <1>4, <3>1
  <2>2. PICK reply \in Replies(tasks[i].agent, tasks[i].chunk) : p.results[i] = Execution(tasks[i], reply)
    BY <2>1 DEF OwnResults
  <2>3. tasks[i] \in ToSet(tasks)
    BY <1>3 DEF ToSet
  <2> QED BY <1>2, <1>3, <2>2, <2>3, ExecutionTyped
<1>6. p.results = [i \in 1 .. n |-> p.results[i]]
  BY <1>1 DEF PoolOK
<1> HIDE DEF p, n
<1>7. IsSequence(p.results) /\ \A e \in ToSet(p.results) : \E i \in 1 .. n : e = p.results[i]
  BY <1>3, <1>6, FunctionIsSequence
<1> QED BY <1>5, <1>7 DEF IsExecutions, p

\* A step that makes nothing new, or forgets what was made.
LEMMA MadeKept ==
    ASSUME MadeInv, cfg' = cfg, DOMAIN made' = Reviews,
           \A q \in Reviews : \/ made'[q] = made[q] /\ (step'[q] = "comment" => step[q] = "comment")
                              \/ made'[q] = NoReport /\ step'[q] # "comment"
    PROVE  MadeInv'
<1>1. ASSUME NEW q \in Reviews
      PROVE  /\ IsExecutions(made'[q].executions) /\ IsFindings(made'[q].summed.findings)
             /\ step'[q] = "comment" =>
                  Accounted(Competing(made'[q].executions, cfg'[q]), made'[q].summed.findings,
                            made'[q].suppressed, cfg'[q].floor, cfg'[q].threshold, cfg'[q].maxPerFile)
  <2>1. CASE made'[q] = made[q] /\ (step'[q] = "comment" => step[q] = "comment")
    BY <2>1 DEF MadeInv
  <2>2. CASE made'[q] = NoReport /\ step'[q] # "comment"
    BY <2>2, NothingMade
  <2> QED BY <2>1, <2>2
<1> QED BY <1>1 DEF MadeInv

\* Every step keeps what the jobs have made accounted for.
LEMMA MadeStep ==
    ASSUME RowsInv, PoolInv, MadeInv, [Next]_vars
    PROVE  MadeInv'
<1>1. CASE UNCHANGED vars
  BY <1>1, MadeKept DEF vars, MadeInv
<1>2. CASE Push
  <2>1. UNCHANGED <<cfg, made>> /\ \A q \in Reviews : step'[q] = "comment" => step[q] = "comment"
    BY <1>2 DEF Push, RowsInv
  <2> QED BY <2>1, MadeKept DEF MadeInv
<1>3. ASSUME NEW r \in Reviews, Begin(r) \/ Block(r) \/ Start(r) \/ Answer(r) \/ PostComment(r)
                                \/ PostInline(r) \/ FinishCheck(r)
      PROVE  MadeInv'
  <2>1. UNCHANGED <<cfg, made>>
    BY <1>3 DEF Begin, Block, Start, Answer, PostComment, PostInline, FinishCheck
  <2>2. step' = step \/ \E to \in {"gate", "done", "agents", "inline", "check", "store"} :
                           step' = [step EXCEPT ![r] = to]
    BY <1>3 DEF Begin, Block, Start, Answer, PostComment, PostInline, FinishCheck, Go
  <2>3. \A q \in Reviews : step'[q] = "comment" => step[q] = "comment"
    BY <2>2 DEF RowsInv
  <2> QED BY <2>1, <2>3, MadeKept DEF MadeInv
<1>4. ASSUME NEW r \in Reviews, Publish(r)
      PROVE  MadeInv'
  <2> DEFINE results == pool[r].results
             files == Diff[seen[r]]
             c == cfg[r]
             m == Published(results, files, c)
  <2>1. /\ step[r] = "agents" /\ step' = [step EXCEPT ![r] = "comment"] /\ Finished(pool[r])
        /\ made' = [made EXCEPT ![r] = m] /\ cfg' = cfg
    BY <1>4 DEF Publish, Go
  <2>2. IsExecutions(results)
    BY <2>1, FinishedPool
  <2>3. IsConfig(c)
    <3>1. c \in Configs[r]
      BY DEF PoolInv
    <3> HIDE DEF c
    <3> QED BY <3>1, InputsAssumption
  <2> HIDE DEF results, files, m
  <2>4. /\ IsExecutions(m.executions) /\ IsFindings(m.summed.findings)
        /\ Accounted(Competing(m.executions, c), m.summed.findings, m.suppressed,
                     c.floor, c.threshold, c.maxPerFile)
    <3> HIDE DEF c
    <3> QED BY <2>2, <2>3, PublishedTells DEF m
  <2>5. /\ DOMAIN made' = Reviews /\ made'[r] = m
        /\ \A q \in Reviews \ {r} : made'[q] = made[q] /\ step'[q] = step[q]
    BY <2>1 DEF MadeInv, RowsInv
  <2>6. ASSUME NEW q \in Reviews
        PROVE  /\ IsExecutions(made'[q].executions) /\ IsFindings(made'[q].summed.findings)
               /\ step'[q] = "comment" =>
                    Accounted(Competing(made'[q].executions, cfg'[q]), made'[q].summed.findings,
                              made'[q].suppressed, cfg'[q].floor, cfg'[q].threshold, cfg'[q].maxPerFile)
    <3>1. CASE q = r
      BY <2>1, <2>4, <2>5, <3>1
    <3>2. CASE q # r
      BY <2>1, <2>5, <3>2 DEF MadeInv
    <3> QED BY <3>1, <3>2
  <2> QED BY <2>5, <2>6 DEF MadeInv
<1>5. ASSUME NEW r \in Reviews, Store(r) \/ Fail(r)
      PROVE  MadeInv'
  <2>1. /\ made' = [made EXCEPT ![r] = NoReport] /\ cfg' = cfg
        /\ \E to \in {"done", "queued"} : step' = [step EXCEPT ![r] = to]
    BY <1>5 DEF Store, Fail, Go
  <2>2. /\ DOMAIN made' = Reviews
        /\ \A q \in Reviews : \/ made'[q] = made[q] /\ step'[q] = step[q]
                              \/ made'[q] = NoReport /\ step'[q] # "comment"
    BY <2>1 DEF MadeInv, RowsInv
  <2> QED BY <2>1, <2>2, MadeKept
<1>6. ASSUME (\E r \in Reviews : Triage(r)) \/ ResetBudget \/ \E limit \in Limits : SetBudget(limit)
      PROVE  MadeInv'
  <2>1. UNCHANGED <<cfg, workerVars>>
    BY <1>6 DEF Triage, FindingAction, BulkFindingAction, ResetBudget, SetBudget
  <2> QED BY <2>1, MadeKept DEF workerVars, MadeInv
<1> QED BY <1>1, <1>2, <1>3, <1>4, <1>5, <1>6 DEF Next, Quiet

\* What a review has made of the answers is always in order.
THEOREM MadeInOrder == Spec => []MadeInv
<1>1. Init => MadeInv
  BY NothingMade DEF Init, MadeInv
<1>2. RowsInv /\ PoolInv /\ MadeInv /\ [Next]_vars => MadeInv'
  BY MadeStep
<1>3. Spec => []RowsInv
  BY MemoryIsRight, PTL
<1>4. Spec => []PoolInv
  BY PoolIsInOrder
<1> QED BY <1>1, <1>2, <1>3, <1>4, PTL DEF Spec

-----------------------------------------------------------------------------
(* Inline comments.                                                        *)

\* A sequence that is appended to.
Longer(t, s, x) ==
    IsSequence(t) /\ \A b \in DOMAIN t : (b \in DOMAIN s /\ t[b] = s[b]) \/ t[b] = x

\* That is what Append makes of one.
LEMMA AppendedTo ==
    ASSUME NEW s, IsSequence(s), NEW x
    PROVE  Longer(Append(s, x), s, x)
<1> DEFINE T == ToSet(s) \cup {x}
           t == Append(s, x)
<1>1. s \in Seq(ToSet(s)) /\ ToSet(s) \subseteq T /\ x \in T
  BY DEF IsSequence
<1> HIDE DEF T
<1>2. s \in Seq(T)
  BY <1>1
<1>3. /\ t \in Seq(T) /\ Len(t) = Len(s) + 1 /\ t[Len(s) + 1] = x
      /\ \A i \in 1 .. Len(s) : t[i] = s[i]
  BY <1>1, <1>2, AppendProperties
<1> HIDE DEF t
<1>4. Len(s) \in Nat /\ DOMAIN s = 1 .. Len(s) /\ DOMAIN t = 1 .. Len(t)
  BY <1>2, <1>3, LenProperties
<1>5. IsSequence(t)
  BY <1>3, MemberIsSequence
<1>6. \A b \in DOMAIN t : b \in DOMAIN s \/ b = Len(s) + 1
  BY <1>3, <1>4
<1> QED BY <1>3, <1>4, <1>5, <1>6 DEF Longer, t

\* What is submitted inline, and for which head.
InlineInv ==
    /\ DOMAIN inline = Reviews
    /\ \A r \in Reviews : IsSequence(inline[r])
    /\ AnchoredUnlessMoved

\* Heads only move on, so what was submitted stays as it is.
LEMMA InlineKept ==
    ASSUME InlineInv, inline' = inline, head \in Nat, head' = head \/ head' = head + 1
    PROVE  InlineInv'
<1>1. ASSUME NEW r \in Reviews, NEW b \in DOMAIN inline[r]
      PROVE  inline[r][b].of = r \/ inline[r][b].of \in r + 1 .. head'
  <2>1. inline[r][b].of = r \/ inline[r][b].of \in r + 1 .. head
    BY DEF InlineInv, AnchoredUnlessMoved
  <2>2. r \in Nat
    BY DEF Reviews
  <2> QED BY <2>1, <2>2
<1> QED BY <1>1 DEF InlineInv, AnchoredUnlessMoved

\* Every step keeps the inline comments where they may stand.
LEMMA InlineStep ==
    ASSUME StepsInv, PoolInv, MadeInv, InlineInv, [Next]_vars
    PROVE  InlineInv'
<1>0. head \in Nat
  BY PullRequestAssumption DEF StepsInv
<1>1. CASE inline' = inline /\ (head' = head \/ head' = head + 1)
  BY <1>0, <1>1, InlineKept
<1>2. ASSUME NEW r \in Reviews, PostInline(r), inline' # inline
      PROVE  InlineInv'
  <2> DEFINE options == cfg[r].inline
             fs == made[r].summed.findings
             files == Diff[seen[r]]
             anchored == InlineComments(fs, files, options.min, options.max)
             batch == [of |-> seen[r], comments |-> anchored]
             t == Append(inline[r], batch)
  <2>1. step[r] = "inline" /\ inline' = [inline EXCEPT ![r] = t] /\ head' = head
    BY <1>2 DEF PostInline, Go
  <2>2. seen[r] = r \/ seen[r] \in r + 1 .. head
    <3>1. seen[r] \in r .. head /\ r \in Nat
      BY <2>1 DEF StepsInv, Working, Reviews
    <3> QED BY <1>0, <3>1
  <2>3. options.max \in Nat
    <3>1. IsConfig(cfg[r])
      BY InputsAssumption DEF PoolInv
    <3> QED BY <3>1 DEF IsConfig
  <2>4. IsSequence(fs)
    BY DEF MadeInv, IsFindings
  <2>5. batch.of = seen[r] /\ batch.comments = anchored
    OBVIOUS
  <2> HIDE DEF options, fs, anchored, batch
  <2>6. \A i \in DOMAIN anchored : anchored[i].line \in CommentableLines(files, anchored[i].file)
    <3> HIDE DEF files
    <3> QED BY <2>3, <2>4, InlineTaken DEF anchored
  <2>7. Longer(t, inline[r], batch)
    BY AppendedTo DEF InlineInv
  <2> HIDE DEF t
  <2>8. IsSequence(t) /\ \A b \in DOMAIN t : (b \in DOMAIN inline[r] /\ t[b] = inline[r][b]) \/ t[b] = batch
    BY <2>7 DEF Longer
  <2>9. /\ DOMAIN inline' = Reviews /\ inline'[r] = t
        /\ \A q \in Reviews \ {r} : inline'[q] = inline[q]
    BY <2>1 DEF InlineInv
  <2>10. \A q \in Reviews : \A b \in DOMAIN inline'[q] :
           (inline'[q][b] = batch /\ q = r) \/ (b \in DOMAIN inline[q] /\ inline'[q][b] = inline[q][b])
    BY <2>8, <2>9
  <2>11. ASSUME NEW q \in Reviews, NEW b \in DOMAIN inline'[q], NEW x, x = inline'[q][b]
         PROVE  /\ x.of = q \/ x.of \in q + 1 .. head
                /\ \A i \in DOMAIN x.comments :
                      x.comments[i].line \in CommentableLines(Diff[x.of], x.comments[i].file)
    <3>1. CASE x = batch /\ q = r
      BY <2>2, <2>5, <2>6, <3>1
    <3>2. CASE b \in DOMAIN inline[q] /\ x = inline[q][b]
      BY <3>2 DEF InlineInv, AnchoredUnlessMoved
    <3> QED BY <2>10, <2>11, <3>1, <3>2
  <2>12. AnchoredUnlessMoved'
    BY <2>1, <2>11 DEF AnchoredUnlessMoved
  <2>13. \A q \in Reviews : IsSequence(inline'[q])
    BY <2>8, <2>9 DEF InlineInv
  <2> QED BY <2>9, <2>12, <2>13 DEF InlineInv
<1>3. CASE Push \/ ResetBudget \/ (\E limit \in Limits : SetBudget(limit)) \/ UNCHANGED vars
  <2>1. inline' = inline /\ (head' = head \/ head' = head + 1)
    BY <1>3 DEF Push, ResetBudget, SetBudget, githubVars, vars
  <2> QED BY <1>1, <2>1
<1>4. ASSUME NEW r \in Reviews, Begin(r) \/ Block(r) \/ Start(r) \/ Answer(r) \/ Publish(r) \/ PostComment(r)
      PROVE  inline' = inline /\ head' = head
  BY <1>4 DEF Begin, Block, Start, Answer, Publish, PostComment, githubVars
<1>5. ASSUME NEW r \in Reviews, FinishCheck(r) \/ Store(r) \/ Fail(r) \/ Triage(r)
      PROVE  inline' = inline /\ head' = head
  BY <1>5 DEF FinishCheck, Store, Fail, Triage, FindingAction, BulkFindingAction, githubVars
<1>6. ASSUME NEW r \in Reviews, PostInline(r) PROVE head' = head
  BY <1>6 DEF PostInline
<1> QED BY <1>1, <1>2, <1>3, <1>4, <1>5, <1>6 DEF Next, Quiet

\* Inline comments are in order at all times.
THEOREM InlineInOrder == Spec => []InlineInv
<1>1. Init => InlineInv
  <2> SUFFICES ASSUME Init PROVE InlineInv
    OBVIOUS
  <2>1. inline = [r \in Reviews |-> <<>>]
    BY DEF Init
  <2>2. IsSequence(<<>>) /\ DOMAIN <<>> = {}
    BY NoFindings DEF IsFindings
  <2> QED BY <2>1, <2>2 DEF InlineInv, AnchoredUnlessMoved
<1>2. StepsInv /\ PoolInv /\ MadeInv /\ InlineInv /\ [Next]_vars => InlineInv'
  BY InlineStep
<1>3. Spec => []StepsInv /\ []PoolInv /\ []MadeInv
  BY StepsAreInOrder, PoolIsInOrder, MadeInOrder
<1> QED BY <1>1, <1>2, <1>3, PTL DEF Spec

\* Inline comments stand on lines of the diff that was reviewed, for whatever
\* pushes come between.
THEOREM CommentsAreAnchored == Spec => []AnchoredUnlessMoved
<1>1. InlineInv => AnchoredUnlessMoved
  BY DEF InlineInv
<1> QED BY <1>1, InlineInOrder, PTL

-----------------------------------------------------------------------------
(* The store.                                                              *)

Statuses == {"absent", "queued", "running", "completed", "failed"}

\* What the rows, the memory and the ledger hold.
StockInv ==
    /\ \A r \in Reviews :
         /\ rows[r].status \in Statuses
         /\ IsSequence(rows[r].findings)
         /\ \A i \in DOMAIN rows[r].findings : Rankable(rows[r].findings[i])
    /\ \A p \in memory : p.severity \in Severities
    /\ ledger \in [known : BOOLEAN, spent : Nat, limit : Nat]

\* A step that touches no findings and stores nothing.
LEMMA StockKept ==
    ASSUME StockInv, memory' = memory, ledger' \in [known : BOOLEAN, spent : Nat, limit : Nat],
           \A q \in Reviews : /\ rows'[q].findings = rows[q].findings
                              /\ rows'[q].status \in Statuses
    PROVE  StockInv'
  BY DEF StockInv

\* A stored finding is as severe and stands where the finding does.
LEMMA StoredRankable ==
    ASSUME NEW f, Rankable(f), NEW mem
    PROVE  Rankable(Stored(f, mem))
  BY DEF Rankable, Stored

\* A completed review adds typed findings to its row, and a natural cost to the ledger.
LEMMA StoreStocks ==
    ASSUME RowsInv, PoolInv, MadeInv, StockInv, NEW r \in Reviews, Store(r)
    PROVE  StockInv'
<1> DEFINE fs == made[r].summed.findings
           new == [i \in DOMAIN fs |-> Stored(fs[i], memory)]
           cost == TotalCostUsd(made[r].executions)
<1>1. /\ rows'[r].status = "completed" /\ rows'[r].findings = new
      /\ \A q \in Reviews \ {r} : rows'[q] = rows[q]
      /\ memory' = memory /\ ledger' = Spent(ledger, cost, cfg[r].budget)
  BY DEF RowsInv, Store, Completed
<1>2. IsFindings(fs) /\ IsExecutions(made[r].executions)
  BY DEF MadeInv
<1>3. cfg[r].budget \in Nat
  <2>1. IsConfig(cfg[r])
    BY InputsAssumption DEF PoolInv
  <2> QED BY <2>1 DEF IsConfig
<1>4. cost \in Nat
  BY <1>2, TotalCostTyped
<1> HIDE DEF cost, fs
<1>5. ledger' \in [known : BOOLEAN, spent : Nat, limit : Nat]
  BY <1>1, <1>3, <1>4 DEF StockInv, Spent
<1>6. Len(fs) \in Nat /\ DOMAIN fs = 1 .. Len(fs) /\ \A i \in DOMAIN fs : Rankable(fs[i])
  <2>1. Len(fs) \in Nat /\ DOMAIN fs = 1 .. Len(fs) /\ \A i \in DOMAIN fs : fs[i] \in ToSet(fs)
    BY <1>2, SequenceFacts DEF IsFindings
  <2> QED BY <1>2, <2>1, FindingRankable DEF IsFindings
<1>7. new = [i \in 1 .. Len(fs) |-> new[i]] /\ \A i \in 1 .. Len(fs) : Rankable(new[i])
  BY <1>6, StoredRankable
<1> HIDE DEF new
<1>8. IsSequence(new) /\ \A i \in DOMAIN new : Rankable(new[i])
  <2>1. IsSequence(new) /\ DOMAIN new = 1 .. Len(fs)
    BY <1>6, <1>7, FunctionIsSequence
  <2> QED BY <1>7, <2>1
<1> QED BY <1>1, <1>5, <1>8 DEF StockInv, Statuses

\* A triage request leaves findings typed, and remembers only typed fingerprints.
LEMMA ApplyStocks ==
    ASSUME RowsInv, StockInv, NEW r \in Reviews, NEW state \in {"open", "dismissed"},
           NEW S \in SUBSET DOMAIN rows[r].findings, Apply(r, S, state), ledger' = ledger
    PROVE  StockInv'
<1> DEFINE row == rows[r]
           old == row.findings
           prints == Prints(row, S)
           Changed(i) == IF i \in S THEN [old[i] EXCEPT !.state = state, !.auto = FALSE] ELSE old[i]
           new == [i \in DOMAIN old |-> Changed(i)]
<1>1. /\ rows'[r] = WithState(row, S, state)
      /\ \A q \in Reviews \ {r} : rows'[q] = rows[q]
      /\ memory' = Remember(memory, row, S, state)
  BY DEF RowsInv, Apply
<1>2. IsRow(row) /\ row.status \in Statuses /\ IsSequence(old) /\ S \in SUBSET DOMAIN old
      /\ \A i \in DOMAIN old : Rankable(old[i]) /\ IsStored(old[i])
  BY DEF StockInv, RowsInv
<1> HIDE DEF row
<1>3. rows'[r].status = row.status /\ rows'[r].findings = new
  <2>1. WithState(row, S, state) = [row EXCEPT !.findings = new]
    BY DEF WithState
  <2> HIDE DEF new
  <2>2. rows'[r] = [row EXCEPT !.findings = new]
    BY <1>1, <2>1
  <2> QED BY <1>2, <2>2 DEF IsRow
<1> HIDE DEF old
<1>4. \A p \in memory' : p.severity \in Severities
  <2>1. \A i \in S : Fingerprint(old[i]).severity \in Severities
    BY <1>2 DEF Fingerprint, Rankable
  <2>2. \A p \in prints : p.severity \in Severities
    BY <2>1 DEF Prints, old
  <2> HIDE DEF prints
  <2>3. memory' = memory \cup prints \/ memory' = memory \ prints
    BY <1>1 DEF Remember, prints
  <2> QED BY <2>2, <2>3 DEF StockInv
<1>5. ASSUME NEW i \in DOMAIN old PROVE Rankable(Changed(i))
  <2> DEFINE g == old[i]
  <2>1. Rankable(g) /\ IsStored(g)
    BY <1>2
  <2>2. Changed(i) = g \/ Changed(i) = [g EXCEPT !.state = state, !.auto = FALSE]
    OBVIOUS
  <2> HIDE DEF g, Changed
  <2>3. Rankable([g EXCEPT !.state = state, !.auto = FALSE])
    BY <2>1 DEF Rankable, IsStored
  <2> QED BY <2>1, <2>2, <2>3
<1>6. Len(old) \in Nat /\ DOMAIN old = 1 .. Len(old)
  BY <1>2, SequenceFacts
<1>7. new = [i \in 1 .. Len(old) |-> new[i]] /\ \A i \in 1 .. Len(old) : Rankable(new[i])
  <2> HIDE DEF Changed
  <2> QED BY <1>5, <1>6
<1> HIDE DEF new
<1>8. IsSequence(new) /\ \A i \in DOMAIN new : Rankable(new[i])
  <2>1. IsSequence(new) /\ DOMAIN new = 1 .. Len(old)
    BY <1>6, <1>7, FunctionIsSequence
  <2> QED BY <1>7, <2>1
<1> QED BY <1>1, <1>2, <1>3, <1>4, <1>8 DEF StockInv

\* Every step keeps the rows, the memory and the ledger typed.
LEMMA StockStep ==
    ASSUME RowsInv, PoolInv, MadeInv, StockInv, [Next]_vars
    PROVE  StockInv'
<1>1. CASE UNCHANGED <<rows, memory, ledger>>
  BY <1>1 DEF StockInv
<1>2. CASE Push
  <2>1. /\ head + 1 \in Reviews /\ rows' = [rows EXCEPT ![head + 1] = Started]
        /\ memory' = memory /\ ledger' = ledger
    BY <1>2, PullRequestAssumption DEF Push, RowsInv, Reviews
  <2>2. rows[head + 1].findings = <<>>
    <3>1. head + 1 > head
      BY PullRequestAssumption DEF RowsInv
    <3> QED BY <2>1, <3>1 DEF RowsInv
  <2>3. \A q \in Reviews : rows'[q].findings = rows[q].findings /\ rows'[q].status \in Statuses
    BY <2>1, <2>2 DEF RowsInv, StockInv, Statuses, Started, NoRow
  <2> QED BY <2>1, <2>3, StockKept DEF StockInv
<1>3. ASSUME NEW r \in Reviews, Begin(r) \/ Block(r) \/ Fail(r)
      PROVE  StockInv'
  <2>1. PICK c \in {"running", "failed"} : rows' = [rows EXCEPT ![r].status = c]
    BY <1>3 DEF Begin, Block, Fail
  <2>2. memory' = memory /\ ledger' = ledger
    BY <1>3 DEF Begin, Block, Fail
  <2>3. \A q \in Reviews : rows'[q].findings = rows[q].findings /\ rows'[q].status \in Statuses
    <3>1. \A q \in Reviews : /\ rows'[q].findings = rows[q].findings
                             /\ rows'[q].status = IF q = r THEN c ELSE rows[q].status
      BY <2>1, StatusOnly
    <3> QED BY <3>1 DEF StockInv, Statuses
  <2> QED BY <2>2, <2>3, StockKept DEF StockInv
<1>4. ASSUME NEW r \in Reviews, Store(r) PROVE StockInv'
  BY <1>4, StoreStocks
<1>5. ASSUME NEW r \in Reviews, Triage(r) PROVE StockInv'
  <2>1. PICK state \in {"open", "dismissed"} :
           \E S \in SUBSET DOMAIN rows[r].findings : Apply(r, S, state) /\ ledger' = ledger
    BY <1>5 DEF Triage, FindingAction, BulkFindingAction, BulkTargets
  <2>2. PICK S \in SUBSET DOMAIN rows[r].findings : Apply(r, S, state) /\ ledger' = ledger
    BY <2>1
  <2> QED BY <2>2, ApplyStocks
<1>6. ASSUME ResetBudget \/ \E limit \in Limits : SetBudget(limit) PROVE StockInv'
  <2>1. rows' = rows /\ memory' = memory
    BY <1>6 DEF ResetBudget, SetBudget
  <2>2. ledger' \in [known : BOOLEAN, spent : Nat, limit : Nat]
    <3>1. CASE ResetBudget
      BY <3>1 DEF ResetBudget, NoEntry
    <3>2. ASSUME NEW limit \in Limits, SetBudget(limit)
          PROVE  ledger' \in [known : BOOLEAN, spent : Nat, limit : Nat]
      <4>1. limit \in Nat /\ ledger.spent + 0 \in Nat
        BY PullRequestAssumption DEF StockInv
      <4>2. ledger' = [known |-> TRUE, spent |-> ledger.spent + 0, limit |-> limit]
        BY <3>2 DEF SetBudget, Spent
      <4> QED BY <4>1, <4>2
    <3> QED BY <1>6, <3>1, <3>2
  <2> QED BY <2>1, <2>2, StockKept DEF StockInv
<1>7. \/ UNCHANGED <<rows, memory, ledger>>
      \/ Push \/ ResetBudget \/ \E limit \in Limits : SetBudget(limit)
      \/ \E r \in Reviews : Begin(r) \/ Block(r) \/ Fail(r) \/ Store(r) \/ Triage(r)
  BY DEF Next, vars, Quiet, Start, Answer, Publish, PostComment, PostInline, FinishCheck
<1> QED BY <1>1, <1>2, <1>3, <1>4, <1>5, <1>6, <1>7

\* Rows, memory and ledger are in order at all times.
THEOREM StockIsInOrder == Spec => []StockInv
<1>1. Init => StockInv
  <2> SUFFICES ASSUME Init PROVE StockInv
    OBVIOUS
  <2>1. /\ rows = [r \in Reviews |-> NoRow] /\ memory = {} /\ ledger = NoEntry
    BY DEF Init
  <2>2. IsSequence(<<>>) /\ DOMAIN <<>> = {}
    BY NoFindings DEF IsFindings
  <2> QED BY <2>1, <2>2 DEF StockInv, NoRow, NoEntry, Statuses
<1>2. RowsInv /\ PoolInv /\ MadeInv /\ StockInv /\ [Next]_vars => StockInv'
  BY StockStep
<1>3. Spec => []RowsInv /\ []PoolInv /\ []MadeInv
  BY MemoryIsRight, PoolIsInOrder, MadeInOrder, PTL
<1> QED BY <1>1, <1>2, <1>3, PTL DEF Spec

\* From the answers to the comment, and from the store to the SARIF export, no
\* finding is lost without a reason, whatever the findings are and whatever
\* passes they go through.
THEOREM NoFindingIsLost == Spec => []NothingLost
<1>1. MadeInv /\ StockInv => NothingLost
  <2> SUFFICES ASSUME MadeInv, StockInv, NEW r \in Reviews
               PROVE  /\ step[r] = "comment" =>
                           Accounted(Competing(made[r].executions, cfg[r]), made[r].summed.findings,
                                     made[r].suppressed, cfg[r].floor, cfg[r].threshold, cfg[r].maxPerFile)
                      /\ Accounted(OpenOnes(rows[r].findings), SarifResults(rows[r].findings), <<>>,
                                   0, Nit, ExportCap)
    BY DEF NothingLost
  <2>1. IsSequence(rows[r].findings) /\ \A i \in DOMAIN rows[r].findings : Rankable(rows[r].findings[i])
    BY DEF StockInv
  <2>2. Accounted(OpenOnes(rows[r].findings), SarifResults(rows[r].findings), <<>>, 0, Nit, ExportCap)
    BY <2>1, ExportAccounts
  <2> QED BY <2>2 DEF MadeInv
<1>2. Spec => []MadeInv /\ []StockInv
  BY MadeInOrder, StockIsInOrder
<1> QED BY <1>1, <1>2, PTL

-----------------------------------------------------------------------------
(* Types.                                                                  *)

\* deriveCheckRun() knows a verdict for every count.
LEMMA ConclusionTyped ==
    ASSUME NEW totals
    PROVE  Conclusion(totals) \in Verdicts
<1> DEFINE present == {s \in Severities : totals[s] > 0}
           verdictOf ==
               CASE present = {} -> "success"
                 [] Critical \in present -> "failure"
                 [] Critical \notin present /\ High \in present -> "action_required"
                 [] present \cap {Critical, High} = {} /\ present \cap {Medium, Low} # {} -> "neutral"
                 [] present = {Nit} -> "success"
<1>1. Conclusion(totals) = verdictOf
  BY DEF Conclusion
<1>2. present \subseteq {Critical, High, Medium, Low, Nit}
  <2>1. \A s \in present : s \in 0 .. 4
    BY DEF Severities, Critical, Nit
  <2> HIDE DEF present
  <2>2. \A s \in present : s = 0 \/ s = 1 \/ s = 2 \/ s = 3 \/ s = 4
    BY <2>1
  <2> QED BY <2>2 DEF Critical, High, Medium, Low, Nit
<1> HIDE DEF present
<1>3. \/ present = {}
      \/ Critical \in present
      \/ Critical \notin present /\ High \in present
      \/ present \cap {Critical, High} = {} /\ present \cap {Medium, Low} # {}
      \/ present = {Nit}
  BY <1>2
<1>4. verdictOf \in {"success", "failure", "action_required", "neutral"}
  BY <1>3
<1> HIDE DEF verdictOf
<1> QED BY <1>1, <1>4 DEF Verdicts

\* What GitHub shows of the reviews, and what is used up of the bounds.
ShownInv ==
    /\ verdict \in [Reviews -> Verdicts]
    /\ comment.review \in 0 .. head /\ comment.kind \in {"none", "blocked", "report"}
    /\ faults \in 0 .. MaxFaults /\ acts \in 0 .. MaxActs /\ budgetOps \in 0 .. MaxBudgetOps

\* A comment is of a review that was pushed.
LEMMA Commented ==
    ASSUME StepsInv, ShownInv, NEW r \in Reviews, step[r] # "new", head' = head,
           comment'.review = r, comment'.kind \in {"blocked", "report"},
           UNCHANGED <<verdict, faults, acts, budgetOps>>
    PROVE  ShownInv'
<1>1. r \in 0 .. head
  BY PullRequestAssumption DEF StepsInv, Reviews
<1> QED BY <1>1 DEF ShownInv

\* Every step keeps the comment on a review that was pushed, and the bounds.
LEMMA ShownStep ==
    ASSUME StepsInv, ShownInv, [Next]_vars
    PROVE  ShownInv'
<1>0. /\ MaxFaults \in Nat /\ MaxActs \in Nat /\ MaxBudgetOps \in Nat /\ head \in Nat
      /\ faults \in Nat /\ acts \in Nat /\ budgetOps \in Nat
  BY PullRequestAssumption DEF StepsInv, ShownInv
<1>1. CASE UNCHANGED <<head, verdict, comment, faults, acts, budgetOps>>
  BY <1>1 DEF ShownInv
<1>2. CASE Push
  <2>1. head' = head + 1 /\ UNCHANGED <<verdict, comment, faults, acts, budgetOps>>
    BY <1>2 DEF Push, githubVars, bounds
  <2>2. comment'.review \in 0 .. head'
    BY <1>0, <2>1 DEF ShownInv
  <2> QED BY <2>1, <2>2 DEF ShownInv
<1>3. ASSUME NEW r \in Reviews, Block(r)
      PROVE  ShownInv'
  <2>1. /\ step[r] # "new" /\ head' = head /\ UNCHANGED <<verdict, faults, acts, budgetOps>>
        /\ comment' = [NoComment EXCEPT !.review = r, !.kind = "blocked"]
    BY <1>3 DEF Block, Go, bounds
  <2>2. comment'.review = r /\ comment'.kind = "blocked"
    BY <2>1 DEF NoComment
  <2> QED BY <2>1, <2>2, Commented
<1>4. ASSUME NEW r \in Reviews, PostComment(r)
      PROVE  ShownInv'
  <2>1. /\ step[r] # "new" /\ head' = head /\ UNCHANGED <<verdict, faults, acts, budgetOps>>
        /\ comment'.review = r /\ comment'.kind = "report"
    BY <1>4 DEF PostComment, Go, bounds
  <2> QED BY <2>1, Commented
<1>5. ASSUME NEW r \in Reviews, PostInline(r)
      PROVE  ShownInv'
  <2>1. /\ UNCHANGED <<head, verdict, comment, acts, budgetOps>>
        /\ faults' = faults \/ (faults < MaxFaults /\ faults' = faults + 1)
    BY <1>5 DEF PostInline
  <2>2. faults' \in 0 .. MaxFaults
    BY <1>0, <2>1 DEF ShownInv
  <2> QED BY <2>1, <2>2 DEF ShownInv
<1>6. ASSUME NEW r \in Reviews, FinishCheck(r) \/ Fail(r)
      PROVE  ShownInv'
  <2>1. /\ UNCHANGED <<head, comment, acts, budgetOps>>
        /\ faults' = faults \/ (faults < MaxFaults /\ faults' = faults + 1)
    BY <1>6 DEF FinishCheck, Fail, bounds
  <2>2. \E v \in Verdicts : verdict' = [verdict EXCEPT ![r] = v]
    <3>1. CASE FinishCheck(r)
      BY <3>1, ConclusionTyped DEF FinishCheck
    <3>2. CASE Fail(r)
      <4>1. verdict' = [verdict EXCEPT ![r] = IF step[r] = "gate" THEN verdict[r] ELSE "failure"]
        BY <3>2 DEF Fail
      <4>2. verdict[r] \in Verdicts /\ "failure" \in Verdicts
        BY DEF ShownInv, Verdicts
      <4> QED BY <4>1, <4>2
    <3> QED BY <1>6, <3>1, <3>2
  <2>3. verdict' \in [Reviews -> Verdicts] /\ faults' \in 0 .. MaxFaults
    BY <1>0, <2>1, <2>2 DEF ShownInv
  <2> QED BY <2>1, <2>3 DEF ShownInv
<1>7. ASSUME NEW r \in Reviews, Triage(r)
      PROVE  ShownInv'
  <2>1. /\ UNCHANGED <<head, verdict, comment, faults, budgetOps>>
        /\ acts < MaxActs /\ acts' = acts + 1
    BY <1>7 DEF Triage, FindingAction, BulkFindingAction, githubVars
  <2>2. acts' \in 0 .. MaxActs
    BY <1>0, <2>1 DEF ShownInv
  <2> QED BY <2>1, <2>2 DEF ShownInv
<1>8. ASSUME ResetBudget \/ \E limit \in Limits : SetBudget(limit)
      PROVE  ShownInv'
  <2>1. /\ UNCHANGED <<head, verdict, comment, faults, acts>>
        /\ budgetOps < MaxBudgetOps /\ budgetOps' = budgetOps + 1
    BY <1>8 DEF ResetBudget, SetBudget, githubVars
  <2>2. budgetOps' \in 0 .. MaxBudgetOps
    BY <1>0, <2>1 DEF ShownInv
  <2> QED BY <2>1, <2>2 DEF ShownInv
<1>9. ASSUME NEW r \in Reviews, Begin(r) \/ Start(r) \/ Answer(r) \/ Publish(r) \/ Store(r)
      PROVE  UNCHANGED <<head, verdict, comment, faults, acts, budgetOps>>
  BY <1>9 DEF Begin, Start, Answer, Publish, Store, githubVars, bounds
<1>10. UNCHANGED vars => UNCHANGED <<head, verdict, comment, faults, acts, budgetOps>>
  BY DEF vars
<1> QED BY <1>1, <1>2, <1>3, <1>4, <1>5, <1>6, <1>7, <1>8, <1>9, <1>10 DEF Next, Quiet

\* What GitHub shows is of reviews that were pushed.
THEOREM ShownIsInOrder == Spec => []ShownInv
<1>1. Init => ShownInv
  <2> SUFFICES ASSUME Init PROVE ShownInv
    OBVIOUS
  <2>1. /\ head = 0 /\ comment = NoComment /\ verdict = [r \in Reviews |-> "none"]
        /\ faults = 0 /\ acts = 0 /\ budgetOps = 0
    BY DEF Init
  <2>2. MaxFaults \in Nat /\ MaxActs \in Nat /\ MaxBudgetOps \in Nat
    BY PullRequestAssumption
  <2> QED BY <2>1, <2>2 DEF ShownInv, Verdicts, NoComment
<1>2. StepsInv /\ ShownInv /\ [Next]_vars => ShownInv'
  BY ShownStep
<1>3. Spec => []StepsInv
  BY StepsAreInOrder
<1> QED BY <1>1, <1>2, <1>3, PTL DEF Spec

\* Every variable keeps its type; in particular every severity stays on the scale.
THEOREM TypesAreKept == Spec => []TypeOK
<1>1. RowsInv /\ StepsInv /\ MadeInv /\ StockInv /\ ShownInv => TypeOK
  <2> SUFFICES ASSUME RowsInv, StepsInv, MadeInv, StockInv, ShownInv PROVE TypeOK
    OBVIOUS
  <2>1. ASSUME NEW r \in Reviews
        PROVE  /\ rows[r].status \in Statuses
               /\ \A f \in ToSet(rows[r].findings) \cup ToSet(made[r].summed.findings) :
                    f.severity \in Severities
               /\ \A i \in DOMAIN rows[r].findings : rows[r].findings[i].state \in {"open", "dismissed"}
    <3>1. \A f \in ToSet(made[r].summed.findings) : f.severity \in Severities
      BY DEF MadeInv, IsFindings, IsFinding
    <3>2. \A f \in ToSet(rows[r].findings) : f.severity \in Severities
      BY SequenceFacts DEF StockInv, Rankable
    <3>3. \A i \in DOMAIN rows[r].findings : rows[r].findings[i].state \in {"open", "dismissed"}
      BY DEF RowsInv, IsStored
    <3> QED BY <3>1, <3>2, <3>3 DEF StockInv
  <2>2. /\ head \in 0 .. Pushes /\ step \in [Reviews -> Steps] /\ seen \in [Reviews -> 0 .. head]
    BY DEF StepsInv
  <2>3. /\ verdict \in [Reviews -> Verdicts]
        /\ comment.review \in 0 .. head /\ comment.kind \in {"none", "blocked", "report"}
        /\ faults \in 0 .. MaxFaults /\ acts \in 0 .. MaxActs /\ budgetOps \in 0 .. MaxBudgetOps
    BY DEF ShownInv
  <2>4. /\ ledger \in [known : BOOLEAN, spent : Nat, limit : Nat]
        /\ \A p \in memory : p.severity \in Severities
    BY DEF StockInv
  <2> QED BY <2>1, <2>2, <2>3, <2>4 DEF TypeOK, Statuses
<1>2. Spec => []RowsInv /\ []StepsInv /\ []MadeInv /\ []StockInv /\ []ShownInv
  BY MemoryIsRight, StepsAreInOrder, MadeInOrder, StockIsInOrder, ShownIsInOrder, PTL
<1> QED BY <1>1, <1>2, PTL

-----------------------------------------------------------------------------
(* What is told of a review.                                               *)

\* The row keeps the published findings fs, and their digest.
Keeps(row, fs, c) ==
    /\ IsFindings(fs) /\ Retold(row.findings, fs) /\ row.digest = DigestOf(fs)
    /\ \A i \in DOMAIN fs : Passes(fs[i], c.floor, c.threshold)

\* What was told on GitHub of the findings fs of r.
Announced(r, fs) ==
    /\ comment.review = r => comment.body = PrComment(Summed(fs), DigestOf(fs))
    /\ verdict[r] = Conclusion(Totals(fs))

\* A review that is about to be posted is what came of the answers; one that is posted
\* was told of in the comment, one that is to be stored in the verdict too; and what a
\* completed row keeps is what was told.
AtComment(r) ==
    step[r] = "comment" => /\ IsExecutions(pool[r].results)
                           /\ made[r] = Published(pool[r].results, Diff[seen[r]], cfg[r])
                           /\ Told(made[r], cfg[r])
AtPost(r) ==
    step[r] \in {"inline", "check", "store"} =>
        /\ Told(made[r], cfg[r])
        /\ comment.review = r => comment.body = PrComment(made[r].summed, made[r].digest)
        /\ step[r] = "store" => verdict[r] = Conclusion(made[r].summed.totals)
AtRest(r) ==
    rows[r].status = "completed" => \E fs : Keeps(rows[r], fs, cfg[r]) /\ Announced(r, fs)

ToldInv == \A r \in Reviews : AtComment(r) /\ AtPost(r) /\ AtRest(r)

\* A step of another review, or of nobody's, that posts no comment on this one.
Aside(r) ==
    /\ step'[r] = step[r] /\ made'[r] = made[r] /\ pool'[r] = pool[r] /\ seen'[r] = seen[r]
    /\ cfg'[r] = cfg[r] /\ rows'[r] = rows[r] /\ verdict'[r] = verdict[r]
    /\ comment' = comment \/ comment'.review # r

\* Such a step leaves all that is told of this review as it was.
LEMMA AsideKeeps ==
    ASSUME NEW r \in Reviews, AtComment(r), AtPost(r), AtRest(r), Aside(r)
    PROVE  (AtComment(r) /\ AtPost(r) /\ AtRest(r))'
<1>1. AtComment(r)'
  BY DEF AtComment, Aside
<1>2. AtPost(r)'
  BY DEF AtPost, Aside
<1>3. AtRest(r)'
  BY DEF AtRest, Announced, Aside
<1> QED BY <1>1, <1>2, <1>3

\* A completed review stays at rest while its row is only triaged.
LEMMA TriageKeeps ==
    ASSUME RowsInv, NEW r \in Reviews, AtComment(r), AtPost(r), AtRest(r), NEW S, NEW state,
           rows'[r] = WithState(rows[r], S, state), UNCHANGED <<cfg, workerVars, githubVars>>
    PROVE  (AtComment(r) /\ AtPost(r) /\ AtRest(r))'
<1>1. AtComment(r)' /\ AtPost(r)'
  BY DEF AtComment, AtPost, workerVars, githubVars
<1>2. IsRow(rows[r]) /\ \A i \in DOMAIN rows[r].findings : IsStored(rows[r].findings[i])
  BY DEF RowsInv
<1>3. rows'[r].status = rows[r].status
  <2> DEFINE row == rows[r]
  <2>1. rows'[r] = [row EXCEPT !.findings = rows'[r].findings]
    BY <1>2 DEF WithState, IsRow
  <2> QED BY <1>2, <2>1 DEF IsRow
<1>4. ASSUME rows[r].status = "completed"
      PROVE  \E fs : Keeps(rows'[r], fs, cfg'[r]) /\ Announced(r, fs)'
  <2>1. PICK fs : Keeps(rows[r], fs, cfg[r]) /\ Announced(r, fs)
    BY <1>4 DEF AtRest
  <2>2. Retold(rows'[r].findings, fs) /\ rows'[r].digest = rows[r].digest
    BY <1>2, <2>1, TriagedRetold DEF Keeps
  <2>3. Keeps(rows'[r], fs, cfg'[r])
    BY <2>1, <2>2 DEF Keeps
  <2>4. Announced(r, fs)'
    BY <2>1 DEF Announced, githubVars
  <2> QED BY <2>3, <2>4
<1>5. AtRest(r)'
  BY <1>3, <1>4 DEF AtRest
<1> QED BY <1>1, <1>5

\* What an attempt publishes is told of.
LEMMA PublishTold ==
    ASSUME RowsInv, PoolInv, MadeInv, NEW r \in Reviews, Publish(r)
    PROVE  AtComment(r)'
<1> DEFINE results == pool[r].results
           files == Diff[seen[r]]
           c == cfg[r]
           m == Published(results, files, c)
           local == LocalReport(results, files, c)
<1>1. /\ step[r] = "agents" /\ Finished(pool[r])
      /\ made' = [made EXCEPT ![r] = m] /\ cfg' = cfg /\ pool' = pool /\ seen' = seen
  BY DEF Publish, Go
<1>2. IsExecutions(results)
  BY <1>1, FinishedPool
<1>3. IsConfig(c)
  <2>1. c \in Configs[r]
    BY DEF PoolInv
  <2> HIDE DEF c
  <2> QED BY <2>1, InputsAssumption
<1> HIDE DEF c, results, files
<1>4. Told(m, c)
  <2> HIDE DEF m, local
  <2> QED BY <1>2, <1>3, PublishedTold DEF m, local
<1> HIDE DEF m
<1>5. made'[r] = m
  BY <1>1 DEF MadeInv
<1>6. /\ IsExecutions(pool'[r].results) /\ made'[r] = Published(pool'[r].results, Diff[seen'[r]], cfg'[r])
      /\ Told(made'[r], cfg'[r])
  BY <1>1, <1>2, <1>4, <1>5 DEF m, results, files, c
<1> QED BY <1>6 DEF AtComment

\* A review is not at rest while its job goes on.
LEMMA NotAtRest ==
    ASSUME RowsInv', NEW r \in Reviews, step'[r] # "done"
    PROVE  AtRest(r)'
  BY DEF RowsInv, AtRest

\* Every step keeps what is told.
LEMMA ToldStep ==
    ASSUME RowsInv, RowsInv', PoolInv, StepsInv, MadeInv, ShownInv, ToldInv, [Next]_vars
    PROVE  ToldInv'
<1> DEFINE Still(q) == (AtComment(q) /\ AtPost(q) /\ AtRest(q))'
<1>0. /\ DOMAIN step = Reviews /\ DOMAIN rows = Reviews /\ DOMAIN made = Reviews /\ DOMAIN pool = Reviews
      /\ DOMAIN seen = Reviews /\ DOMAIN verdict = Reviews
      /\ \A q \in Reviews : /\ AtComment(q) /\ AtPost(q) /\ AtRest(q)
  BY DEF RowsInv, MadeInv, PoolInv, ShownInv, ToldInv
<1>1. ASSUME NEW r \in Reviews, Still(r), \A q \in Reviews \ {r} : Aside(q)
      PROVE  ToldInv'
  <2>1. \A q \in Reviews \ {r} : Still(q)
    BY <1>0, <1>1, AsideKeeps
  <2> HIDE DEF Still
  <2>2. \A q \in Reviews : Still(q)
    BY <1>1, <2>1
  <2> QED BY <2>2 DEF ToldInv, Still
<1>2. CASE UNCHANGED <<cfg, rows, workerVars, githubVars>>
  <2>1. \A q \in Reviews : Aside(q)
    BY <1>2 DEF Aside, workerVars, githubVars
  <2>2. \A q \in Reviews : Still(q)
    BY <1>0, <2>1, AsideKeeps
  <2> QED BY <2>2 DEF ToldInv
<1>3. CASE Push
  <2>1. PICK r \in Reviews : r = head + 1
    BY <1>3, PullRequestAssumption DEF Push, RowsInv, Reviews
  <2>2. /\ step' = [step EXCEPT ![r] = "queued"] /\ rows' = [rows EXCEPT ![r] = Started]
        /\ UNCHANGED <<cfg, made, pool, seen, verdict, comment>>
    BY <1>3, <2>1 DEF Push, githubVars
  <2>3. \A q \in Reviews \ {r} : Aside(q)
    BY <1>0, <2>2 DEF Aside
  <2>4. step'[r] = "queued"
    BY <1>0, <2>1, <2>2
  <2>5. Still(r)
    BY <2>1, <2>4, NotAtRest DEF AtComment, AtPost
  <2> QED BY <1>1, <2>1, <2>3, <2>5
<1>4. ASSUME NEW r \in Reviews, Begin(r) \/ Start(r) \/ Fail(r)
      PROVE  ToldInv'
  <2>1. /\ step'[r] \in {"gate", "agents", "queued"}
        /\ \A q \in Reviews \ {r} : Aside(q)
    <3>1. CASE Begin(r)
      BY <1>0, <3>1 DEF Begin, Go, Aside, githubVars
    <3>2. CASE Start(r)
      BY <1>0, <3>2 DEF Start, Go, Aside, githubVars
    <3>3. CASE Fail(r)
      BY <1>0, <3>3 DEF Fail, Aside
    <3> QED BY <1>4, <3>1, <3>2, <3>3
  <2>2. Still(r)
    BY <2>1, NotAtRest DEF AtComment, AtPost
  <2> QED BY <1>1, <2>1, <2>2
<1>5. ASSUME NEW r \in Reviews, Block(r)
      PROVE  ToldInv'
  <2>1. /\ step'[r] = "done" /\ rows'[r].status = "failed"
        /\ \A q \in Reviews \ {r} : Aside(q)
    <3>1. /\ step' = [step EXCEPT ![r] = "done"] /\ rows' = [rows EXCEPT ![r].status = "failed"]
          /\ comment' = [NoComment EXCEPT !.review = r, !.kind = "blocked"]
          /\ UNCHANGED <<cfg, made, pool, seen, verdict>>
      BY <1>5 DEF Block, Go
    <3>2. comment'.review = r
      BY <3>1 DEF NoComment
    <3>3. rows'[r].status = "failed" /\ \A q \in Reviews \ {r} : rows'[q] = rows[q]
      BY <3>1 DEF RowsInv, IsRow
    <3> QED BY <1>0, <3>1, <3>2, <3>3 DEF Aside
  <2>2. Still(r)
    BY <2>1 DEF AtComment, AtPost, AtRest
  <2> QED BY <1>1, <2>1, <2>2
<1>6. ASSUME NEW r \in Reviews, Answer(r)
      PROVE  ToldInv'
  <2>1. step'[r] = "agents" /\ \A q \in Reviews \ {r} : Aside(q)
    <3>1. /\ step[r] = "agents" /\ UNCHANGED <<cfg, rows, step, seen, made, githubVars>>
          /\ \E x : pool' = [pool EXCEPT ![r] = x]
      BY <1>6 DEF Answer
    <3> QED BY <1>0, <3>1 DEF Aside, githubVars
  <2>2. Still(r)
    BY <2>1, NotAtRest DEF AtComment, AtPost
  <2> QED BY <1>1, <2>1, <2>2
<1>7. ASSUME NEW r \in Reviews, Publish(r)
      PROVE  ToldInv'
  <2>1. AtComment(r)'
    BY <1>7, PublishTold
  <2>2. step'[r] = "comment" /\ \A q \in Reviews \ {r} : Aside(q)
    BY <1>0, <1>7 DEF Publish, Go, Aside, githubVars
  <2>3. Still(r)
    BY <2>1, <2>2, NotAtRest DEF AtPost
  <2> QED BY <1>1, <2>2, <2>3
<1>8. ASSUME NEW r \in Reviews, PostComment(r)
      PROVE  ToldInv'
  <2>1. /\ step[r] = "comment" /\ step' = [step EXCEPT ![r] = "inline"]
        /\ comment' = [review |-> r, kind |-> "report", body |-> PrComment(made[r].summed, made[r].digest)]
        /\ pool' = [pool EXCEPT ![r] = NoPool] /\ UNCHANGED <<cfg, rows, seen, made, verdict>>
    BY <1>8 DEF PostComment, Go
  <2>2. comment'.review = r /\ comment'.body = PrComment(made[r].summed, made[r].digest)
    BY <2>1
  <2>3. \A q \in Reviews \ {r} : Aside(q)
    BY <1>0, <2>1, <2>2 DEF Aside
  <2>4. step'[r] = "inline"
    BY <1>0, <2>1
  <2>5. Told(made[r], cfg[r])
    BY <1>0, <2>1 DEF AtComment
  <2>6. AtPost(r)'
    BY <2>1, <2>2, <2>4, <2>5 DEF AtPost
  <2>7. Still(r)
    BY <2>4, <2>6, NotAtRest DEF AtComment
  <2> QED BY <1>1, <2>3, <2>7
<1>9. ASSUME NEW r \in Reviews, PostInline(r)
      PROVE  ToldInv'
  <2>1. /\ step[r] = "inline" /\ step' = [step EXCEPT ![r] = "check"]
        /\ UNCHANGED <<cfg, rows, seen, pool, made, comment, verdict>>
    BY <1>9 DEF PostInline, Go
  <2>2. step'[r] = "check" /\ \A q \in Reviews \ {r} : Aside(q)
    BY <1>0, <2>1 DEF Aside
  <2>3. AtPost(r)'
    BY <1>0, <2>1, <2>2 DEF AtPost
  <2>4. Still(r)
    BY <2>2, <2>3, NotAtRest DEF AtComment
  <2> QED BY <1>1, <2>2, <2>4
<1>10. ASSUME NEW r \in Reviews, FinishCheck(r)
       PROVE  ToldInv'
  <2>1. /\ step[r] = "check" /\ step' = [step EXCEPT ![r] = "store"]
        /\ verdict' = [verdict EXCEPT ![r] = Conclusion(made[r].summed.totals)]
        /\ UNCHANGED <<cfg, rows, seen, pool, made, comment>>
    BY <1>10 DEF FinishCheck, Go
  <2>2. step'[r] = "store" /\ verdict'[r] = Conclusion(made[r].summed.totals)
    BY <1>0, <2>1
  <2>3. \A q \in Reviews \ {r} : Aside(q)
    BY <1>0, <2>1 DEF Aside
  <2>4. AtPost(r)'
    BY <1>0, <2>1, <2>2 DEF AtPost
  <2>5. Still(r)
    BY <2>2, <2>4, NotAtRest DEF AtComment
  <2> QED BY <1>1, <2>3, <2>5
<1>11. ASSUME NEW r \in Reviews, Store(r)
       PROVE  ToldInv'
  <2>0. PICK m, fs : m = made[r] /\ fs = m.summed.findings
    OBVIOUS
  <2> DEFINE gs == [i \in DOMAIN fs |-> Stored(fs[i], memory)]
  <2>1. /\ step[r] = "store" /\ step' = [step EXCEPT ![r] = "done"]
        /\ rows' = [rows EXCEPT ![r] = Completed(rows[r], fs, m.digest, TotalCostUsd(m.executions),
                                                  TotalTokens(m.executions), memory)]
        /\ made' = [made EXCEPT ![r] = NoReport] /\ seen' = [seen EXCEPT ![r] = 0]
        /\ UNCHANGED <<cfg, pool, comment, verdict>>
    BY <1>11, <2>0 DEF Store, Go, githubVars
  <2>2. /\ Told(m, cfg[r]) /\ verdict[r] = Conclusion(m.summed.totals)
        /\ comment.review = r => comment.body = PrComment(m.summed, m.digest)
    BY <1>0, <2>0, <2>1 DEF AtPost
  <2>3. \A q \in Reviews \ {r} : Aside(q)
    BY <1>0, <2>1 DEF Aside
  <2>4. step'[r] = "done"
    BY <1>0, <2>1
  <2>5. rows'[r].findings = gs /\ rows'[r].digest = m.digest
    BY <1>0, <2>1 DEF Completed
  <2>6. /\ IsFindings(fs) /\ m.digest = DigestOf(fs) /\ m.summed = Summed(fs)
        /\ \A i \in DOMAIN fs : Passes(fs[i], cfg[r].floor, cfg[r].threshold)
    BY <2>0, <2>2 DEF Told
  <2>7. Retold(gs, fs)
    BY <2>6, StoredRetold DEF IsFindings
  <2> HIDE DEF gs
  <2>8. Keeps(rows'[r], fs, cfg'[r])
    BY <2>1, <2>5, <2>6, <2>7 DEF Keeps
  <2>9. m.summed.totals = Totals(fs)
    BY <2>6 DEF Summed
  <2>10. Announced(r, fs)'
    BY <2>1, <2>2, <2>6, <2>9 DEF Announced
  <2>11. Still(r)
    BY <2>4, <2>8, <2>10 DEF AtComment, AtPost, AtRest
  <2> QED BY <1>1, <2>3, <2>11
<1>12. ASSUME NEW r \in Reviews, Triage(r)
       PROVE  ToldInv'
  <2>1. PICK state \in {"open", "dismissed"} :
           \E S : rows' = [rows EXCEPT ![r] = WithState(rows[r], S, state)]
    BY <1>12 DEF Triage, FindingAction, BulkFindingAction, Apply
  <2>2. PICK S : rows' = [rows EXCEPT ![r] = WithState(rows[r], S, state)]
    BY <2>1
  <2>3. UNCHANGED <<cfg, workerVars, githubVars>>
    BY <1>12 DEF Triage, FindingAction, BulkFindingAction
  <2>4. rows'[r] = WithState(rows[r], S, state) /\ \A q \in Reviews \ {r} : rows'[q] = rows[q]
    BY <1>0, <2>2
  <2>5. Still(r)
    BY <1>0, <2>3, <2>4, TriageKeeps
  <2>6. \A q \in Reviews \ {r} : Aside(q)
    BY <2>3, <2>4 DEF Aside, workerVars, githubVars
  <2> QED BY <1>1, <2>5, <2>6
<1>13. UNCHANGED vars \/ ResetBudget \/ (\E limit \in Limits : SetBudget(limit))
          => UNCHANGED <<cfg, rows, workerVars, githubVars>>
  BY DEF vars, ResetBudget, SetBudget, workerVars, githubVars
<1> QED BY <1>2, <1>3, <1>4, <1>5, <1>6, <1>7, <1>8, <1>9, <1>10, <1>11, <1>12, <1>13 DEF Next, Quiet

\* What is told of a review is told of what its agents found, at all times.
THEOREM ToldAtAllTimes == Spec => []ToldInv
<1>1. Init => ToldInv
  <2> SUFFICES ASSUME Init, NEW r \in Reviews PROVE AtComment(r) /\ AtPost(r) /\ AtRest(r)
    BY DEF ToldInv
  <2>1. step[r] = "new" /\ rows[r].status = "absent"
    BY DEF Init, NoRow
  <2> QED BY <2>1 DEF AtComment, AtPost, AtRest
<1>2. RowsInv /\ RowsInv' /\ PoolInv /\ StepsInv /\ MadeInv /\ ShownInv /\ ToldInv /\ [Next]_vars => ToldInv'
  BY ToldStep
<1>3. Spec => []RowsInv /\ []PoolInv /\ []StepsInv /\ []MadeInv /\ []ShownInv
  BY MemoryIsRight, PoolIsInOrder, StepsAreInOrder, MadeInOrder, ShownIsInOrder, PTL
<1> QED BY <1>1, <1>2, <1>3, PTL DEF Spec

\* Those who are the same as one are the same.
LEMMA SameAgain ==
    ASSUME NEW f, NEW g, NEW h, SameFinding(f, g), SameFinding(g, h)
    PROVE  SameFinding(f, h)
  BY DEF SameFinding

\* Inline comments are of findings that were made, or, once the review is completed, of
\* findings that are stored; unless a call has failed, which may leave some of an earlier
\* attempt.
Backed(r) ==
    faults = 0 =>
        \A b \in DOMAIN inline[r] : \A i \in DOMAIN inline[r][b].comments :
            \/ /\ step[r] \in {"check", "store"}
               /\ inline[r][b].comments[i] \in ToSet(made[r].summed.findings)
            \/ /\ rows[r].status = "completed"
               /\ \E j \in DOMAIN rows[r].findings :
                     SameFinding(rows[r].findings[j], inline[r][b].comments[i])

BackedInv == \A r \in Reviews : Backed(r)

\* A step that submits nothing inline for r, and leaves its findings where they are.
LEMMA BackedKept ==
    ASSUME NEW r \in Reviews, Backed(r), faults' = faults, inline'[r] = inline[r],
           step[r] \in {"check", "store"} => step'[r] \in {"check", "store"} /\ made'[r] = made[r],
           rows[r].status = "completed" =>
              /\ rows'[r].status = "completed"
              /\ \A j \in DOMAIN rows[r].findings :
                    /\ j \in DOMAIN rows'[r].findings
                    /\ SameFinding(rows'[r].findings[j], rows[r].findings[j])
    PROVE  Backed(r)'
<1> SUFFICES ASSUME faults = 0, NEW b \in DOMAIN inline[r], NEW i \in DOMAIN inline[r][b].comments,
                    NEW x, x = inline[r][b].comments[i]
             PROVE  \/ step'[r] \in {"check", "store"} /\ x \in ToSet(made'[r].summed.findings)
                    \/ /\ rows'[r].status = "completed"
                       /\ \E j \in DOMAIN rows'[r].findings : SameFinding(rows'[r].findings[j], x)
  BY DEF Backed
<1>1. CASE step[r] \in {"check", "store"} /\ x \in ToSet(made[r].summed.findings)
  BY <1>1
<1>2. ASSUME rows[r].status = "completed", NEW j \in DOMAIN rows[r].findings,
             SameFinding(rows[r].findings[j], x)
      PROVE  /\ rows'[r].status = "completed"
             /\ \E k \in DOMAIN rows'[r].findings : SameFinding(rows'[r].findings[k], x)
  <2>1. /\ rows'[r].status = "completed" /\ j \in DOMAIN rows'[r].findings
        /\ SameFinding(rows'[r].findings[j], rows[r].findings[j])
    BY <1>2
  <2>2. SameFinding(rows'[r].findings[j], x)
    BY <1>2, <2>1, SameAgain
  <2> QED BY <2>1, <2>2
<1>3. \/ step[r] \in {"check", "store"} /\ x \in ToSet(made[r].summed.findings)
      \/ /\ rows[r].status = "completed"
         /\ \E j \in DOMAIN rows[r].findings : SameFinding(rows[r].findings[j], x)
  BY DEF Backed
<1> QED BY <1>1, <1>2, <1>3

\* A row that keeps its findings.
LEMMA SameRow ==
    ASSUME NEW r \in Reviews, rows'[r] = rows[r]
    PROVE  rows[r].status = "completed" =>
              /\ rows'[r].status = "completed"
              /\ \A j \in DOMAIN rows[r].findings :
                    /\ j \in DOMAIN rows'[r].findings
                    /\ SameFinding(rows'[r].findings[j], rows[r].findings[j])
  BY DEF SameFinding

\* A step that leaves the row, the inline comments and what was made of r.
LEMMA BackedAside ==
    ASSUME NEW r \in Reviews, Backed(r), faults' = faults, inline'[r] = inline[r],
           rows[r].status = "completed" => rows'[r] = rows[r],
           step[r] \in {"check", "store"} => step'[r] \in {"check", "store"} /\ made'[r] = made[r]
    PROVE  Backed(r)'
<1>1. CASE rows'[r] = rows[r]
  BY <1>1, SameRow, BackedKept
<1>2. CASE rows[r].status # "completed"
  BY <1>2, BackedKept
<1> QED BY <1>1, <1>2

\* What is submitted inline is found in the review.
LEMMA InlinePosted ==
    ASSUME RowsInv, PoolInv, MadeInv, InlineInv, NEW r \in Reviews, Backed(r), PostInline(r), faults' = faults
    PROVE  Backed(r)'
<1> DEFINE options == cfg[r].inline
           fs == made[r].summed.findings
           files == Diff[seen[r]]
           anchored == InlineComments(fs, files, options.min, options.max)
           batch == [of |-> seen[r], comments |-> anchored]
           t == Append(inline[r], batch)
<1>1. /\ step[r] = "inline" /\ step' = [step EXCEPT ![r] = "check"] /\ made' = made
      /\ inline' = inline \/ inline' = [inline EXCEPT ![r] = t]
  BY DEF PostInline, Go
<1>2. step'[r] = "check" /\ rows[r].status # "completed"
  BY <1>1 DEF RowsInv
<1>3. options.max \in Nat
  <2>1. IsConfig(cfg[r])
    BY InputsAssumption DEF PoolInv
  <2> QED BY <2>1 DEF IsConfig
<1>4. IsSequence(fs)
  BY DEF MadeInv, IsFindings
<1>5. batch.comments = anchored
  OBVIOUS
<1>6. fs = made'[r].summed.findings
  BY <1>1
<1> HIDE DEF options, fs, anchored, batch
<1>7. \A i \in DOMAIN anchored : anchored[i] \in ToSet(fs)
  <2> HIDE DEF files
  <2> QED BY <1>3, <1>4, InlineTaken DEF anchored
<1>8. Longer(t, inline[r], batch)
  BY AppendedTo DEF InlineInv
<1> HIDE DEF t
<1>9. \A b \in DOMAIN t : (b \in DOMAIN inline[r] /\ t[b] = inline[r][b]) \/ t[b] = batch
  BY <1>8 DEF Longer
<1>10. faults = 0 => \A b \in DOMAIN inline[r] : \A i \in DOMAIN inline[r][b].comments : FALSE
  BY <1>1, <1>2 DEF Backed
<1>11. \A b \in DOMAIN inline'[r] :
          (b \in DOMAIN inline[r] /\ inline'[r][b] = inline[r][b]) \/ inline'[r][b] = batch
  BY <1>1, <1>9 DEF InlineInv
<1>12. faults = 0 => \A b \in DOMAIN inline'[r] : \A i \in DOMAIN inline'[r][b].comments :
                        inline'[r][b].comments[i] \in ToSet(fs)
  BY <1>5, <1>7, <1>10, <1>11
<1> QED BY <1>2, <1>6, <1>12 DEF Backed

\* What was submitted inline is found in the store.
LEMMA InlineStored ==
    ASSUME RowsInv, MadeInv, NEW r \in Reviews, Backed(r), Store(r)
    PROVE  Backed(r)'
<1>0. PICK fs : fs = made[r].summed.findings
  OBVIOUS
<1> DEFINE gs == [i \in DOMAIN fs |-> Stored(fs[i], memory)]
<1>1. /\ step[r] = "store" /\ inline' = inline /\ faults' = faults
      /\ rows' = [rows EXCEPT ![r] = Completed(rows[r], fs, made[r].digest, TotalCostUsd(made[r].executions),
                                               TotalTokens(made[r].executions), memory)]
  BY <1>0 DEF Store, Go, githubVars, bounds
<1>2. rows'[r].status = "completed" /\ rows'[r].findings = gs
  BY <1>1 DEF Completed, RowsInv
<1>3. rows[r].status # "completed"
  BY <1>1 DEF RowsInv
<1>4. IsSequence(fs)
  BY <1>0 DEF MadeInv, IsFindings
<1>5. Retold(gs, fs)
  BY <1>4, StoredRetold
<1> HIDE DEF gs
<1>6. DOMAIN gs = DOMAIN fs /\ \A i \in DOMAIN gs : SameFinding(gs[i], fs[i])
  BY <1>5, RetoldFields
<1>7. \A x \in ToSet(fs) : \E j \in DOMAIN gs : SameFinding(gs[j], x)
  <2>1. \A x \in ToSet(fs) : \E j \in DOMAIN fs : x = fs[j]
    BY <1>4, SequenceFacts
  <2> QED BY <1>6, <2>1
<1>8. faults = 0 => \A b \in DOMAIN inline[r] : \A i \in DOMAIN inline[r][b].comments :
                       inline[r][b].comments[i] \in ToSet(fs)
  BY <1>0, <1>3 DEF Backed
<1>9. faults = 0 => \A b \in DOMAIN inline[r] : \A i \in DOMAIN inline[r][b].comments :
                       \E j \in DOMAIN gs : SameFinding(gs[j], inline[r][b].comments[i])
  BY <1>7, <1>8
<1> QED BY <1>1, <1>2, <1>9 DEF Backed

\* A review that is triaged is backed as it was.
LEMMA TriageBacks ==
    ASSUME RowsInv, StockInv, NEW r \in Reviews, Backed(r), NEW S, NEW state,
           rows'[r] = WithState(rows[r], S, state), UNCHANGED <<faults, workerVars, githubVars>>
    PROVE  Backed(r)'
<1> DEFINE old == rows[r].findings
           new == rows'[r].findings
<1>1. IsRow(rows[r]) /\ IsSequence(old) /\ \A i \in DOMAIN old : IsStored(old[i])
  BY DEF RowsInv, StockInv
<1>2. Retold(old, old)
  BY <1>1 DEF Retold
<1>3. Retold(new, old) /\ rows'[r].status = rows[r].status
  BY <1>1, <1>2, TriagedRetold
<1>4. DOMAIN old = DOMAIN new /\ \A j \in DOMAIN new : SameFinding(new[j], old[j])
  <2> HIDE DEF new, old
  <2> QED BY <1>3, RetoldFields
<1> QED BY <1>3, <1>4, BackedKept DEF workerVars, githubVars

\* Every step keeps inline comments backed.
LEMMA BackedStep ==
    ASSUME RowsInv, PoolInv, MadeInv, StockInv, ShownInv, InlineInv, BackedInv, [Next]_vars
    PROVE  BackedInv'
<1>0. /\ DOMAIN step = Reviews /\ DOMAIN rows = Reviews /\ DOMAIN made = Reviews /\ DOMAIN inline = Reviews
      /\ \A q \in Reviews : Backed(q) /\ (step[q] # "done" => rows[q].status # "completed")
  BY DEF RowsInv, MadeInv, InlineInv, BackedInv
<1>1. ASSUME faults' # 0 PROVE BackedInv'
  BY <1>1 DEF BackedInv, Backed
<1>2. ASSUME UNCHANGED <<faults, inline>>,
             \A q \in Reviews : /\ rows[q].status = "completed" => rows'[q] = rows[q]
                                /\ step[q] \in {"check", "store"} =>
                                      step'[q] \in {"check", "store"} /\ made'[q] = made[q]
      PROVE  BackedInv'
  BY <1>0, <1>2, BackedAside DEF BackedInv
<1>3. CASE Push
  <2>1. PICK r \in Reviews : r = head + 1
    BY <1>3, PullRequestAssumption DEF Push, RowsInv, Reviews
  <2>2. step[r] = "new"
    BY <2>1, PullRequestAssumption DEF RowsInv, Reviews
  <2>3. /\ step' = [step EXCEPT ![r] = "queued"] /\ rows' = [rows EXCEPT ![r] = Started]
        /\ UNCHANGED <<faults, inline, made>>
    BY <1>3, <2>1 DEF Push, githubVars, bounds
  <2> QED BY <1>0, <1>2, <2>2, <2>3
<1>4. ASSUME NEW r \in Reviews, Begin(r) \/ Block(r) \/ Start(r) \/ Answer(r) \/ Publish(r)
                                \/ PostComment(r) \/ FinishCheck(r)
      PROVE  BackedInv'
  <2>1. /\ UNCHANGED <<faults, inline>>
        /\ \A q \in Reviews \ {r} : step'[q] = step[q] /\ made'[q] = made[q] /\ rows'[q] = rows[q]
        /\ step[r] # "done"
        /\ step[r] \in {"check", "store"} => step'[r] = "store" /\ made'[r] = made[r]
    <3>1. CASE Begin(r)
      BY <1>0, <3>1 DEF Begin, Go, githubVars, bounds
    <3>2. CASE Block(r)
      BY <1>0, <3>2 DEF Block, Go, bounds
    <3>3. CASE Start(r)
      BY <1>0, <3>3 DEF Start, Go, githubVars, bounds
    <3>4. CASE Answer(r)
      BY <1>0, <3>4 DEF Answer, githubVars, bounds
    <3>5. CASE Publish(r)
      BY <1>0, <3>5 DEF Publish, Go, githubVars, bounds
    <3>6. CASE PostComment(r)
      BY <1>0, <3>6 DEF PostComment, Go, bounds
    <3>7. CASE FinishCheck(r)
      BY <1>0, <3>7 DEF FinishCheck, Go, bounds
    <3> QED BY <1>4, <3>1, <3>2, <3>3, <3>4, <3>5, <3>6, <3>7
  <2> QED BY <1>0, <1>2, <2>1
<1>5. ASSUME NEW r \in Reviews, PostInline(r), faults' = faults
      PROVE  BackedInv'
  <2>1. Backed(r)'
    BY <1>0, <1>5, InlinePosted
  <2>2. /\ UNCHANGED <<rows, made>> /\ step' = [step EXCEPT ![r] = "check"]
        /\ \A q \in Reviews \ {r} : inline'[q] = inline[q]
    BY <1>0, <1>5 DEF PostInline, Go
  <2>3. \A q \in Reviews \ {r} : Backed(q)'
    BY <1>0, <1>5, <2>2, BackedAside
  <2> QED BY <2>1, <2>3 DEF BackedInv
<1>6. ASSUME NEW r \in Reviews, Store(r)
      PROVE  BackedInv'
  <2>1. Backed(r)'
    BY <1>0, <1>6, InlineStored
  <2>2. /\ UNCHANGED <<faults, inline>>
        /\ \A q \in Reviews \ {r} : step'[q] = step[q] /\ made'[q] = made[q] /\ rows'[q] = rows[q]
    BY <1>0, <1>6 DEF Store, Go, githubVars, bounds
  <2>3. \A q \in Reviews \ {r} : Backed(q)'
    BY <1>0, <2>2, BackedAside
  <2> QED BY <2>1, <2>3 DEF BackedInv
<1>7. ASSUME NEW r \in Reviews, Triage(r)
      PROVE  BackedInv'
  <2>1. PICK state \in {"open", "dismissed"} :
           \E S : rows' = [rows EXCEPT ![r] = WithState(rows[r], S, state)]
    BY <1>7 DEF Triage, FindingAction, BulkFindingAction, Apply
  <2>2. PICK S : rows' = [rows EXCEPT ![r] = WithState(rows[r], S, state)]
    BY <2>1
  <2>3. UNCHANGED <<faults, workerVars, githubVars>>
    BY <1>7 DEF Triage, FindingAction, BulkFindingAction
  <2>4. rows'[r] = WithState(rows[r], S, state) /\ \A q \in Reviews \ {r} : rows'[q] = rows[q]
    BY <1>0, <2>2
  <2>5. Backed(r)'
    BY <1>0, <2>3, <2>4, TriageBacks
  <2>6. \A q \in Reviews \ {r} : Backed(q)'
    BY <1>0, <2>3, <2>4, BackedAside DEF workerVars, githubVars
  <2> QED BY <2>5, <2>6 DEF BackedInv
<1>8. ASSUME NEW r \in Reviews, Fail(r) \/ (PostInline(r) /\ faults' # faults)
      PROVE  BackedInv'
  <2>1. faults' = faults + 1 /\ faults \in Nat
    BY <1>8, PullRequestAssumption DEF Fail, PostInline, ShownInv
  <2> QED BY <1>1, <2>1
<1>9. UNCHANGED vars \/ ResetBudget \/ (\E limit \in Limits : SetBudget(limit))
         => UNCHANGED <<faults, inline, rows, step, made>>
  BY DEF vars, ResetBudget, SetBudget, workerVars, githubVars
<1> QED BY <1>2, <1>3, <1>4, <1>5, <1>6, <1>7, <1>8, <1>9 DEF Next, Quiet

\* Inline comments are backed at all times.
THEOREM BackedAtAllTimes == Spec => []BackedInv
<1>1. Init => BackedInv
  <2> SUFFICES ASSUME Init, NEW r \in Reviews PROVE Backed(r)
    BY DEF BackedInv
  <2>1. inline[r] = <<>> /\ DOMAIN <<>> = {}
    BY DEF Init
  <2> QED BY <2>1 DEF Backed
<1>2. RowsInv /\ PoolInv /\ MadeInv /\ StockInv /\ ShownInv /\ InlineInv /\ BackedInv /\ [Next]_vars => BackedInv'
  BY BackedStep
<1>3. Spec => []RowsInv /\ []PoolInv /\ []MadeInv /\ []StockInv /\ []ShownInv /\ []InlineInv
  BY MemoryIsRight, PoolIsInOrder, MadeInOrder, StockIsInOrder, ShownIsInOrder, InlineInOrder, PTL
<1> QED BY <1>1, <1>2, <1>3, PTL DEF Spec

\* A finding with the fingerprint p is stored with a review of S.
Recorded(rs, p, S) ==
    \E q \in S : \E j \in DOMAIN rs[q].findings : Fingerprint(rs[q].findings[j]) = p

\* What is remembered is stored somewhere, and what came back dismissed is stored with
\* another review too.
RecordInv ==
    /\ \A p \in memory : Recorded(rows, p, Reviews)
    /\ \A r \in Reviews : \A i \in DOMAIN rows[r].findings :
          rows[r].findings[i].auto => Recorded(rows, Fingerprint(rows[r].findings[i]), Reviews \ {r})

\* A step that keeps the fingerprints of what is stored.
SameRecords ==
    \A q \in Reviews : \A j \in DOMAIN rows[q].findings :
        j \in DOMAIN rows'[q].findings
          /\ Fingerprint(rows'[q].findings[j]) = Fingerprint(rows[q].findings[j])

\* In such a step what was recorded stays recorded.
LEMMA RecordedKept ==
    ASSUME SameRecords, NEW S \in SUBSET Reviews, NEW p, Recorded(rows, p, S)
    PROVE  Recorded(rows', p, S)
  BY DEF SameRecords, Recorded

\* Where no findings change, nothing is recorded anew.
LEMMA RecordQuiet ==
    ASSUME RecordInv, Quiescent, memory' = memory
    PROVE  RecordInv'
<1>1. SameRecords
  BY DEF SameRecords, Quiescent
<1>2. \A p \in memory' : Recorded(rows', p, Reviews)
  BY <1>1, RecordedKept DEF RecordInv
<1>3. ASSUME NEW r \in Reviews, NEW i \in DOMAIN rows'[r].findings, rows'[r].findings[i].auto
      PROVE  Recorded(rows', Fingerprint(rows'[r].findings[i]), Reviews \ {r})
  <2>1. PICK p : p = Fingerprint(rows'[r].findings[i])
    OBVIOUS
  <2>2. Recorded(rows, p, Reviews \ {r})
    BY <1>3, <2>1 DEF RecordInv, Quiescent
  <2>3. Recorded(rows', p, Reviews \ {r})
    BY <1>1, <2>2, RecordedKept
  <2> QED BY <2>1, <2>3
<1> QED BY <1>2, <1>3 DEF RecordInv

\* What a completed review adds comes back dismissed only if it is remembered.
LEMMA RecordStore ==
    ASSUME RowsInv, RecordInv, NEW r \in Reviews, Store(r)
    PROVE  RecordInv'
<1>0. PICK fs : fs = made[r].summed.findings
  OBVIOUS
<1> DEFINE gs == [i \in DOMAIN fs |-> Stored(fs[i], memory)]
<1>1. /\ step[r] = "store" /\ memory' = memory
      /\ rows' = [rows EXCEPT ![r] = Completed(rows[r], fs, made[r].digest, TotalCostUsd(made[r].executions),
                                               TotalTokens(made[r].executions), memory)]
  BY <1>0 DEF Store, Go
<1>2. rows'[r].findings = gs /\ \A q \in Reviews \ {r} : rows'[q] = rows[q]
  BY <1>1 DEF Completed, RowsInv
<1>3. rows[r].findings = <<>> /\ DOMAIN <<>> = {}
  BY <1>1 DEF RowsInv
<1>4. SameRecords
  BY <1>2, <1>3 DEF SameRecords
<1>5. \A p \in memory : Recorded(rows, p, Reviews \ {r})
  BY <1>3 DEF RecordInv, Recorded
<1>6. \A p \in memory' : Recorded(rows', p, Reviews)
  BY <1>1, <1>4, RecordedKept DEF RecordInv
<1>7. ASSUME NEW i \in DOMAIN gs, gs[i].auto
      PROVE  Fingerprint(gs[i]) \in memory
  <2> DEFINE f == fs[i]
  <2>1. Stored(f, memory).auto <=> Fingerprint(f) \in memory
    BY DEF Stored
  <2>2. Fingerprint(Stored(f, memory)) = Fingerprint(f)
    BY StoredFacts
  <2>3. gs[i] = Stored(f, memory)
    OBVIOUS
  <2> HIDE DEF f, gs
  <2> QED BY <1>7, <2>1, <2>2, <2>3
<1> HIDE DEF gs
<1>8. ASSUME NEW q \in Reviews, NEW i \in DOMAIN rows'[q].findings, rows'[q].findings[i].auto
      PROVE  Recorded(rows', Fingerprint(rows'[q].findings[i]), Reviews \ {q})
  <2>1. PICK p : p = Fingerprint(rows'[q].findings[i])
    OBVIOUS
  <2>2. Recorded(rows, p, Reviews \ {q})
    <3>1. CASE q = r
      BY <1>2, <1>5, <1>7, <1>8, <2>1, <3>1
    <3>2. CASE q # r
      BY <1>2, <1>8, <2>1, <3>2 DEF RecordInv
    <3> QED BY <3>1, <3>2
  <2>3. Recorded(rows', p, Reviews \ {q})
    BY <1>4, <2>2, RecordedKept
  <2> QED BY <2>1, <2>3
<1> QED BY <1>6, <1>8 DEF RecordInv

\* What a reviewer is asked about is stored, and what he decides on is not dismissed by
\* memory any more.
LEMMA RecordTriage ==
    ASSUME RowsInv, RecordInv, NEW r \in Reviews, NEW state \in {"open", "dismissed"},
           NEW S \in SUBSET DOMAIN rows[r].findings, Apply(r, S, state)
    PROVE  RecordInv'
<1>0. PICK row, new : row = rows[r] /\ new = WithState(row, S, state)
  OBVIOUS
<1>1. /\ rows'[r] = new /\ \A q \in Reviews \ {r} : rows'[q] = rows[q]
      /\ memory' = Remember(memory, row, S, state)
  BY <1>0 DEF Apply, RowsInv
<1>2. IsRow(row) /\ \A i \in DOMAIN row.findings : IsStored(row.findings[i])
  BY <1>0 DEF RowsInv
<1>3. /\ DOMAIN new.findings = DOMAIN row.findings
      /\ \A i \in DOMAIN row.findings : Fingerprint(new.findings[i]) = Fingerprint(row.findings[i])
  BY <1>0, <1>2, WithStateFacts
<1>4. \A i \in DOMAIN row.findings : new.findings[i].auto => row.findings[i].auto
  <2> DEFINE old == row.findings
             Changed(i) == IF i \in S THEN [old[i] EXCEPT !.state = state, !.auto = FALSE] ELSE old[i]
             gs == [i \in DOMAIN old |-> Changed(i)]
  <2>1. new = [row EXCEPT !.findings = gs]
    BY <1>0 DEF WithState
  <2> HIDE DEF gs
  <2>2. new.findings = gs
    BY <1>2, <2>1 DEF IsRow
  <2>3. ASSUME NEW i \in DOMAIN old, gs[i].auto PROVE old[i].auto
    <3> DEFINE f == old[i]
               g == [f EXCEPT !.state = state, !.auto = FALSE]
    <3>1. gs[i] = IF i \in S THEN g ELSE f
      BY DEF gs
    <3>2. IsStored(f)
      BY <1>2
    <3> HIDE DEF f
    <3>3. g.auto = FALSE
      BY <3>2 DEF IsStored
    <3> HIDE DEF g
    <3>4. gs[i] = f
      BY <2>3, <3>1, <3>3
    <3> QED BY <2>3, <3>4 DEF f
  <2> QED BY <2>2, <2>3
<1>5. SameRecords
  BY <1>0, <1>1, <1>3 DEF SameRecords
<1>6. ASSUME NEW p \in memory' PROVE Recorded(rows, p, Reviews)
  <2>1. CASE p \in memory
    BY <2>1 DEF RecordInv
  <2>2. CASE p \notin memory
    <3>1. p \in Prints(row, S)
      BY <1>1, <1>6, <2>2 DEF Remember
    <3>2. \E i \in DOMAIN row.findings : Fingerprint(row.findings[i]) = p
      BY <1>0, <3>1 DEF Prints
    <3> QED BY <1>0, <3>2 DEF Recorded
  <2> QED BY <2>1, <2>2
<1>7. \A p \in memory' : Recorded(rows', p, Reviews)
  BY <1>5, <1>6, RecordedKept
<1>8. ASSUME NEW q \in Reviews, NEW i \in DOMAIN rows'[q].findings, rows'[q].findings[i].auto
      PROVE  Recorded(rows', Fingerprint(rows'[q].findings[i]), Reviews \ {q})
  <2>1. PICK p : p = Fingerprint(rows'[q].findings[i])
    OBVIOUS
  <2>2. i \in DOMAIN rows[q].findings /\ rows[q].findings[i].auto /\ p = Fingerprint(rows[q].findings[i])
    <3>1. CASE q = r
      BY <1>0, <1>1, <1>3, <1>4, <1>8, <2>1, <3>1
    <3>2. CASE q # r
      BY <1>1, <1>8, <2>1, <3>2
    <3> QED BY <3>1, <3>2
  <2>3. Recorded(rows, p, Reviews \ {q})
    BY <2>2 DEF RecordInv
  <2>4. Recorded(rows', p, Reviews \ {q})
    BY <1>5, <2>3, RecordedKept
  <2> QED BY <2>1, <2>4
<1> QED BY <1>7, <1>8 DEF RecordInv

\* Every step keeps memory and store on record.
LEMMA RecordStep ==
    ASSUME RowsInv, RecordInv, [Next]_vars
    PROVE  RecordInv'
<1>1. CASE Push
  BY <1>1, PushStep, RecordQuiet
<1>2. ASSUME NEW r \in Reviews, Begin(r) \/ Block(r) \/ Fail(r)
      PROVE  RecordInv'
  <2>1. PICK c \in {"running", "failed"} : rows' = [rows EXCEPT ![r].status = c]
    BY <1>2 DEF Begin, Block, Fail
  <2>2. memory' = memory
    BY <1>2 DEF Begin, Block, Fail
  <2>3. Quiescent
    BY <2>1, StatusOnly DEF Quiescent
  <2> QED BY <2>2, <2>3, RecordQuiet
<1>3. ASSUME UNCHANGED <<rows, memory>> PROVE RecordInv'
  BY <1>3, RecordQuiet DEF Quiescent
<1>4. ASSUME NEW r \in Reviews, Triage(r)
      PROVE  RecordInv'
  <2>1. PICK state \in {"open", "dismissed"} : \E S \in SUBSET DOMAIN rows[r].findings : Apply(r, S, state)
    BY <1>4 DEF Triage, FindingAction, BulkFindingAction, BulkTargets
  <2>2. PICK S \in SUBSET DOMAIN rows[r].findings : Apply(r, S, state)
    BY <2>1
  <2> QED BY <2>2, RecordTriage
<1>5. \/ UNCHANGED <<rows, memory>> \/ Push
      \/ \E r \in Reviews : Begin(r) \/ Block(r) \/ Fail(r) \/ Store(r) \/ Triage(r)
  BY DEF Next, vars, Quiet, Start, Answer, Publish, PostComment, PostInline, FinishCheck, ResetBudget, SetBudget
<1> QED BY <1>1, <1>2, <1>3, <1>4, <1>5, RecordStore

\* Memory and store are on record at all times.
THEOREM RecordsAgree == Spec => []RecordInv
<1>1. Init => RecordInv
  <2> SUFFICES ASSUME Init PROVE RecordInv
    OBVIOUS
  <2>1. memory = {} /\ rows = [r \in Reviews |-> NoRow] /\ NoRow.findings = <<>> /\ DOMAIN <<>> = {}
    BY DEF Init, NoRow
  <2> QED BY <2>1 DEF RecordInv
<1>2. RowsInv /\ RecordInv /\ [Next]_vars => RecordInv'
  BY RecordStep
<1>3. Spec => []RowsInv
  BY MemoryIsRight, PTL
<1> QED BY <1>1, <1>2, <1>3, PTL DEF Spec

\* A review that is about to be posted is what a local run shows.
LEMMA LocalRunAgrees ==
    ASSUME PoolInv, StepsInv, ToldInv, NEW r \in Reviews, step[r] = "comment"
    PROVE  LocalAgrees(r)
<1> DEFINE results == pool[r].results
           files == Diff[seen[r]]
           c == cfg[r]
           m == made[r]
           local == LocalReport(results, files, c)
<1>1. IsExecutions(results) /\ m = Published(results, files, c)
  BY DEF ToldInv, AtComment
<1>2. IsSequence(files) /\ \A f \in ToSet(files) : IsFile(f)
  <2>1. seen[r] \in Reviews
    <3>1. seen[r] \in r .. head /\ head \in 0 .. Pushes /\ Pushes \in Nat /\ r \in 1 .. Pushes
      BY PullRequestAssumption DEF StepsInv, Working, Reviews
    <3> QED BY <3>1 DEF Reviews
  <2> QED BY <2>1, InputsAssumption
<1>3. IsConfig(c)
  <2>1. c \in Configs[r]
    BY DEF PoolInv
  <2> HIDE DEF c
  <2> QED BY <2>1, InputsAssumption
<1> HIDE DEF results, files, c, m, local
<1>4. /\ local.findings = m.summed.findings /\ local.totals = m.summed.totals
      /\ OneReport(local) /\ OneAddress(local, files) /\ SizesAgree(files, c)
  BY <1>1, <1>2, <1>3, LocalTold DEF local
<1> QED BY <1>4 DEF LocalAgrees, local, m, c, files, results

\* A finding that came back dismissed is in the baseline of another review.
LEMMA ElsewhereKnown ==
    ASSUME StockInv, RecordInv, NEW r \in Reviews
    PROVE  KnownElsewhere(r)
<1> DEFINE fs == rows[r].findings
<1>1. IsSequence(fs) /\ \A q \in Reviews : IsSequence(rows[q].findings)
  BY DEF StockInv
<1> SUFFICES ASSUME NEW f \in ToSet(fs), f.auto
             PROVE  \E q \in Reviews \ {r} : \E g \in BaselineDelta(fs, rows[q].findings).unchanged :
                       Fingerprint(g) = Fingerprint(f)
  BY DEF KnownElsewhere
<1>2. PICK i \in DOMAIN fs : f = fs[i]
  BY <1>1, SequenceFacts
<1>3. Recorded(rows, Fingerprint(f), Reviews \ {r})
  BY <1>2 DEF RecordInv
<1> HIDE DEF fs
<1>4. PICK q \in Reviews \ {r} : \E j \in DOMAIN rows[q].findings : Fingerprint(rows[q].findings[j]) = Fingerprint(f)
  BY <1>3 DEF Recorded
<1>5. PICK h \in ToSet(rows[q].findings) : Fingerprint(h) = Fingerprint(f)
  BY <1>1, <1>4, SequenceFacts
<1>6. \E g \in BaselineDelta(fs, rows[q].findings).unchanged : Fingerprint(g) = Fingerprint(f)
  BY <1>1, <1>5, BaselineKnows
<1> QED BY <1>4, <1>6

\* What is told of a completed review is what is stored.
LEMMA CompletedIsTold ==
    ASSUME StepsInv, RowsInv, StockInv, ToldInv, BackedInv, RecordInv,
           NEW r \in Reviews, rows[r].status = "completed"
    PROVE  CommentTells(r) /\ VerdictTells(r) /\ KnownElsewhere(r) /\ InlineTells(r) /\ ReadsTell(r)
<1>1. PICK fs : Keeps(rows[r], fs, cfg[r]) /\ Announced(r, fs)
  BY DEF ToldInv, AtRest
<1> DEFINE gs == rows[r].findings
<1>2. /\ IsFindings(fs) /\ Retold(gs, fs) /\ rows[r].digest = DigestOf(fs)
      /\ \A i \in DOMAIN fs : Passes(fs[i], cfg[r].floor, cfg[r].threshold)
  BY <1>1 DEF Keeps
<1>3. CommentTells(r)
  <2> SUFFICES ASSUME comment.review = r PROVE TellsOf(comment.body, gs, rows[r].digest)
    BY DEF CommentTells, TellsOf
  <2>1. comment.body = PrComment(Summed(fs), DigestOf(fs))
    BY <1>1 DEF Announced
  <2> HIDE DEF gs
  <2>2. TellsOf(comment.body, gs, DigestOf(fs))
    BY <1>2, <2>1, CommentTold
  <2> QED BY <1>2, <2>2
<1>4. VerdictTells(r)
  <2>1. verdict[r] = Conclusion(Totals(fs)) /\ Totals(gs) = Totals(fs)
    BY <1>1, <1>2, RetoldDigest DEF Announced
  <2> DEFINE totals == Totals(gs)
  <2>2. verdict[r] = Conclusion(totals)
    BY <2>1
  <2> HIDE DEF totals
  <2>3. verdict[r] \in {"failure", "action_required"} <=> ExitCode(totals, Nit + 1) # 0
    BY <2>2, CodesAgree
  <2> QED BY <2>2, <2>3 DEF VerdictTells, totals
<1>5. KnownElsewhere(r)
  BY ElsewhereKnown
<1>6. InlineTells(r)
  BY DEF InlineTells, BackedInv, Backed, RowsInv
<1>7. ReadsTell(r)
  <2> DEFINE floor == cfg[r].floor
             threshold == cfg[r].threshold
  <2>1. \A i \in DOMAIN fs : Passes(fs[i], floor, threshold)
    BY <1>2
  <2> HIDE DEF floor, threshold
  <2>2. /\ ~HasDrift(DigestDrift(DigestOf(fs), FindingDigest(gs, 0, Nit)))
        /\ FilterReport(gs, floor, threshold).droppedTotal = 0
        /\ Len(gs) = ReportTotals(gs).open + ReportTotals(gs).dismissed
        /\ Len(OpenOnes(gs)) = JUnitCounts(gs).tests
        /\ Len(OpenOnes(gs)) = Len(CsvRows(gs, FALSE))
        /\ JUnitCounts(gs).failures = ReportTotals(gs).totals[Critical] + ReportTotals(gs).totals[High]
    <3> HIDE DEF gs
    <3> QED BY <1>2, <2>1, ReadsTold
  <2>3. ListEntry(rows[r]).totalFindings = Len(gs) /\ ListEntry(rows[r]).openFindings = Len(OpenOnes(gs))
    BY DEF ListEntry
  <2> QED BY <1>2, <2>2, <2>3 DEF ReadsTell, floor, threshold, gs
<1> QED BY <1>3, <1>4, <1>5, <1>6, <1>7

\* The statistics of the week add up to the entries of the list.
LEMMA WeekAddsUp ==
    ASSUME RowsInv, StockInv
    PROVE  StatsAddUp
<1>1. /\ Pushes \in Nat /\ Reviews = 1 .. Pushes /\ rows = [r \in 1 .. Pushes |-> rows[r]]
      /\ DOMAIN rows = Reviews /\ \A r \in 1 .. Pushes : IsSequence(rows[r].findings)
  BY PullRequestAssumption DEF Reviews, RowsInv, StockInv
<1>2. /\ WeeklyStats(rows).totalFindings = Total(Lengths(rows))
      /\ WeeklyStats(rows).openFindings = Total(OpenLengths(rows))
  BY <1>1, StatsTold
<1>3. /\ Lengths(rows) = [r \in Reviews |-> ListEntry(rows[r]).totalFindings]
      /\ OpenLengths(rows) = [r \in Reviews |-> ListEntry(rows[r]).openFindings]
  BY <1>1 DEF Lengths, OpenLengths, ListEntry
<1> QED BY <1>2, <1>3 DEF StatsAddUp

\* Every place that tells of a review tells the same, for any findings, any configuration
\* and whatever reviewers dismiss: a local run beside the one that is about to be posted;
\* comment, verdict, inline comments, digest, list, exports and statistics once the review
\* is completed.
THEOREM PostedIsTold == Spec => []PostedAgrees
<1>1. RowsInv /\ PoolInv /\ StepsInv /\ StockInv /\ ToldInv /\ BackedInv /\ RecordInv => PostedAgrees
  BY LocalRunAgrees, CompletedIsTold, WeekAddsUp DEF PostedAgrees
<1>2. Spec => []RowsInv /\ []PoolInv /\ []StepsInv /\ []StockInv /\ []ToldInv /\ []BackedInv /\ []RecordInv
  BY MemoryIsRight, PoolIsInOrder, StepsAreInOrder, StockIsInOrder, ToldAtAllTimes, BackedAtAllTimes,
     RecordsAgree, PTL
<1> QED BY <1>1, <1>2, PTL
=============================================================================
