---------------------------- MODULE ScriptProofs ----------------------------
(***************************************************************************)
(* Proofs about the programs that are run by hand or by a schedule, for    *)
(* any number of clusters, zones, jobs, keys, nodes, chains and log        *)
(* entries: the clean-up commands, the exporter of the build jobs'         *)
(* metrics, the genesis ledger, and the drawings of a testnet, whose trie  *)
(* stays a tree and whose graphs are those of the inputs.                  *)
(***************************************************************************)
EXTENDS NetworkUtilities, BuildkiteExporter, GenesisLedger, TestnetDrawings,
        FiniteSetTheorems, NumberLemmas, TLAPS

-----------------------------------------------------------------------------
(* The namespaces of the clusters. *)

PatternIds == 1..Len(namespace_pattern)

\* The i-th namespace of a cluster matches the pattern, and is old.
IsTarget(ages, i, q) ==
  ages[i] # Gone /\ ages[i] >= cleanup_older_than /\ Matches(q, Namespace[i])

\* Made again since the listing at hand.
Renewed(i) == <<current, i, ctx_i>> \in recreated

\* What the loops over a context have come past is no target any more.
Swept(q, i) ==
  \A r \in PatternIds : \A j \in NamespaceIds :
    r < q \/ (r = q /\ j < i) => ~IsTarget(age[current], j, r) \/ Renewed(j)

\* Of a context that has been dealt with nothing is left but what was made since.
Cleaned(k) ==
  \A i \in Targets(k8s_context[k]) :
    \E m \in k..Len(k8s_context) : <<k8s_context[k], i, m>> \in recreated

InLoops == janitor_pc \in {"namespaces", "delete ns"}

\* As long as nobody switches kubectl it is at the context of the listing, which
\* is still right but for what has gone or been made again.
LoopsInv ==
  /\ current = k8s_context[ctx_i] /\ Swept(pattern_i, ns_i)
  /\ \A i \in NamespaceIds : age[current][i] = listing[i] \/ age[current][i] = Gone \/ Renewed(i)

JanitorInv ==
  /\ age \in [Cluster -> [NamespaceIds -> 0..Gone]] /\ current \in Cluster
  /\ ctx_i \in 0..Len(k8s_context)
  /\ \A k \in 1..Len(k8s_context) :
       /\ k < ctx_i \/ (k = ctx_i /\ janitor_pc \in {"context", "done"})
       /\ k \notin switched
       => Cleaned(k)
  /\ InLoops => /\ ctx_i >= 1 /\ ns_i \in NamespaceIds /\ pattern_i \in PatternIds
                /\ ctx_i \notin switched => LoopsInv
  /\ janitor_pc = "delete ns" => Cleans(ns_i, pattern_i)
  /\ janitor_pc = "done" => ctx_i = Len(k8s_context)
  /\ NoneIsHalfDeleted

\* The sequences of the options, and Gone.
LEMMA JanitorConstants ==
  /\ Len(k8s_context) \in Nat /\ Len(Namespace) \in Nat /\ Len(namespace_pattern) \in Nat
  /\ DOMAIN namespace_pattern = PatternIds /\ DOMAIN k8s_context = 1..Len(k8s_context)
  /\ Gone \in Nat /\ cleanup_older_than \in Nat
  /\ \A k \in 1..Len(k8s_context) : k8s_context[k] \in Cluster
  /\ Namespace # <<>> /\ namespace_pattern # <<>> => 1 \in NamespaceIds /\ 1 \in PatternIds
  /\ Namespace = <<>> \/ namespace_pattern = <<>> => NamespaceIds = {} \/ PatternIds = {}
BY NamespaceJanitorAssumption DEF PatternIds, NamespaceIds, Gone

\* Deletions leave a context that has been dealt with as clean as it is.
LEMMA CleanedStays ==
  ASSUME NEW k \in 1..Len(k8s_context), Cleaned(k), recreated \subseteq recreated',
         \A i \in NamespaceIds : \/ age'[k8s_context[k]][i] = age[k8s_context[k]][i]
                                 \/ age'[k8s_context[k]][i] = Gone
  PROVE  Cleaned(k)'
<1> SUFFICES ASSUME NEW i \in Targets(k8s_context[k])'
             PROVE  \E m \in k..Len(k8s_context) : <<k8s_context[k], i, m>> \in recreated'
  BY DEF Cleaned
<1>1. i \in Targets(k8s_context[k])
  BY DEF Targets
<1> QED
  BY <1>1 DEF Cleaned

\* The loops go on by a namespace that is no target (any more).
LEMMA AdvancesKeeps ==
  ASSUME JanitorInv, InLoops, Advances,
         UNCHANGED <<current, ctx_i, listing, recreated, switched>>,
         age' \in [Cluster -> [NamespaceIds -> 0..Gone]],
         \A ctx \in Cluster : \A i \in NamespaceIds : age'[ctx][i] = age[ctx][i] \/ age'[ctx][i] = Gone,
         ctx_i \notin switched => ~IsTarget(age'[current], ns_i, pattern_i) \/ Renewed(ns_i),
         switched = {} => emptied' = {}
  PROVE  JanitorInv'
<1>1. /\ ctx_i \in 1..Len(k8s_context) /\ current \in Cluster
      /\ ns_i \in NamespaceIds /\ pattern_i \in PatternIds
  <2>1. /\ ctx_i \in 0..Len(k8s_context) /\ ctx_i >= 1 /\ current \in Cluster
        /\ ns_i \in NamespaceIds /\ pattern_i \in PatternIds
    BY DEF JanitorInv
  <2>2. Len(k8s_context) \in Nat
    BY JanitorConstants
  <2> QED
    BY <2>1, <2>2
<1>2. /\ Len(k8s_context) \in Nat /\ Len(Namespace) \in Nat /\ Len(namespace_pattern) \in Nat
      /\ \A k \in 1..Len(k8s_context) : k8s_context[k] \in Cluster
  BY JanitorConstants
<1>3. \A j \in NamespaceIds : \A r \in PatternIds :
        IsTarget(age'[current], j, r) => IsTarget(age[current], j, r)
  BY <1>1 DEF IsTarget
<1>4. ctx_i \notin switched =>
        /\ current = k8s_context[ctx_i]
        /\ \A r \in PatternIds : \A j \in NamespaceIds :
             r < pattern_i \/ (r = pattern_i /\ j <= ns_i) => ~IsTarget(age'[current], j, r) \/ Renewed(j)
        /\ \A i \in NamespaceIds :
             age'[current][i] = listing[i] \/ age'[current][i] = Gone \/ Renewed(i)
  <2> SUFFICES ASSUME ctx_i \notin switched
               PROVE  /\ current = k8s_context[ctx_i]
                      /\ \A r \in PatternIds : \A j \in NamespaceIds :
                           r < pattern_i \/ (r = pattern_i /\ j <= ns_i)
                           => ~IsTarget(age'[current], j, r) \/ Renewed(j)
                      /\ \A i \in NamespaceIds :
                           age'[current][i] = listing[i] \/ age'[current][i] = Gone \/ Renewed(i)
    OBVIOUS
  <2>1. LoopsInv
    BY DEF JanitorInv
  <2>2. \A r \in PatternIds : \A j \in NamespaceIds :
          r < pattern_i \/ (r = pattern_i /\ j <= ns_i)
          => ~IsTarget(age'[current], j, r) \/ Renewed(j)
    BY <1>1, <1>3, <2>1 DEF LoopsInv, Swept, NamespaceIds
  <2>3. \A i \in NamespaceIds :
          age'[current][i] = listing[i] \/ age'[current][i] = Gone \/ Renewed(i)
    BY <1>1, <2>1 DEF LoopsInv
  <2> QED
    BY <2>1, <2>2, <2>3 DEF LoopsInv
<1>5. \A k \in 1..Len(k8s_context) : k < ctx_i /\ k \notin switched => Cleaned(k)'
  BY <1>2, CleanedStays DEF JanitorInv
<1>6. NoneIsHalfDeleted'
  BY DEF NoneIsHalfDeleted
<1>7. CASE ns_i < Len(Namespace)
  <2>1. ns_i' = ns_i + 1 /\ pattern_i' = pattern_i /\ janitor_pc' = "namespaces"
    BY <1>7 DEF Advances
  <2>2. /\ ns_i' \in NamespaceIds /\ pattern_i' \in PatternIds
        /\ \A j \in NamespaceIds : j < ns_i' => j <= ns_i
    BY <1>1, <1>2, <1>7, <2>1 DEF NamespaceIds, PatternIds
  <2>3. ctx_i \notin switched => LoopsInv'
    BY <1>4, <2>1, <2>2 DEF LoopsInv, Swept, Renewed
  <2> QED
    BY <1>1, <1>5, <1>6, <2>1, <2>2, <2>3 DEF JanitorInv, InLoops
<1>8. CASE ~(ns_i < Len(Namespace)) /\ pattern_i < Len(namespace_pattern)
  <2>1. ns_i' = 1 /\ pattern_i' = pattern_i + 1 /\ janitor_pc' = "namespaces"
    BY <1>8 DEF Advances
  <2>2. /\ \A j \in NamespaceIds : j <= ns_i /\ ~(j < ns_i')
        /\ \A r \in PatternIds : r < pattern_i' => r < pattern_i \/ r = pattern_i
        /\ ns_i' \in NamespaceIds /\ pattern_i' \in PatternIds
    BY <1>1, <1>2, <1>8, <2>1 DEF NamespaceIds, PatternIds
  <2>3. ctx_i \notin switched => LoopsInv'
    BY <1>4, <2>1, <2>2 DEF LoopsInv, Swept, Renewed
  <2> QED
    BY <1>1, <1>5, <1>6, <2>1, <2>2, <2>3 DEF JanitorInv, InLoops
<1>9. CASE ~(ns_i < Len(Namespace)) /\ ~(pattern_i < Len(namespace_pattern))
  <2>1. janitor_pc' = "context"
    BY <1>9 DEF Advances
  <2>2. ctx_i \notin switched => Cleaned(ctx_i)'
    <3> SUFFICES ASSUME ctx_i \notin switched, NEW i \in Targets(k8s_context[ctx_i])'
                 PROVE  \E m \in ctx_i..Len(k8s_context) : <<k8s_context[ctx_i], i, m>> \in recreated'
      BY DEF Cleaned
    <3>1. i \in NamespaceIds /\ current = k8s_context[ctx_i]
      BY <1>4 DEF Targets
    <3>2. PICK r \in PatternIds : IsTarget(age'[current], i, r)
      BY <3>1, JanitorConstants DEF Targets, IsTarget
    <3>3. r < pattern_i \/ (r = pattern_i /\ i <= ns_i)
      BY <1>1, <1>2, <1>9, <3>1 DEF NamespaceIds, PatternIds
    <3>4. Renewed(i)
      BY <1>4, <3>1, <3>2, <3>3
    <3>5. <<current, i, ctx_i>> \in recreated' /\ ctx_i \in ctx_i..Len(k8s_context)
      BY <1>1, <1>2, <3>4 DEF Renewed
    <3> QED
      BY <3>1, <3>5
  <2> QED
    BY <1>1, <1>5, <1>6, <2>1, <2>2 DEF JanitorInv, InLoops
<1> QED
  BY <1>7, <1>8, <1>9

\* What a command that is not led away does to a namespace, it does to a target
\* or to one that was made again.
LEMMA CleansTargets ==
  ASSUME JanitorInv, InLoops, Cleans(ns_i, pattern_i), ctx_i \notin switched,
         age[current][ns_i] # Gone
  PROVE  /\ current = k8s_context[ctx_i] /\ ns_i \in NamespaceIds
         /\ ns_i \in Targets(current) \/ Renewed(ns_i)
<1>1. LoopsInv /\ ns_i \in NamespaceIds /\ pattern_i \in PatternIds
  BY DEF JanitorInv
<1> QED
  BY <1>1, JanitorConstants DEF LoopsInv, Cleans, Targets

\* A step of the command, or a namespace made by others, keeps what is known of
\* the clusters, and no namespace suffers that should not.
LEMMA JanitorStep ==
  ASSUME JanitorInv, JanitorNext, UNCHANGED switched
  PROVE  JanitorInv' /\ OnlyTargetsSuffer
<1>1. CASE use_context
  <2>1. /\ janitor_pc = "context" /\ ctx_i \in 0..Len(k8s_context) /\ ctx_i < Len(k8s_context)
        /\ ctx_i' = ctx_i + 1 /\ pattern_i' = 1 /\ ns_i' = 1
        /\ current' = k8s_context[ctx_i + 1] /\ listing' = age[k8s_context[ctx_i + 1]]
        /\ UNCHANGED <<age, emptied, recreated, switched>> /\ EntersLoops
    BY <1>1 DEF use_context, use_cluster, JanitorInv
  <2>2. /\ ctx_i' \in 0..Len(k8s_context) /\ ctx_i' >= 1 /\ current' \in Cluster
        /\ current' = k8s_context[ctx_i'] /\ listing' = age'[current']
    BY <2>1, JanitorConstants
  <2>3. \A k \in 1..Len(k8s_context) : k < ctx_i' /\ k \notin switched' => Cleaned(k)'
    <3>1. \A k : Cleaned(k)' = Cleaned(k)
      BY <2>1 DEF Cleaned, Targets
    <3>2. \A k \in 1..Len(k8s_context) : k < ctx_i' => k < ctx_i \/ k = ctx_i
      BY <2>1, JanitorConstants
    <3> QED
      BY <2>1, <3>1, <3>2 DEF JanitorInv
  <2>4. switched = {} => emptied = {}
    BY <2>1 DEF JanitorInv, NoneIsHalfDeleted
  <2>5. NoneIsHalfDeleted' /\ OnlyTargetsSuffer
    BY <2>1, <2>4 DEF NoneIsHalfDeleted, OnlyTargetsSuffer, Suffers
  <2>6. CASE Namespace = <<>> \/ namespace_pattern = <<>>
    <3>1. janitor_pc' = "context"
      BY <2>1, <2>6 DEF EntersLoops
    <3>2. \A k \in 1..Len(k8s_context) : Cleaned(k)'
      BY <2>6, JanitorConstants DEF Cleaned, Targets
    <3> QED
      BY <2>1, <2>2, <2>5, <3>1, <3>2 DEF JanitorInv, InLoops
  <2>7. CASE ~(Namespace = <<>> \/ namespace_pattern = <<>>)
    <3>1. janitor_pc' = "namespaces"
      BY <2>1, <2>7 DEF EntersLoops
    <3>2. ns_i' \in NamespaceIds /\ pattern_i' \in PatternIds
      BY <2>1, <2>7, JanitorConstants
    <3>3. Swept(pattern_i, ns_i)'
      BY <2>1 DEF Swept, NamespaceIds, PatternIds
    <3>4. LoopsInv'
      BY <2>2, <3>3 DEF LoopsInv
    <3> QED
      BY <2>1, <2>2, <2>3, <2>5, <3>1, <3>2, <3>4 DEF JanitorInv, InLoops
  <2> QED
    BY <2>5, <2>6, <2>7
<1>2. CASE finish
  <2>1. /\ janitor_pc = "context" /\ ctx_i = Len(k8s_context) /\ janitor_pc' = "done"
        /\ UNCHANGED <<age, current, ctx_i, pattern_i, ns_i, listing, emptied, recreated, switched>>
    BY <1>2 DEF finish
  <2>2. \A k : Cleaned(k)' = Cleaned(k)
    BY <2>1 DEF Cleaned, Targets
  <2>3. switched = {} => emptied = {}
    BY <2>1 DEF JanitorInv, NoneIsHalfDeleted
  <2>4. NoneIsHalfDeleted' /\ OnlyTargetsSuffer
    BY <2>1, <2>3 DEF NoneIsHalfDeleted, OnlyTargetsSuffer, Suffers
  <2> QED
    BY <2>1, <2>2, <2>4 DEF JanitorInv, InLoops
<1>3. CASE skip
  <2>1. /\ janitor_pc = "namespaces" /\ ~Cleans(ns_i, pattern_i) /\ Advances
        /\ UNCHANGED <<age, current, ctx_i, listing, emptied, recreated, switched>>
    BY <1>3 DEF skip
  <2>2. InLoops /\ (switched = {} => emptied' = {})
    BY <2>1 DEF InLoops, JanitorInv, NoneIsHalfDeleted
  <2>3. ctx_i \notin switched => ~IsTarget(age'[current], ns_i, pattern_i) \/ Renewed(ns_i)
    BY <2>1, <2>2 DEF JanitorInv, LoopsInv, Cleans, IsTarget
  <2>4. /\ age' \in [Cluster -> [NamespaceIds -> 0..Gone]]
        /\ \A ctx \in Cluster : \A i \in NamespaceIds : age'[ctx][i] = age[ctx][i] \/ age'[ctx][i] = Gone
    BY <2>1 DEF JanitorInv
  <2>5. OnlyTargetsSuffer
    BY <2>1 DEF OnlyTargetsSuffer, Suffers
  <2> QED
    BY <2>1, <2>2, <2>3, <2>4, <2>5, AdvancesKeeps
<1>4. CASE delete_all
  <2>1. /\ janitor_pc = "namespaces" /\ Cleans(ns_i, pattern_i) /\ janitor_pc' = "delete ns"
        /\ emptied' = emptied \cup {e \in {<<current, ns_i>>} : age[current][ns_i] # Gone}
        /\ UNCHANGED <<age, current, ctx_i, pattern_i, ns_i, listing, recreated, switched>>
    BY <1>4 DEF delete_all
  <2>2. InLoops /\ InLoops' /\ (switched = {} => emptied = {})
    BY <2>1 DEF InLoops, JanitorInv, NoneIsHalfDeleted
  <2>3. \A k : Cleaned(k)' = Cleaned(k)
    BY <2>1 DEF Cleaned, Targets
  <2>4. LoopsInv => LoopsInv'
    BY <2>1 DEF LoopsInv, Swept, Renewed
  <2>5. Cleans(ns_i, pattern_i)'
    BY <2>1 DEF Cleans
  <2>6. NoneIsHalfDeleted'
    BY <2>1, <2>2, CleansTargets DEF NoneIsHalfDeleted
  <2>7. OnlyTargetsSuffer
    <3> SUFFICES ASSUME ctx_i \notin switched, NEW ctx \in Cluster, NEW i \in NamespaceIds, Suffers(ctx, i)
                 PROVE  i \in Targets(ctx) \/ <<ctx, i, ctx_i>> \in recreated
      BY DEF OnlyTargetsSuffer
    <3>1. <<ctx, i>> \in emptied' \ emptied
      BY <2>1 DEF Suffers
    <3>2. ctx = current /\ i = ns_i /\ age[current][ns_i] # Gone
      BY <2>1, <3>1
    <3> QED
      BY <2>1, <2>2, <3>2, CleansTargets DEF Renewed
  <2>8. janitor_pc' = "delete ns" => ctx_i' >= 1 /\ ns_i' \in NamespaceIds /\ pattern_i' \in PatternIds
    BY <2>1, <2>2 DEF JanitorInv
  <2>9. ctx_i' \notin switched' => LoopsInv'
    BY <2>1, <2>2, <2>4 DEF JanitorInv
  <2>10. JanitorInv'
    BY <2>1, <2>2, <2>3, <2>5, <2>6, <2>8, <2>9 DEF JanitorInv
  <2> QED
    BY <2>7, <2>10
<1>5. CASE delete_ns
  <2>1. /\ janitor_pc = "delete ns" /\ age[current][ns_i] # Gone /\ Advances
        /\ age' = [age EXCEPT ![current][ns_i] = Gone]
        /\ emptied' = emptied \ {<<current, ns_i>>}
        /\ UNCHANGED <<current, ctx_i, listing, recreated, switched>>
    BY <1>5 DEF delete_ns
  <2>2. /\ age \in [Cluster -> [NamespaceIds -> 0..Gone]] /\ current \in Cluster /\ ns_i \in NamespaceIds
        /\ InLoops /\ Cleans(ns_i, pattern_i) /\ Gone \in 0..Gone
    <3>1. Gone \in 0..Gone
      BY JanitorConstants
    <3> QED
      BY <2>1, <3>1 DEF JanitorInv, InLoops
  <2>3. age' \in [Cluster -> [NamespaceIds -> 0..Gone]] /\ age'[current][ns_i] = Gone
    BY <2>1, <2>2
  <2>4. \A ctx \in Cluster : \A i \in NamespaceIds :
          age'[ctx][i] = age[ctx][i] \/ (ctx = current /\ i = ns_i /\ age'[ctx][i] = Gone)
    BY <2>1, <2>2
  <2>5. ~IsTarget(age'[current], ns_i, pattern_i)
    BY <2>3 DEF IsTarget
  <2>6. switched = {} => emptied' = {}
    <3>1. ctx_i \notin switched => current = k8s_context[ctx_i]
      BY <2>1, <2>2, CleansTargets
    <3> QED
      BY <2>1, <3>1 DEF JanitorInv, NoneIsHalfDeleted
  <2>7. OnlyTargetsSuffer
    <3> SUFFICES ASSUME ctx_i \notin switched, NEW ctx \in Cluster, NEW i \in NamespaceIds, Suffers(ctx, i)
                 PROVE  i \in Targets(ctx) \/ <<ctx, i, ctx_i>> \in recreated
      BY DEF OnlyTargetsSuffer
    <3>1. ctx = current /\ i = ns_i
      BY <2>1, <2>4 DEF Suffers
    <3> QED
      BY <2>1, <2>2, <3>1, CleansTargets DEF Renewed
  <2> QED
    BY <2>1, <2>2, <2>3, <2>4, <2>5, <2>6, <2>7, AdvancesKeeps
<1>6. CASE command_fails
  <2>1. /\ janitor_pc \in {"context", "namespaces", "delete ns"} /\ janitor_pc' = "aborted"
        /\ UNCHANGED <<age, current, ctx_i, pattern_i, ns_i, listing, emptied, recreated, switched>>
    BY <1>6 DEF command_fails
  <2>2. \A k : Cleaned(k)' = Cleaned(k)
    BY <2>1 DEF Cleaned, Targets
  <2>3. NoneIsHalfDeleted' /\ OnlyTargetsSuffer
    BY <2>1 DEF JanitorInv, NoneIsHalfDeleted, OnlyTargetsSuffer, Suffers
  <2> QED
    BY <2>1, <2>2, <2>3 DEF JanitorInv, InLoops
<1>7. CASE \E ctx \in Cluster, i \in NamespaceIds : Recreates(ctx, i)
  <2>1. PICK ctx \in Cluster, i \in NamespaceIds :
          /\ ctx_i > 0 /\ age' = [age EXCEPT ![ctx][i] = 0]
          /\ emptied' = emptied \ {<<ctx, i>>}
          /\ recreated' = recreated \cup {<<ctx, i, ctx_i>>}
          /\ UNCHANGED <<current, ctx_i, pattern_i, ns_i, listing, janitor_pc, switched>>
    BY <1>7 DEF Recreates
  <2>2. /\ age \in [Cluster -> [NamespaceIds -> 0..Gone]] /\ current \in Cluster
        /\ ctx_i \in 0..Len(k8s_context) /\ 0 \in 0..Gone /\ Gone # 0
    <3>1. 0 \in 0..Gone /\ Gone # 0
      BY NamespaceJanitorAssumption DEF Gone
    <3> QED
      BY <3>1 DEF JanitorInv
  <2>3. /\ age' \in [Cluster -> [NamespaceIds -> 0..Gone]] /\ age'[ctx][i] = 0
        /\ \A c \in Cluster : \A j \in NamespaceIds :
             age'[c][j] = age[c][j] \/ (c = ctx /\ j = i)
    BY <2>1, <2>2
  <2>4. ASSUME NEW k \in 1..Len(k8s_context), k <= ctx_i, Cleaned(k) PROVE Cleaned(k)'
    <3> SUFFICES ASSUME NEW j \in Targets(k8s_context[k])'
                 PROVE  \E m \in k..Len(k8s_context) : <<k8s_context[k], j, m>> \in recreated'
      BY DEF Cleaned
    <3>1. j \in NamespaceIds /\ k8s_context[k] \in Cluster
      BY JanitorConstants DEF Targets
    <3>2. CASE k8s_context[k] = ctx /\ j = i
      <4>1. ctx_i \in k..Len(k8s_context)
        BY <2>2, <2>4, JanitorConstants
      <4> QED
        BY <2>1, <3>2, <4>1
    <3>3. CASE ~(k8s_context[k] = ctx /\ j = i)
      <4>1. j \in Targets(k8s_context[k])
        BY <2>3, <3>1, <3>3 DEF Targets
      <4> QED
        BY <2>1, <2>4, <4>1 DEF Cleaned
    <3> QED
      BY <3>2, <3>3
  <2>5. LoopsInv => LoopsInv'
    <3> SUFFICES ASSUME LoopsInv PROVE LoopsInv'
      OBVIOUS
    <3>1. \A j \in NamespaceIds : (Renewed(j) => Renewed(j)') /\ (age'[current][j] = age[current][j] \/ Renewed(j)')
      BY <2>1, <2>2, <2>3 DEF Renewed
    <3>2. Swept(pattern_i, ns_i)'
      BY <2>1, <3>1 DEF LoopsInv, Swept, IsTarget
    <3> QED
      BY <2>1, <3>1, <3>2 DEF LoopsInv
  <2>6. NoneIsHalfDeleted'
    BY <2>1 DEF JanitorInv, NoneIsHalfDeleted
  <2>7. OnlyTargetsSuffer
    BY <2>1, <2>2, <2>3 DEF OnlyTargetsSuffer, Suffers
  <2>8. \A k \in 1..Len(k8s_context) :
          /\ k < ctx_i' \/ (k = ctx_i' /\ janitor_pc' \in {"context", "done"})
          /\ k \notin switched'
          => Cleaned(k)'
    <3> SUFFICES ASSUME NEW k \in 1..Len(k8s_context), k \notin switched,
                        k < ctx_i \/ (k = ctx_i /\ janitor_pc \in {"context", "done"})
                 PROVE  Cleaned(k)'
      BY <2>1
    <3>1. Cleaned(k)
      BY DEF JanitorInv
    <3>2. k <= ctx_i
      BY <2>2, JanitorConstants
    <3> QED
      BY <2>4, <3>1, <3>2
  <2>9. InLoops' => /\ ctx_i' >= 1 /\ ns_i' \in NamespaceIds /\ pattern_i' \in PatternIds
                    /\ ctx_i' \notin switched' => LoopsInv'
    BY <2>1, <2>5 DEF JanitorInv, InLoops
  <2>10. janitor_pc' = "delete ns" => Cleans(ns_i, pattern_i)'
    BY <2>1 DEF JanitorInv, Cleans
  <2> QED
    BY <2>1, <2>2, <2>3, <2>6, <2>7, <2>8, <2>9, <2>10 DEF JanitorInv
<1> QED
  BY <1>1, <1>2, <1>3, <1>4, <1>5, <1>6, <1>7 DEF JanitorNext

\* The other command, when it switches kubectl, is remembered.
LEMMA SwitchKept ==
  ASSUME JanitorInv, current' \in Cluster,
         switched' = switched \cup {k \in {ctx_i} : current' # current /\ janitor_pc \in {"namespaces", "delete ns"}},
         UNCHANGED <<age, ctx_i, pattern_i, ns_i, listing, janitor_pc, emptied, recreated>>
  PROVE  JanitorInv' /\ OnlyTargetsSuffer
<1>1. \A k : Cleaned(k)' = Cleaned(k)
  BY DEF Cleaned, Targets
<1>2. NoneIsHalfDeleted' /\ OnlyTargetsSuffer
  BY DEF JanitorInv, NoneIsHalfDeleted, OnlyTargetsSuffer, Suffers
<1>3. InLoops /\ ctx_i \notin switched' => ctx_i \notin switched /\ current' = current
  BY DEF InLoops
<1>4. current' = current /\ LoopsInv => LoopsInv'
  BY DEF LoopsInv, Swept, Renewed
<1>5. InLoops' => /\ ctx_i' >= 1 /\ ns_i' \in NamespaceIds /\ pattern_i' \in PatternIds
                  /\ ctx_i' \notin switched' => LoopsInv'
  BY <1>3, <1>4 DEF JanitorInv, InLoops
<1>6. janitor_pc' = "delete ns" => Cleans(ns_i, pattern_i)'
  BY DEF JanitorInv, Cleans
<1>7. switched \subseteq switched'
  OBVIOUS
<1> QED
  BY <1>1, <1>2, <1>5, <1>6, <1>7 DEF JanitorInv

-----------------------------------------------------------------------------
(* The port mappings. *)

\* Unless kubectl was switched during the scan, the ports collected are in use
\* and those in use and not collected were deployed since; the mappings of the
\* zone at hand have only grown since they were read.
PortInv ==
  /\ services \in [Cluster -> [ServiceNamespace -> SUBSET Port]] /\ mappings \in [Zone -> SUBSET Port]
  /\ toScan \subseteq ServiceNamespace /\ toPrune \subseteq Zone /\ zone \in Zone
  /\ port_pc = "context" => toScan = ServiceNamespace
  /\ ~astray => /\ port_pc = "scan" /\ toScan # {} => current = port_context
                /\ active_ports \subseteq InUse
                /\ \A ns \in ServiceNamespace \ toScan :
                     services[port_context][ns] \subseteq active_ports \cup since
  /\ port_pc = "set" =>
       /\ toScan = {} /\ existing_mappings \subseteq mappings[zone]
       /\ mappings[zone] \ existing_mappings \subseteq since

\* The mappings a step may drop.
PortsKept == astray \/ (OnlyUnusedGo /\ OnlyUsedAreLeft)

\* A step of the command, or a deployment, keeps this, and drops no mapping it should not.
LEMMA PortStep ==
  ASSUME PortInv, PortNext, UNCHANGED astray, current \in Cluster
  PROVE  PortInv' /\ PortsKept /\ current' \in Cluster
<1>0. port_context \in Cluster
  BY PortJanitorAssumption
<1>1. CASE get_services
  <2>1. PICK ns \in toScan : active_ports' = active_ports \cup services[current][ns] /\ toScan' = toScan \ {ns}
    BY <1>1 DEF get_services
  <2>2. UNCHANGED <<current, services, mappings, port_pc, toPrune, existing_mappings, zone, deploys, since>>
    BY <1>1 DEF get_services
  <2>3. port_pc = "scan" /\ toScan # {}
    BY <1>1 DEF get_services
  <2>4. InUse' = InUse
    BY <2>2 DEF InUse
  <2>5. ~astray => services[current][ns] \subseteq InUse /\ current = port_context
    BY <2>1, <2>3 DEF PortInv, InUse
  <2>6. PortInv'
    BY <2>1, <2>2, <2>3, <2>4, <2>5 DEF PortInv
  <2> QED
    BY <2>2, <2>3, <2>6 DEF PortsKept, OnlyUnusedGo, OnlyUsedAreLeft
<1>2. CASE get_mapped_ports
  <2>1. PICK z \in toPrune : /\ zone' = z /\ toPrune' = toPrune \ {z}
                             /\ existing_mappings' = mappings[z]
    BY <1>2 DEF get_mapped_ports
  <2>2. /\ UNCHANGED <<current, services, mappings, toScan, active_ports, deploys, since>>
        /\ port_pc = "scan" /\ toScan = {} /\ port_pc' = "set"
    BY <1>2 DEF get_mapped_ports
  <2>3. InUse' = InUse
    BY <2>2 DEF InUse
  <2> QED
    BY <2>1, <2>2, <2>3 DEF PortInv, PortsKept, OnlyUnusedGo, OnlyUsedAreLeft
<1>3. CASE set_port_mappings
  <2>1. /\ port_pc = "set" /\ port_pc' = "scan"
        /\ mappings' = [mappings EXCEPT ![zone] = existing_mappings \cap active_ports]
        /\ UNCHANGED <<current, services, toScan, toPrune, active_ports, existing_mappings, zone, deploys, since>>
    BY <1>3 DEF set_port_mappings
  <2>2. InUse' = InUse
    BY <2>1 DEF InUse
  <2>3. ~astray => InUse \subseteq active_ports \cup since /\ active_ports \subseteq InUse
    BY <2>1 DEF PortInv, InUse
  <2>4. /\ mappings'[zone] = existing_mappings \cap active_ports
        /\ \A z \in Zone : z # zone => mappings'[z] = mappings[z]
    BY <2>1 DEF PortInv
  <2>5. /\ existing_mappings \subseteq mappings[zone] /\ mappings[zone] \subseteq Port
        /\ mappings[zone] \ existing_mappings \subseteq since /\ toScan = {}
    BY <2>1 DEF PortInv
  <2>6. mappings' \in [Zone -> SUBSET Port]
    BY <2>1, <2>5 DEF PortInv
  <2>7. ~astray => OnlyUsedAreLeft
    BY <2>3, <2>4, <2>5 DEF OnlyUsedAreLeft
  <2>8. ~astray => OnlyUnusedGo
    BY <2>3, <2>4, <2>5 DEF OnlyUnusedGo
  <2> QED
    BY <2>1, <2>2, <2>5, <2>6, <2>7, <2>8 DEF PortInv, PortsKept
<1>4. CASE Deploys
  <2>1. PICK ns \in ServiceNamespace, z \in Zone, q \in Port :
          /\ services' = [services EXCEPT ![port_context][ns] = @ \cup {q}]
          /\ mappings' = [mappings EXCEPT ![z] = @ \cup {q}]
          /\ since' = IF port_pc = "context" THEN since ELSE since \cup {q}
    BY <1>4 DEF Deploys
  <2>2. UNCHANGED <<current, port_pc, toScan, toPrune, active_ports, existing_mappings, zone>>
    BY <1>4 DEF Deploys
  <2>3. /\ services' \in [Cluster -> [ServiceNamespace -> SUBSET Port]]
        /\ \A m \in ServiceNamespace :
             /\ services[port_context][m] \subseteq services'[port_context][m]
             /\ services'[port_context][m] \subseteq services[port_context][m] \cup {q}
    BY <1>0, <2>1 DEF PortInv
  <2>4. /\ mappings' \in [Zone -> SUBSET Port]
        /\ \A y \in Zone : mappings[y] \subseteq mappings'[y] /\ mappings'[y] \subseteq mappings[y] \cup {q}
    BY <2>1 DEF PortInv
  <2>5. InUse \subseteq InUse'
    BY <2>3 DEF InUse
  <2>6. OnlyUnusedGo /\ OnlyUsedAreLeft
    BY <2>2, <2>4 DEF OnlyUnusedGo, OnlyUsedAreLeft
  <2>7. ~astray => \A m \in ServiceNamespace \ toScan : services'[port_context][m] \subseteq active_ports \cup since'
    BY <2>1, <2>3 DEF PortInv
  <2>8. port_pc = "set" => /\ existing_mappings \subseteq mappings'[zone]
                           /\ mappings'[zone] \ existing_mappings \subseteq since'
    BY <2>1, <2>4 DEF PortInv
  <2> QED
    BY <2>2, <2>3, <2>4, <2>5, <2>6, <2>7, <2>8 DEF PortInv, PortsKept
<1>5. CASE use_port_context
  <2>1. /\ port_pc = "context" /\ port_pc' = "scan" /\ current' = port_context
        /\ UNCHANGED <<services, mappings, toScan, toPrune, active_ports, existing_mappings, zone, deploys, since>>
    BY <1>5 DEF use_port_context, use_cluster
  <2>2. InUse' = InUse
    BY <2>1 DEF InUse
  <2> QED
    BY <1>0, <2>1, <2>2 DEF PortInv, PortsKept, OnlyUnusedGo, OnlyUsedAreLeft
<1>6. CASE port_command_fails
  <2>1. /\ port_pc' = "aborted"
        /\ UNCHANGED <<current, services, mappings, toScan, toPrune, active_ports, existing_mappings, zone, deploys, since>>
    BY <1>6 DEF port_command_fails
  <2>2. InUse' = InUse
    BY <2>1 DEF InUse
  <2> QED
    BY <2>1, <2>2 DEF PortInv, PortsKept, OnlyUnusedGo, OnlyUsedAreLeft
<1> QED
  BY <1>1, <1>2, <1>3, <1>4, <1>5, <1>6 DEF PortNext

\* The other command, when it switches kubectl during the scan, is remembered.
LEMMA PortsKnow ==
  ASSUME PortInv, UNCHANGED portState,
         astray' = (astray \/ (port_pc = "scan" /\ toScan # {} /\ current' # current))
  PROVE  PortInv' /\ PortsKept
<1>1. UNCHANGED <<services, mappings, port_pc, toScan, toPrune, active_ports, existing_mappings, zone, since>>
  BY DEF portState
<1>2. InUse' = InUse
  BY <1>1 DEF InUse
<1> QED
  BY <1>1, <1>2 DEF PortInv, PortsKept, OnlyUnusedGo, OnlyUsedAreLeft

CleanupInv == JanitorInv /\ PortInv

\* At the start nothing is listed, deleted or collected.
LEMMA CleanupInitially == CleanupInit => CleanupInv
<1> SUFFICES ASSUME CleanupInit PROVE CleanupInv
  OBVIOUS
<1>1. JanitorInv
  <2>1. /\ age \in [Cluster -> [NamespaceIds -> 0..Gone]] /\ current \in Cluster /\ ctx_i = 0
        /\ janitor_pc = "context" /\ emptied = {} /\ switched = {}
    BY DEF CleanupInit, JanitorInit
  <2> QED
    BY <2>1, JanitorConstants DEF JanitorInv, InLoops, NoneIsHalfDeleted
<1>2. PortInv
  <2>1. /\ services \in [Cluster -> [ServiceNamespace -> SUBSET Port]] /\ mappings \in [Zone -> SUBSET Port]
        /\ port_pc = "context" /\ toScan = ServiceNamespace /\ toPrune = Zone
        /\ active_ports = {} /\ zone \in Zone
    BY DEF CleanupInit, PortInit
  <2> QED
    BY <2>1 DEF PortInv
<1> QED
  BY <1>1, <1>2 DEF CleanupInv

\* A step of either command.
LEMMA CleanupStep ==
  ASSUME CleanupInv, [CleanupNext]_cleanupVars
  PROVE  CleanupInv' /\ OnlyTargetsSuffer /\ PortsKept
<1>1. JanitorInv /\ PortInv /\ current \in Cluster
  BY DEF CleanupInv, JanitorInv
<1>2. CASE /\ JanitorNext
           /\ astray' = (astray \/ (port_pc = "scan" /\ toScan # {} /\ current' # current))
           /\ UNCHANGED <<portState, switched>>
  BY <1>1, <1>2, JanitorStep, PortsKnow DEF CleanupInv
<1>3. CASE /\ PortNext
           /\ switched' = switched \cup {k \in {ctx_i} : current' # current /\ janitor_pc \in {"namespaces", "delete ns"}}
           /\ UNCHANGED <<age, ctx_i, pattern_i, ns_i, listing, janitor_pc, emptied, recreated, astray>>
  BY <1>1, <1>3, PortStep, SwitchKept DEF CleanupInv
<1>4. CASE UNCHANGED cleanupVars
  <2>1. /\ UNCHANGED <<age, current, ctx_i, pattern_i, ns_i, listing, janitor_pc, emptied, recreated>>
        /\ UNCHANGED <<portState, switched, astray>>
    BY <1>4 DEF cleanupVars, janitorVars
  <2>2. switched' = switched \cup {k \in {ctx_i} : current' # current /\ janitor_pc \in {"namespaces", "delete ns"}}
    BY <2>1
  <2>3. JanitorInv' /\ OnlyTargetsSuffer
    BY <1>1, <2>1, <2>2, SwitchKept
  <2>4. PortInv' /\ PortsKept
    <3>1. UNCHANGED <<services, mappings, port_pc, toScan, toPrune, active_ports, existing_mappings, zone, since, current, astray>>
      BY <2>1 DEF portState
    <3>2. InUse' = InUse
      BY <3>1 DEF InUse
    <3> QED
      BY <1>1, <3>1, <3>2 DEF PortInv, PortsKept, OnlyUnusedGo, OnlyUsedAreLeft
  <2> QED
    BY <2>3, <2>4 DEF CleanupInv
<1> QED
  BY <1>2, <1>3, <1>4 DEF CleanupNext

\* The clean-up commands of network-utilities.py, in any order of their steps,
\* with any of their commands failing and with services and namespaces made
\* meanwhile: a namespace that is emptied or deleted is an old one of the cluster
\* it was found in, or was made again after the listing, or kubectl was switched
\* by the other command; none is left half deleted but the one over which the
\* command gave up; no target is left when it finishes; and no mapping goes of a
\* port that was in use when the scan began, unless kubectl was switched then.
THEOREM CleanupsAreExact == CleanupSpec => CleanupIsExact
<1>1. CleanupInit => CleanupInv
  BY CleanupInitially
<1>2. CleanupInv => NoneIsHalfDeleted /\ NoTargetIsLeft
  <2> SUFFICES ASSUME CleanupInv PROVE NoTargetIsLeft
    BY DEF CleanupInv, JanitorInv
  <2>1. janitor_pc = "done" => \A k \in 1..Len(k8s_context) : k \notin switched => Cleaned(k)
    BY JanitorConstants DEF CleanupInv, JanitorInv
  <2> QED
    BY <2>1, JanitorConstants DEF NoTargetIsLeft, Cleaned
<1>3. CleanupInv /\ [CleanupNext]_cleanupVars => CleanupInv' /\ OnlyTargetsSuffer /\ PortsKept
  BY CleanupStep
<1>4. CleanupInv /\ [CleanupNext]_cleanupVars =>
        CleanupInv' /\ [ /\ OnlyTargetsSuffer /\ (NoneIsHalfDeleted /\ NoTargetIsLeft)'
                         /\ astray \/ (OnlyUnusedGo /\ OnlyUsedAreLeft) ]_cleanupVars
  <2>1. CleanupInv' => (NoneIsHalfDeleted /\ NoTargetIsLeft)'
    BY <1>2, PTL
  <2> QED
    BY <1>3, <2>1 DEF PortsKept
<1> QED
  BY <1>1, <1>4, PTL DEF CleanupSpec, CleanupIsExact

-----------------------------------------------------------------------------
(* The exporter of the build jobs' metrics. *)

\* A sequence, of whatever elements.
IsSequence(q) == \E T : q \in Seq(T)

\* The families about jobs.
JobFamilies == {"waittime", "runtime", "exit_status", "status"}

FinishedOf(S) == {x \in S : x[2].state = "FINISHED"}

\* The samples are those of a set of jobs, each counted once.
Counts(m, S) ==
  /\ DOMAIN m = Families /\ \A f \in JobFamilies : IsSequence(m[f])
  /\ Len(m["waittime"]) = Cardinality(S)
  /\ Len(m["runtime"]) = Cardinality(FinishedOf(S))
  /\ Len(m["exit_status"]) = Cardinality(FinishedOf(S))
  /\ Len(m["status"]) = Cardinality(S) - Cardinality(FinishedOf(S))
  /\ \A x \in S : x[2].command

\* One more element makes a sequence longer by one.
LEMMA OneLonger ==
  ASSUME NEW q, IsSequence(q), NEW x
  PROVE  IsSequence(q \o <<x>>) /\ Len(q \o <<x>>) = Len(q) + 1 /\ Len(q) \in Nat
<1>1. PICK T : q \in Seq(T)
  BY DEF IsSequence
<1>2. q \in Seq(T \cup {x}) /\ <<x>> \in Seq(T \cup {x})
  BY <1>1
<1>3. /\ q \o <<x>> \in Seq(T \cup {x}) /\ Len(q \o <<x>>) = Len(q) + Len(<<x>>)
      /\ Len(<<x>>) = 1 /\ Len(q) \in Nat
  BY <1>2
<1> QED
  BY <1>3 DEF IsSequence

\* A job more, in the set.
LEMMA OneJobMore ==
  ASSUME NEW S, IsFiniteSet(S), NEW x, x \notin S
  PROVE  /\ Cardinality(S) \in Nat /\ Cardinality(FinishedOf(S)) \in Nat
         /\ Cardinality(S \cup {x}) = Cardinality(S) + 1
         /\ Cardinality(FinishedOf(S \cup {x})) =
              IF x[2].state = "FINISHED" THEN Cardinality(FinishedOf(S)) + 1
              ELSE Cardinality(FinishedOf(S))
<1>1. Cardinality(S) \in Nat /\ Cardinality(S \cup {x}) = Cardinality(S) + 1
  BY FS_CardinalityType, FS_AddElement
<1>2. FinishedOf(S) \in SUBSET S
  BY DEF FinishedOf
<1>3. IsFiniteSet(FinishedOf(S)) /\ Cardinality(FinishedOf(S)) \in Nat
  BY <1>2, FS_Subset, FS_CardinalityType
<1>4. CASE x[2].state = "FINISHED"
  <2>1. FinishedOf(S \cup {x}) = FinishedOf(S) \cup {x} /\ x \notin FinishedOf(S)
    BY <1>4 DEF FinishedOf
  <2>2. Cardinality(FinishedOf(S) \cup {x}) = Cardinality(FinishedOf(S)) + 1
    BY <1>3, <2>1, FS_AddElement
  <2> QED
    BY <1>1, <1>3, <1>4, <2>1, <2>2
<1>5. CASE x[2].state # "FINISHED"
  <2>1. FinishedOf(S \cup {x}) = FinishedOf(S)
    BY <1>5 DEF FinishedOf
  <2> QED
    BY <1>1, <1>3, <1>5, <2>1
<1> QED
  BY <1>4, <1>5

\* The samples of a finished job.
LEMMA FinishedJobCounts ==
  ASSUME NEW m, NEW S, IsFiniteSet(S), Counts(m, S), NEW x, x \notin S,
         x[2].command, x[2].state = "FINISHED"
  PROVE  Counts(finished_job(m, x[2]), S \cup {x})
<1>1. PICK a : a = Sample(x[2].label, Seconds(x[2].finishedAt, x[2].startedAt))
  OBVIOUS
<1>2. PICK b : b = Sample(x[2].label, Seconds(x[2].startedAt, x[2].scheduledAt))
  OBVIOUS
<1>3. PICK e : e = Sample(x[2].label, 1)
  OBVIOUS
<1>4. PICK z : z = [i \in 1..x[2].artifacts |-> Sample(x[2].label, i)]
  OBVIOUS
<1>5. PICK m1 : m1 = Add(m, "runtime", <<a>>)
  OBVIOUS
<1>6. PICK m2 : m2 = Add(m1, "waittime", <<b>>)
  OBVIOUS
<1>7. PICK m3 : m3 = Add(m2, "exit_status", <<e>>)
  OBVIOUS
<1>8. PICK m4 : m4 = Add(m3, "artifact_size", z)
  OBVIOUS
<1>9. finished_job(m, x[2]) = m4
  BY <1>1, <1>2, <1>3, <1>4, <1>5, <1>6, <1>7, <1>8 DEF finished_job
<1>10. /\ "runtime" \in Families /\ "waittime" \in Families /\ "exit_status" \in Families
       /\ "artifact_size" \in Families /\ "status" \in Families
  BY DEF Families
<1>11. DOMAIN m = Families
  BY DEF Counts
<1>12. /\ DOMAIN m1 = Families /\ m1["runtime"] = m["runtime"] \o <<a>>
       /\ m1["waittime"] = m["waittime"] /\ m1["exit_status"] = m["exit_status"] /\ m1["status"] = m["status"]
  BY <1>5, <1>10, <1>11 DEF Add
<1>13. /\ DOMAIN m2 = Families /\ m2["waittime"] = m["waittime"] \o <<b>>
       /\ m2["runtime"] = m1["runtime"] /\ m2["exit_status"] = m["exit_status"] /\ m2["status"] = m["status"]
  BY <1>6, <1>10, <1>12 DEF Add
<1>14. /\ DOMAIN m3 = Families /\ m3["exit_status"] = m["exit_status"] \o <<e>>
       /\ m3["runtime"] = m1["runtime"] /\ m3["waittime"] = m2["waittime"] /\ m3["status"] = m["status"]
  BY <1>7, <1>10, <1>13 DEF Add
<1>15. /\ DOMAIN m4 = Families /\ m4["exit_status"] = m3["exit_status"]
       /\ m4["runtime"] = m1["runtime"] /\ m4["waittime"] = m2["waittime"] /\ m4["status"] = m["status"]
  BY <1>8, <1>10, <1>14 DEF Add
<1>16. \A f \in JobFamilies : IsSequence(m[f])
  BY DEF Counts
<1>17. \A f \in JobFamilies : IsSequence(m4[f])
  BY <1>12, <1>13, <1>14, <1>15, <1>16, OneLonger DEF JobFamilies
<1>18. /\ Len(m4["runtime"]) = Len(m["runtime"]) + 1 /\ Len(m4["waittime"]) = Len(m["waittime"]) + 1
       /\ Len(m4["exit_status"]) = Len(m["exit_status"]) + 1
  BY <1>12, <1>13, <1>14, <1>15, <1>16, OneLonger DEF JobFamilies
<1> QED
  BY <1>9, <1>15, <1>17, <1>18, OneJobMore DEF Counts

\* The samples of a job that is not finished.
LEMMA UnfinishedJobCounts ==
  ASSUME NEW m, NEW S, IsFiniteSet(S), Counts(m, S), NEW x, x \notin S, NEW t,
         x[2].command, x[2].state # "FINISHED"
  PROVE  Counts(unfinished_job(m, x[2], t), S \cup {x})
<1>1. PICK a : a = Sample(x[2].label, 1)
  OBVIOUS
<1>2. PICK b : b = Sample(x[2].label, Seconds(IF x[2].startedAt # None THEN x[2].startedAt ELSE t,
                                              x[2].scheduledAt))
  OBVIOUS
<1>3. PICK m1 : m1 = Add(m, "status", <<a>>)
  OBVIOUS
<1>4. PICK m2 : m2 = Add(m1, "waittime", <<b>>)
  OBVIOUS
<1>5. unfinished_job(m, x[2], t) = m2
  BY <1>1, <1>2, <1>3, <1>4 DEF unfinished_job
<1>6. /\ "runtime" \in Families /\ "waittime" \in Families /\ "exit_status" \in Families
      /\ "status" \in Families
  BY DEF Families
<1>7. DOMAIN m = Families /\ \A f \in JobFamilies : IsSequence(m[f])
  BY DEF Counts
<1>8. /\ DOMAIN m1 = Families /\ m1["status"] = m["status"] \o <<a>>
      /\ m1["waittime"] = m["waittime"] /\ m1["exit_status"] = m["exit_status"] /\ m1["runtime"] = m["runtime"]
  BY <1>3, <1>6, <1>7 DEF Add
<1>9. /\ DOMAIN m2 = Families /\ m2["waittime"] = m["waittime"] \o <<b>>
      /\ m2["status"] = m1["status"] /\ m2["exit_status"] = m["exit_status"] /\ m2["runtime"] = m["runtime"]
  BY <1>4, <1>6, <1>8 DEF Add
<1>10. \A f \in JobFamilies : IsSequence(m2[f])
  BY <1>7, <1>8, <1>9, OneLonger DEF JobFamilies
<1>11. /\ Len(m2["status"]) = Len(m["status"]) + 1 /\ Len(m2["waittime"]) = Len(m["waittime"]) + 1
  BY <1>7, <1>8, <1>9, OneLonger DEF JobFamilies
<1> QED
  <2>1. /\ Len(m2["waittime"]) = Cardinality(S \cup {x})
        /\ Len(m2["runtime"]) = Cardinality(FinishedOf(S \cup {x}))
        /\ Len(m2["exit_status"]) = Cardinality(FinishedOf(S \cup {x}))
        /\ Len(m2["status"]) = Cardinality(S \cup {x}) - Cardinality(FinishedOf(S \cup {x}))
    BY <1>9, <1>11, OneJobMore DEF Counts
  <2>2. \A y \in S \cup {x} : y[2].command
    BY DEF Counts
  <2> QED
    BY <1>5, <1>9, <1>10, <2>1, <2>2 DEF Counts

\* No samples, of no jobs.
LEMMA NoMetricsCount == Counts(NoMetrics, {})
<1>1. DOMAIN NoMetrics = Families /\ \A f \in Families : NoMetrics[f] = <<>>
  BY DEF NoMetrics
<1>2. /\ \A f \in JobFamilies : NoMetrics[f] = <<>>
      /\ NoMetrics["waittime"] = <<>> /\ NoMetrics["runtime"] = <<>>
      /\ NoMetrics["exit_status"] = <<>> /\ NoMetrics["status"] = <<>>
  BY <1>1 DEF JobFamilies, Families
<1>3. IsSequence(<<>>) /\ Len(<<>>) = 0
  <2>1. <<>> \in Seq({})
    OBVIOUS
  <2> QED
    BY <2>1 DEF IsSequence
<1>4. FinishedOf({}) = {} /\ Cardinality({}) = 0
  BY FS_EmptySet DEF FinishedOf
<1>5. /\ Len(NoMetrics["waittime"]) = Cardinality({})
      /\ Len(NoMetrics["runtime"]) = Cardinality(FinishedOf({}))
      /\ Len(NoMetrics["exit_status"]) = Cardinality(FinishedOf({}))
  BY <1>2, <1>3, <1>4, Zenon
<1>6. Len(NoMetrics["status"]) = Cardinality({}) - Cardinality(FinishedOf({}))
  <2>1. Len(NoMetrics["status"]) = 0 /\ Cardinality(FinishedOf({})) = 0 /\ Cardinality({}) = 0
    BY <1>2, <1>3, <1>4, Zenon
  <2> QED
    BY <2>1
<1>7. \A f \in JobFamilies : IsSequence(NoMetrics[f])
  BY <1>2, <1>3, Zenon
<1> QED
  BY <1>1, <1>5, <1>6, <1>7, Zenon DEF Counts

\* The jobs of a scrape that have been counted.
Counted(s) == {x \in fetched[s] : x[1] \notin todo[s]}

\* A scrape's samples are those of the jobs it has come past, of one look; it
\* shows nothing until they are all there.
ScrapeInv(s) ==
  /\ IsFiniteSet(fetched[s]) /\ \A x, y \in fetched[s] : x[1] = y[1] => x = y
  /\ scrape_pc[s] = "jobs" => metrics[s] = NoMetrics
  /\ scrape_pc[s] \in {"job", "yield"} => Counts(metrics[s], Counted(s))
  /\ scrape_pc[s] \in {"yield", "done"} => todo[s] = {}
  /\ scrape_pc[s] = "done" => Counts(shown[s], fetched[s])
  /\ scrape_pc[s] # "done" => shown[s] = NoMetrics

ExporterInv ==
  /\ DOMAIN scrape_pc = Scrape /\ DOMAIN todo = Scrape /\ DOMAIN metrics = Scrape
  /\ DOMAIN shown = Scrape /\ DOMAIN fetched = Scrape
  /\ \A s \in Scrape : ScrapeInv(s)

\* What a step of one scrape leaves alone is the same for the others.
LEMMA OthersKeep ==
  ASSUME NEW s \in Scrape,
         \A u \in Scrape : ScrapeInv(u),
         \A u \in Scrape : u # s => /\ scrape_pc'[u] = scrape_pc[u] /\ todo'[u] = todo[u]
                                    /\ metrics'[u] = metrics[u] /\ shown'[u] = shown[u]
                                    /\ fetched'[u] = fetched[u],
         ScrapeInv(s)'
  PROVE  \A u \in Scrape : ScrapeInv(u)'
<1> SUFFICES ASSUME NEW u \in Scrape, u # s PROVE ScrapeInv(u)'
  OBVIOUS
<1>1. ScrapeInv(u)
  OBVIOUS
<1>2. Counted(u)' = Counted(u)
  BY DEF Counted
<1> QED
  BY <1>1, <1>2 DEF ScrapeInv

\* The samples of the agents are in a family of their own.
LEMMA AgentsDoNotCount ==
  ASSUME NEW m, NEW S, Counts(m, S), NEW samples
  PROVE  Counts(Add(m, "total_count", samples), S)
<1>1. PICK a : a = Add(m, "total_count", samples)
  OBVIOUS
<1>2. DOMAIN m = Families /\ "total_count" \in Families
  BY DEF Counts, Families
<1>3. /\ DOMAIN a = Families /\ a["waittime"] = m["waittime"] /\ a["runtime"] = m["runtime"]
      /\ a["exit_status"] = m["exit_status"] /\ a["status"] = m["status"]
  BY <1>1, <1>2 DEF Add, Families
<1>4. \A f \in JobFamilies : IsSequence(a[f])
  BY <1>3 DEF Counts, JobFamilies
<1> QED
  BY <1>1, <1>3, <1>4 DEF Counts

\* A step of a scrape.
LEMMA ScrapeStep ==
  ASSUME ExporterInv, NEW s \in Scrape,
         \/ collect(s) \/ query_jobs(s) \/ add_job(s) \/ add_job_raises(s)
         \/ collect_agent_data(s) \/ Yield(s) \/ execute_qlquery_raises(s)
  PROVE  ExporterInv'
<1>0. /\ DOMAIN scrape_pc = Scrape /\ DOMAIN todo = Scrape /\ DOMAIN metrics = Scrape
      /\ DOMAIN shown = Scrape /\ DOMAIN fetched = Scrape
      /\ ScrapeInv(s) /\ \A u \in Scrape : ScrapeInv(u)
  BY DEF ExporterInv
<1>1. CASE collect(s)
  <2>1. /\ scrape_pc[s] = "idle" /\ scrape_pc' = [scrape_pc EXCEPT ![s] = "jobs"]
        /\ metrics' = [metrics EXCEPT ![s] = NoMetrics] /\ UNCHANGED <<todo, shown, fetched>>
    BY <1>1 DEF collect
  <2>2. scrape_pc'[s] = "jobs" /\ metrics'[s] = NoMetrics
    BY <1>0, <2>1
  <2>3. ScrapeInv(s)'
    BY <1>0, <2>1, <2>2 DEF ScrapeInv
  <2> QED
    BY <1>0, <2>1, <2>3, OthersKeep DEF ExporterInv
<1>2. CASE query_jobs(s)
  <2> DEFINE found == {j \in Job : jobs[j].key \in list_pipeline_stepkeys}
  <2>1. /\ scrape_pc[s] = "jobs" /\ scrape_pc' = [scrape_pc EXCEPT ![s] = "job"]
        /\ todo' = [todo EXCEPT ![s] = found]
        /\ fetched' = [fetched EXCEPT ![s] = {<<j, jobs[j]>> : j \in found}]
        /\ UNCHANGED <<metrics, shown>>
    BY <1>2 DEF query_jobs
  <2>2. /\ scrape_pc'[s] = "job" /\ todo'[s] = found
        /\ fetched'[s] = {<<j, jobs[j]>> : j \in found}
    BY <1>0, <2>1
  <2>3. /\ \A x, y \in fetched'[s] : x[1] = y[1] => x = y
        /\ \A x \in fetched'[s] : x[1] \in found
    <3> HIDE DEF found
    <3> QED
      BY <2>2
  <2>4. IsFiniteSet(fetched'[s])
    <3>1. found \in SUBSET Job
      OBVIOUS
    <3> HIDE DEF found
    <3>2. IsFiniteSet(found)
      BY <3>1, BuildkiteExporterAssumption, FS_Subset
    <3>3. PICK T : T = {<<j, jobs[j]>> : j \in found}
      OBVIOUS
    <3>4. [j \in found |-> <<j, jobs[j]>>] \in Surjection(found, T)
      BY <3>3 DEF Surjection
    <3>5. IsFiniteSet(T)
      BY <3>2, <3>4, FS_Surjection
    <3> QED
      BY <2>2, <3>3, <3>5
  <2> HIDE DEF found
  <2>5. Counted(s)' = {}
    BY <2>2, <2>3 DEF Counted
  <2>6. metrics'[s] = NoMetrics /\ shown'[s] = NoMetrics
    BY <1>0, <2>1 DEF ScrapeInv
  <2>7. ScrapeInv(s)'
    BY <2>2, <2>3, <2>4, <2>5, <2>6, NoMetricsCount DEF ScrapeInv
  <2> QED
    BY <1>0, <2>1, <2>7, OthersKeep DEF ExporterInv
<1>3. CASE add_job(s)
  <2>1. PICK j \in todo[s] : \E r \in {x[2] : x \in {y \in fetched[s] : y[1] = j}} :
          /\ r.command /\ todo' = [todo EXCEPT ![s] = @ \ {j}]
          /\ metrics' = [metrics EXCEPT ![s] = IF r.state = "FINISHED" THEN finished_job(@, r)
                                               ELSE unfinished_job(@, r, Max(JobTimes))]
    BY <1>3 DEF add_job
  <2>1a. PICK r \in {x[2] : x \in {y \in fetched[s] : y[1] = j}} :
          /\ r.command /\ todo' = [todo EXCEPT ![s] = @ \ {j}]
          /\ metrics' = [metrics EXCEPT ![s] = IF r.state = "FINISHED" THEN finished_job(@, r)
                                               ELSE unfinished_job(@, r, Max(JobTimes))]
    BY <2>1
  <2>1b. PICK x \in fetched[s] : x[1] = j /\ r = x[2]
    OBVIOUS
  <2>2. /\ x[1] = j /\ x[2].command /\ todo' = [todo EXCEPT ![s] = @ \ {j}]
        /\ metrics' = [metrics EXCEPT ![s] = IF x[2].state = "FINISHED" THEN finished_job(@, x[2])
                                             ELSE unfinished_job(@, x[2], Max(JobTimes))]
    BY <2>1a, <2>1b
  <2>3. scrape_pc[s] = "job" /\ UNCHANGED <<scrape_pc, shown, fetched>>
    BY <1>3 DEF add_job
  <2>4. /\ todo'[s] = todo[s] \ {j}
        /\ metrics'[s] = IF x[2].state = "FINISHED" THEN finished_job(metrics[s], x[2])
                         ELSE unfinished_job(metrics[s], x[2], Max(JobTimes))
    BY <1>0, <2>2
  <2>5. x \notin Counted(s) /\ Counted(s)' = Counted(s) \cup {x} /\ Counted(s) \in SUBSET fetched[s]
    BY <1>0, <2>2, <2>3, <2>4 DEF Counted, ScrapeInv
  <2>6. IsFiniteSet(Counted(s)) /\ Counts(metrics[s], Counted(s))
    BY <1>0, <2>3, <2>5, FS_Subset DEF ScrapeInv
  <2>7. Counts(metrics'[s], Counted(s) \cup {x})
    <3>1. CASE x[2].state = "FINISHED"
      <4>1. metrics'[s] = finished_job(metrics[s], x[2])
        BY <2>4, <3>1
      <4>2. Counts(finished_job(metrics[s], x[2]), Counted(s) \cup {x})
        BY <2>2, <2>5, <2>6, <3>1, FinishedJobCounts
      <4> QED
        BY <4>1, <4>2
    <3>2. CASE x[2].state # "FINISHED"
      <4>1. metrics'[s] = unfinished_job(metrics[s], x[2], Max(JobTimes))
        BY <2>4, <3>2
      <4>2. Counts(unfinished_job(metrics[s], x[2], Max(JobTimes)), Counted(s) \cup {x})
        BY <2>2, <2>5, <2>6, <3>2, UnfinishedJobCounts
      <4> QED
        BY <4>1, <4>2
    <3> QED
      BY <3>1, <3>2
  <2>8. ScrapeInv(s)'
    BY <1>0, <2>3, <2>5, <2>7 DEF ScrapeInv
  <2> QED
    BY <1>0, <2>2, <2>3, <2>8, OthersKeep DEF ExporterInv
<1>4. CASE add_job_raises(s) \/ execute_qlquery_raises(s)
  <2>1. /\ scrape_pc[s] \in {"jobs", "job"} /\ scrape_pc' = [scrape_pc EXCEPT ![s] = "failed"]
        /\ UNCHANGED <<todo, metrics, shown, fetched>>
    <3>1. CASE add_job_raises(s)
      BY <3>1 DEF add_job_raises
    <3>2. CASE execute_qlquery_raises(s)
      BY <3>2 DEF execute_qlquery_raises
    <3> QED
      BY <1>4, <3>1, <3>2
  <2>2. scrape_pc'[s] = "failed"
    BY <1>0, <2>1
  <2>3. ScrapeInv(s)'
    BY <1>0, <2>1, <2>2 DEF ScrapeInv
  <2> QED
    BY <1>0, <2>1, <2>3, OthersKeep DEF ExporterInv
<1>5. CASE collect_agent_data(s)
  <2>1. /\ scrape_pc[s] = "job" /\ todo[s] = {} /\ scrape_pc' = [scrape_pc EXCEPT ![s] = "yield"]
        /\ UNCHANGED <<todo, shown, fetched>>
    BY <1>5 DEF collect_agent_data
  <2>2. PICK samples : metrics' = [metrics EXCEPT ![s] = Add(@, "total_count", samples)]
    BY <1>5 DEF collect_agent_data
  <2>3. scrape_pc'[s] = "yield" /\ metrics'[s] = Add(metrics[s], "total_count", samples)
    BY <1>0, <2>1, <2>2
  <2>4. Counted(s)' = Counted(s)
    BY <2>1 DEF Counted
  <2>5. Counts(metrics'[s], Counted(s))
    BY <1>0, <2>1, <2>3, AgentsDoNotCount DEF ScrapeInv
  <2>6. ScrapeInv(s)'
    BY <1>0, <2>1, <2>3, <2>4, <2>5 DEF ScrapeInv
  <2> QED
    BY <1>0, <2>1, <2>2, <2>6, OthersKeep DEF ExporterInv
<1>6. CASE Yield(s)
  <2>1. /\ scrape_pc[s] = "yield" /\ scrape_pc' = [scrape_pc EXCEPT ![s] = "done"]
        /\ shown' = [shown EXCEPT ![s] = metrics[s]] /\ UNCHANGED <<todo, metrics, fetched>>
    BY <1>6 DEF Yield
  <2>2. scrape_pc'[s] = "done" /\ shown'[s] = metrics[s] /\ todo[s] = {}
    BY <1>0, <2>1 DEF ScrapeInv
  <2>3. Counted(s) = fetched[s]
    BY <2>2 DEF Counted
  <2>4. ScrapeInv(s)'
    BY <1>0, <2>1, <2>2, <2>3 DEF ScrapeInv
  <2> QED
    BY <1>0, <2>1, <2>4, OthersKeep DEF ExporterInv
<1> QED
  BY <1>1, <1>2, <1>3, <1>4, <1>5, <1>6

\* However scrapes overlap and jobs go on meanwhile, what a scrape of the
\* exporter shows is of one look at the pipeline, with every job counted once,
\* and a scrape that fails shows nothing.
THEOREM ScrapesAreOneLook == ExporterSpec => []ScrapeIsOneLook
<1>1. ExporterInit => ExporterInv
  <2> SUFFICES ASSUME ExporterInit PROVE ExporterInv
    OBVIOUS
  <2>1. /\ DOMAIN scrape_pc = Scrape /\ DOMAIN todo = Scrape /\ DOMAIN metrics = Scrape
        /\ DOMAIN shown = Scrape /\ DOMAIN fetched = Scrape
        /\ \A s \in Scrape : scrape_pc[s] = "idle" /\ shown[s] = NoMetrics /\ fetched[s] = {}
    BY DEF ExporterInit
  <2> QED
    BY <2>1, FS_EmptySet DEF ExporterInv, ScrapeInv
<1>2. ExporterInv /\ [ExporterNext]_exporterVars => ExporterInv'
  <2> SUFFICES ASSUME ExporterInv, [ExporterNext]_exporterVars PROVE ExporterInv'
    OBVIOUS
  <2>1. CASE JobFinishes \/ UNCHANGED exporterVars
    <3>1. UNCHANGED <<scrape_pc, todo, metrics, shown, fetched>>
      BY <2>1 DEF JobFinishes, exporterVars
    <3>2. \A s \in Scrape : Counted(s)' = Counted(s)
      BY <3>1 DEF Counted
    <3> QED
      BY <3>1, <3>2 DEF ExporterInv, ScrapeInv
  <2> QED
    BY <2>1, ScrapeStep DEF ExporterNext
<1>3. ExporterInv => ScrapeIsOneLook
  <2> SUFFICES ASSUME ExporterInv, NEW s \in Scrape
               PROVE  /\ scrape_pc[s] = "done" =>
                           /\ Len(shown[s]["waittime"]) = Cardinality(fetched[s])
                           /\ Len(shown[s]["runtime"]) = Cardinality(Finished(s))
                           /\ Len(shown[s]["exit_status"]) = Cardinality(Finished(s))
                           /\ Len(shown[s]["status"]) = Cardinality(fetched[s]) - Cardinality(Finished(s))
                           /\ \A x \in fetched[s] : x[2].command
                      /\ shown[s] # NoMetrics => scrape_pc[s] = "done" /\ todo[s] = {}
    BY DEF ScrapeIsOneLook, EachJobOnce, AllOrNothing
  <2>1. ScrapeInv(s) /\ Finished(s) = FinishedOf(fetched[s])
    BY DEF ExporterInv, Finished, FinishedOf
  <2> QED
    BY <2>1 DEF ScrapeInv, Counts
<1> QED
  BY <1>1, <1>2, <1>3, PTL DEF ExporterSpec
-----------------------------------------------------------------------------
(* The genesis ledger.  What the balances are does not matter here. *)

Kinds == {"service", "offline_whale", "online_whale", "offline_fish", "online_fish", "csv", "none"}
KeySet == [kind : Kinds, i : Nat]
Balances == {fish_offline_balance, fish_online_balance, whale_offline_balance,
             whale_online_balance, service_balance}
AccountSet == [pk : KeySet, balance : Balances, delegate : KeySet]

Loading == {"service_keys", "offline_whale", "online_whale", "offline_fish", "stakers", "raised"}
Written_pc == {"annotated_ledger.json", "done"}
AllLoaded == {"service_accounts", "fish_accounts", "whale_accounts", "genesis_ledger.json"} \cup Written_pc

\* The keys of a directory, in their order.
InOrder(s, sort) == \A i \in DOMAIN s : s[i] = Key(sort, i)

\* The rows that are read hold keys, or are passed over.
RowsInv == csv # NoCsv => csv \in Seq(RowKey \cup {NotAKey})

\* ReadTwice, of any sequence of stakers.
Twice(st, pk) ==
  \E m \in DOMAIN st :
    /\ st[m] = pk
    /\ pk.kind \in Directories \ {"online_fish"} \/ \E n \in DOMAIN st \ {m} : st[n] = pk

\* The keys that have been loaded: those of a directory are numbered, so they
\* differ, the stakers may be any keys, and there are no more stakers than fish
\* to delegate to them.
KeysInv ==
  /\ keys \in [service : Seq(KeySet), offline_whale : Seq(KeySet), online_whale : Seq(KeySet),
               offline_fish : Seq(KeySet), stakers : Seq(KeySet)]
  /\ InOrder(keys.service, "service")
  /\ InOrder(keys.offline_whale, "offline_whale") /\ InOrder(keys.online_whale, "online_whale")
  /\ InOrder(keys.offline_fish, "offline_fish")
  /\ \A m \in DOMAIN keys.stakers : keys.stakers[m] # NoDelegate
  /\ Len(keys.stakers) <= num_fish_accounts
  /\ ledger_pc \in AllLoaded \cup {"stakers"} => num_fish_accounts <= Len(keys.offline_fish)
  /\ ledger_pc \in Loading => Len(keys.stakers) < index

\* The loops have come past the key.
Came(pk) ==
  \/ pk.kind = "service" /\ ledger_pc # "service_accounts"
  \/ ledger_pc = "fish_accounts" /\ pk.kind = "offline_fish" /\ pk.i < index
  \/ ledger_pc = "fish_accounts" /\ \E m \in DOMAIN keys.stakers : m < index /\ keys.stakers[m] = pk
  \/ ledger_pc = "whale_accounts" /\ pk.kind = "offline_fish"
  \/ ledger_pc = "whale_accounts" /\ \E m \in DOMAIN keys.stakers : keys.stakers[m] = pk
  \/ ledger_pc = "whale_accounts" /\ pk.kind \in {"offline_whale", "online_whale"} /\ pk.i < index
  \/ ledger_pc \in {"genesis_ledger.json"} \cup Written_pc

\* The accounts of a ledger: one for each key, and for each delegate, to whom one account
\* delegates, unless the key is read twice.
Closed(st, accounts) ==
  /\ \A i, j \in DOMAIN accounts :
       i # j /\ accounts[i].pk = accounts[j].pk => Twice(st, accounts[i].pk)
  /\ \A i, j \in DOMAIN accounts :
       i # j /\ accounts[i].delegate # NoDelegate /\ accounts[i].delegate = accounts[j].delegate
       => Twice(st, accounts[i].delegate)
  /\ \A i \in DOMAIN accounts :
       accounts[i].delegate # NoDelegate => \E j \in DOMAIN accounts : accounts[j].pk = accounts[i].delegate

\* The staker has an account, and a fish delegates to it.
Funded(accounts, pk) ==
  \E i, j \in DOMAIN accounts :
    /\ accounts[i].pk = pk /\ accounts[i].balance = fish_online_balance
    /\ accounts[j].delegate = pk /\ accounts[j].balance = fish_offline_balance

LedgerInv ==
  /\ index \in Nat \ {0}
  /\ present \in [Directories -> Nat]
  /\ ledger_pc \in Loading \cup AllLoaded
  /\ KeysInv
  /\ ledger \in Seq(AccountSet)
  /\ ledger_pc \in Loading \cup {"service_accounts"} => ledger = <<>>
  /\ \A i \in DOMAIN ledger : Came(ledger[i].pk)
  /\ Closed(keys.stakers, ledger)
  /\ \A m \in DOMAIN keys.stakers :
       \/ ledger_pc = "fish_accounts" /\ m < index
       \/ ledger_pc \in {"whale_accounts", "genesis_ledger.json"} \cup Written_pc
       => Funded(ledger, keys.stakers[m])
  /\ Written => ledger_pc \in Written_pc /\ Accounts = ledger

\* The key has no account yet, or is read twice.
NewKey(st, accounts, pk) == \A n \in DOMAIN accounts : accounts[n].pk = pk => Twice(st, pk)

\* The second ledger has the accounts of the first and of two more keys.
Extends(accounts, more, pk1, pk2) ==
  /\ \A n \in DOMAIN more : more[n].pk = pk1 \/ more[n].pk = pk2
                            \/ \E m \in DOMAIN accounts : more[n].pk = accounts[m].pk
  /\ \A pk \in KeySet : Funded(accounts, pk) => Funded(more, pk)

\* Two accounts are put at the end of a ledger.
LEMMA PairAtEnd ==
  ASSUME NEW S, NEW s \in Seq(S), NEW a \in S, NEW b \in S
  PROVE  /\ s \o <<a, b>> \in Seq(S)
         /\ DOMAIN (s \o <<a, b>>) = DOMAIN s \cup {Len(s) + 1, Len(s) + 2}
         /\ \A i \in DOMAIN s : (s \o <<a, b>>)[i] = s[i]
         /\ (s \o <<a, b>>)[Len(s) + 1] = a
         /\ (s \o <<a, b>>)[Len(s) + 2] = b
         /\ Len(s) + 1 \notin DOMAIN s /\ Len(s) + 2 \notin DOMAIN s
         /\ Len(s) + 1 # Len(s) + 2
<1>1. <<a, b>> \in Seq(S) /\ Len(<<a, b>>) = 2 /\ Len(s) \in Nat /\ DOMAIN s = 1..Len(s)
  OBVIOUS
<1>2. s \o <<a, b>> \in Seq(S) /\ Len(s \o <<a, b>>) = Len(s) + 2
  BY <1>1
<1> QED BY <1>1, <1>2

\* A ledger stays closed when an account and that of its delegate, both new or
\* read twice, are put at its end.
LEMMA DelegatesStayClosed ==
  ASSUME NEW st, NEW s \in Seq(AccountSet), Closed(st, s),
         NEW offline \in KeySet, NEW online \in KeySet, NEW b1 \in Balances, NEW b2 \in Balances,
         offline = online => Twice(st, online), online # NoDelegate,
         NewKey(st, s, offline), NewKey(st, s, online)
  PROVE  LET t == s \o <<Account(offline, b1, online), Account(online, b2, NoDelegate)>>
         IN  Closed(st, t) /\ t \in Seq(AccountSet)
<1>0. NoDelegate \in KeySet
  BY DEF NoDelegate, NotAKey, Key, KeySet, Kinds
<1> PICK a : a = Account(offline, b1, online)
  OBVIOUS
<1> PICK b : b = Account(online, b2, NoDelegate)
  OBVIOUS
<1>1. /\ a \in AccountSet /\ a.pk = offline /\ a.delegate = online
      /\ b \in AccountSet /\ b.pk = online /\ b.delegate = NoDelegate
  BY <1>0 DEF Account, AccountSet
<1> PICK t : t = s \o <<a, b>>
  OBVIOUS
<1> PICK n1 : n1 = Len(s) + 1
  OBVIOUS
<1> PICK n2 : n2 = Len(s) + 2
  OBVIOUS
<1>2. /\ t \in Seq(AccountSet) /\ DOMAIN t = DOMAIN s \cup {n1, n2} /\ \A i \in DOMAIN s : t[i] = s[i]
      /\ t[n1] = a /\ t[n2] = b /\ n1 \notin DOMAIN s /\ n2 \notin DOMAIN s /\ n1 # n2
  BY <1>1, PairAtEnd
<1>3. \A i \in DOMAIN s : s[i].delegate = online => Twice(st, online)
  BY DEF Closed, NewKey
<1>4. ASSUME NEW i \in DOMAIN t, NEW j \in DOMAIN t, i # j, t[i].pk = t[j].pk
      PROVE  Twice(st, t[i].pk)
  <2>1. CASE i \in DOMAIN s /\ j \in DOMAIN s
    BY <1>2, <1>4, <2>1 DEF Closed
  <2>2. CASE i \in DOMAIN s /\ j \in {n1, n2}
    BY <1>1, <1>2, <1>4, <2>2 DEF NewKey
  <2>3. CASE i \in {n1, n2} /\ j \in DOMAIN s
    BY <1>1, <1>2, <1>4, <2>3 DEF NewKey
  <2>4. CASE i \in {n1, n2} /\ j \in {n1, n2}
    BY <1>1, <1>2, <1>4, <2>4
  <2> QED BY <1>2, <2>1, <2>2, <2>3, <2>4, Zenon
<1>5. ASSUME NEW i \in DOMAIN t, NEW j \in DOMAIN t, i # j,
             t[i].delegate # NoDelegate, t[i].delegate = t[j].delegate
      PROVE  Twice(st, t[i].delegate)
  <2>1. CASE i \in DOMAIN s /\ j \in DOMAIN s
    BY <1>2, <1>5, <2>1 DEF Closed
  <2>2. CASE i \in DOMAIN s /\ j \notin DOMAIN s
    BY <1>1, <1>2, <1>3, <1>5, <2>2
  <2>3. CASE i = n1
    BY <1>1, <1>2, <1>3, <1>5, <2>3
  <2>4. CASE i = n2
    BY <1>1, <1>2, <1>5, <2>4
  <2> QED BY <1>2, <2>1, <2>2, <2>3, <2>4
<1>6. ASSUME NEW i \in DOMAIN t, t[i].delegate # NoDelegate
      PROVE  \E j \in DOMAIN t : t[j].pk = t[i].delegate
  <2>1. CASE i \in DOMAIN s
    <3>1. t[i] = s[i]
      BY <1>2, <2>1, Zenon
    <3>2. PICK j \in DOMAIN s : s[j].pk = s[i].delegate
      BY <1>6, <2>1, <3>1, Zenon DEF Closed
    <3>3. j \in DOMAIN t /\ t[j] = s[j]
      BY <1>2, Zenon
    <3> QED BY <3>1, <3>2, <3>3, Zenon
  <2>2. CASE i = n1
    BY <1>1, <1>2, <2>2
  <2>3. CASE i = n2
    BY <1>1, <1>2, <1>6, <2>3, Zenon
  <2> QED BY <1>2, <2>1, <2>2, <2>3, Zenon
<1>7. Closed(st, t)
  <2>1. \A i, j \in DOMAIN t : i # j /\ t[i].pk = t[j].pk => Twice(st, t[i].pk)
    BY <1>4, Zenon
  <2>2. \A i, j \in DOMAIN t :
          i # j /\ t[i].delegate # NoDelegate /\ t[i].delegate = t[j].delegate => Twice(st, t[i].delegate)
    <3> SUFFICES ASSUME NEW i \in DOMAIN t, NEW j \in DOMAIN t, i # j,
                        t[i].delegate # NoDelegate, t[i].delegate = t[j].delegate
                 PROVE  Twice(st, t[i].delegate)
      OBVIOUS
    <3> QED BY <1>5
  <2>3. \A i \in DOMAIN t : t[i].delegate # NoDelegate => \E j \in DOMAIN t : t[j].pk = t[i].delegate
    BY <1>6, Zenon
  <2> QED BY <2>1, <2>2, <2>3, Zenon DEF Closed
<1> QED BY <1>2, <1>7

\* A ledger without accounts is closed.
LEMMA EmptyLedger == (\A st : Closed(st, <<>>)) /\ <<>> \in Seq(AccountSet) /\ DOMAIN <<>> = {}
BY DEF Closed

\* At the start no key is loaded and no account made.
LEMMA LedgerInitially == LedgerInit => LedgerInv
<1> SUFFICES ASSUME LedgerInit PROVE LedgerInv
  OBVIOUS
<1>1. /\ index = 1 /\ ledger_pc = "service_keys" /\ ledger = <<>> /\ DOMAIN out = {}
      /\ keys = [service |-> <<>>, offline_whale |-> <<>>, online_whale |-> <<>>,
                 offline_fish |-> <<>>, stakers |-> <<>>]
  BY DEF LedgerInit
<1>2. present \in [Directories -> Nat]
  BY GenesisLedgerAssumption DEF LedgerInit, GenesisLedgerAssumption
<1>3. KeysInv
  <2>1. keys \in [service : Seq(KeySet), offline_whale : Seq(KeySet), online_whale : Seq(KeySet),
                  offline_fish : Seq(KeySet), stakers : Seq(KeySet)]
    BY <1>1
  <2>2. DOMAIN <<>> = {} /\ Len(<<>>) = 0
    OBVIOUS
  <2> QED BY <1>1, <2>1, <2>2, GenesisLedgerAssumption
        DEF KeysInv, InOrder, GenesisLedgerAssumption, AllLoaded, Written_pc
<1> QED BY <1>1, <1>2, <1>3, EmptyLedger DEF LedgerInv, Loading, Written

\* The keys of a directory, as they are loaded.
LEMMA NumberedKeys ==
  ASSUME NEW sort \in Kinds, NEW n \in Nat
  PROVE  LET s == [i \in 1..n |-> Key(sort, i)]
         IN  s \in Seq(KeySet) /\ Len(s) = n /\ DOMAIN s = 1..n /\ InOrder(s, sort)
<1>1. \A i \in 1..n : Key(sort, i) \in KeySet
  BY DEF Key, KeySet
<1> PICK s : s = [i \in 1..n |-> Key(sort, i)]
  OBVIOUS
<1>2. s \in Seq(KeySet) /\ Len(s) = n /\ DOMAIN s = 1..n
  BY <1>1
<1>3. \A i \in DOMAIN s : s[i] = Key(sort, i)
  BY <1>2
<1> QED BY <1>2, <1>3 DEF InOrder

\* ... as many as there are files.
LEMMA DirectoryInOrder ==
  ASSUME NEW sort \in Kinds \cap Directories, present \in [Directories -> Nat]
  PROVE  /\ KeysOf(sort) \in Seq(KeySet) /\ Len(KeysOf(sort)) = present[sort]
         /\ InOrder(KeysOf(sort), sort)
<1>1. present[sort] \in Nat
  OBVIOUS
<1> QED BY <1>1, NumberedKeys DEF KeysOf

\* A step that makes no account and writes nothing, while the keys are read.
LEMMA LoadingStep ==
  ASSUME LedgerInv, ledger_pc \in Loading, ledger_pc' \in Loading \cup {"service_accounts"},
         KeysInv', index' \in Nat \ {0},
         UNCHANGED <<present, ledger, out>>
  PROVE  LedgerInv'
<1>1. ledger' = <<>>
  BY DEF LedgerInv
<1>2. ~Written
  BY DEF LedgerInv, Loading, Written_pc
<1>3. ~Written'
  BY <1>2 DEF Written
<1>4. present' \in [Directories -> Nat] /\ ledger_pc' \in Loading \cup AllLoaded
  BY DEF LedgerInv, AllLoaded
<1>5. /\ ledger_pc' # "fish_accounts" /\ ledger_pc' \notin {"whale_accounts", "genesis_ledger.json"}
      /\ ledger_pc' \notin Written_pc
  BY DEF Loading, Written_pc
<1>6. Closed(keys.stakers, ledger)' /\ (ledger \in Seq(AccountSet))' /\ DOMAIN ledger' = {}
  BY <1>1, EmptyLedger
<1> QED BY <1>1, <1>3, <1>4, <1>5, <1>6 DEF LedgerInv

\* A step that loads no key leaves what is known of the keys.
LEMMA SameKeys ==
  ASSUME KeysInv, UNCHANGED keys, index \in Nat, index' \in Nat, index <= index',
         ledger_pc' \in Loading => ledger_pc \in Loading,
         ledger_pc' \in AllLoaded \cup {"stakers"} => ledger_pc \in AllLoaded \cup {"stakers"}
  PROVE  KeysInv'
<1>1. keys.stakers \in Seq(KeySet)
  BY DEF KeysInv
<1>2. ledger_pc' \in Loading => Len(keys'.stakers) < index'
  BY <1>1 DEF KeysInv
<1> QED BY <1>2 DEF KeysInv, InOrder

\* A step that puts other stakers in the place of those loaded.
LEMMA StakersReplaced ==
  ASSUME KeysInv, NEW t \in Seq(KeySet), keys' = [keys EXCEPT !.stakers = t],
         \A m \in DOMAIN t : t[m] # NoDelegate, Len(t) <= num_fish_accounts,
         ledger_pc \in AllLoaded \cup {"stakers"}, ledger_pc' \in Loading => Len(t) < index'
  PROVE  KeysInv'
<1>1. /\ keys' \in [service : Seq(KeySet), offline_whale : Seq(KeySet), online_whale : Seq(KeySet),
                     offline_fish : Seq(KeySet), stakers : Seq(KeySet)]
      /\ keys'.service = keys.service /\ keys'.offline_whale = keys.offline_whale
      /\ keys'.online_whale = keys.online_whale /\ keys'.offline_fish = keys.offline_fish
      /\ keys'.stakers = t
  BY DEF KeysInv
<1> QED BY <1>1 DEF KeysInv, InOrder

\* A step that loads the keys of a directory.
LEMMA DirectoryLoaded ==
  ASSUME KeysInv, UNCHANGED index, ledger_pc \in Loading,
         keys' \in [service : Seq(KeySet), offline_whale : Seq(KeySet), online_whale : Seq(KeySet),
                   offline_fish : Seq(KeySet), stakers : Seq(KeySet)],
         keys'.stakers = keys.stakers,
         InOrder(keys'.service, "service"), InOrder(keys'.offline_whale, "offline_whale"),
         InOrder(keys'.online_whale, "online_whale"), InOrder(keys'.offline_fish, "offline_fish"),
         ledger_pc' \in AllLoaded \cup {"stakers"} => num_fish_accounts <= Len(keys'.offline_fish)
  PROVE  KeysInv'
BY DEF KeysInv, InOrder

\* The directories of the service, whale and offline fish keys.
LEMMA DirectoriesLoad ==
  ASSUME LedgerInv,
         \/ load_service_keys \/ unknown_service \/ load_offline_whale_keys
         \/ load_online_whale_keys \/ load_offline_fish_keys
  PROVE  LedgerInv'
<1> USE GenesisLedgerAssumption DEF GenesisLedgerAssumption
<1>1. /\ present \in [Directories -> Nat] /\ index \in Nat \ {0} /\ KeysInv
  BY DEF LedgerInv
<1>2. \A sort \in {"service", "offline_whale", "online_whale", "offline_fish"} :
        /\ KeysOf(sort) \in Seq(KeySet) /\ Len(KeysOf(sort)) = present[sort]
        /\ InOrder(KeysOf(sort), sort)
  BY <1>1, DirectoryInOrder DEF Kinds, Directories
<1>3. CASE load_service_keys
  <2>1. /\ keys' = [keys EXCEPT !.service = KeysOf("service")]
        /\ ledger_pc = "service_keys" /\ ledger_pc' = "offline_whale" /\ UNCHANGED <<present, index, ledger, out>>
    BY <1>3 DEF load_service_keys
  <2>2. KeysInv'
    <3>1. /\ keys' \in [service : Seq(KeySet), offline_whale : Seq(KeySet), online_whale : Seq(KeySet),
                         offline_fish : Seq(KeySet), stakers : Seq(KeySet)]
          /\ keys'.service = KeysOf("service")
          /\ keys'.offline_whale = keys.offline_whale /\ keys'.online_whale = keys.online_whale
          /\ keys'.offline_fish = keys.offline_fish /\ keys'.stakers = keys.stakers
      BY <1>1, <1>2, <2>1 DEF KeysInv
    <3>2. /\ InOrder(keys'.service, "service") /\ InOrder(keys'.offline_whale, "offline_whale")
          /\ InOrder(keys'.online_whale, "online_whale") /\ InOrder(keys'.offline_fish, "offline_fish")
      BY <1>1, <1>2, <3>1, Zenon DEF KeysInv
    <3>3. ledger_pc' \notin AllLoaded \cup {"stakers"} /\ ledger_pc \in Loading
      BY <2>1 DEF AllLoaded, Loading, Written_pc
    <3> QED
      BY <1>1, <2>1, <3>1, <3>2, <3>3, DirectoryLoaded
  <2> QED BY <1>1, <2>1, <2>2, LoadingStep DEF Loading
<1>4. CASE unknown_service
  <2>1. /\ ledger_pc = "service_keys" /\ ledger_pc' = "raised" /\ UNCHANGED <<present, keys, index, ledger, out>>
    BY <1>4 DEF unknown_service
  <2>2. KeysInv'
    BY <1>1, <2>1 DEF KeysInv, InOrder, Loading, AllLoaded, Written_pc
  <2> QED BY <1>1, <2>1, <2>2, LoadingStep DEF Loading
<1>5. CASE load_offline_whale_keys
  <2>1. /\ \/ keys' = [keys EXCEPT !.offline_whale = KeysOf("offline_whale")] /\ ledger_pc' = "online_whale"
           \/ keys' = keys /\ ledger_pc' = "raised"
        /\ ledger_pc = "offline_whale" /\ UNCHANGED <<present, index, ledger, out>>
    BY <1>5 DEF load_offline_whale_keys, LoadsAll
  <2>2. KeysInv'
    <3>1. CASE keys' = keys
      BY <1>1, <2>1, <3>1, SameKeys DEF Loading, AllLoaded, Written_pc
    <3>2. CASE keys' = [keys EXCEPT !.offline_whale = KeysOf("offline_whale")] /\ ledger_pc' = "online_whale"
        <4>1. /\ keys' \in [service : Seq(KeySet), offline_whale : Seq(KeySet), online_whale : Seq(KeySet),
                             offline_fish : Seq(KeySet), stakers : Seq(KeySet)]
              /\ keys'.offline_whale = KeysOf("offline_whale")
              /\ keys'.service = keys.service /\ keys'.online_whale = keys.online_whale
              /\ keys'.offline_fish = keys.offline_fish /\ keys'.stakers = keys.stakers
          BY <1>1, <1>2, <3>2 DEF KeysInv
        <4>2. /\ InOrder(keys'.service, "service") /\ InOrder(keys'.offline_whale, "offline_whale")
              /\ InOrder(keys'.online_whale, "online_whale") /\ InOrder(keys'.offline_fish, "offline_fish")
          BY <1>1, <1>2, <4>1, Zenon DEF KeysInv
        <4>3. ledger_pc' \notin AllLoaded \cup {"stakers"} /\ ledger_pc \in Loading
          BY <3>2, <2>1 DEF AllLoaded, Loading, Written_pc
        <4> QED
          BY <1>1, <2>1, <4>1, <4>2, <4>3, DirectoryLoaded
    <3> QED BY <2>1, <3>1, <3>2
  <2> QED BY <1>1, <2>1, <2>2, LoadingStep DEF Loading
<1>6. CASE load_online_whale_keys
  <2>1. /\ \/ keys' = [keys EXCEPT !.online_whale = KeysOf("online_whale")] /\ ledger_pc' = "offline_fish"
           \/ keys' = keys /\ ledger_pc' = "raised"
        /\ ledger_pc = "online_whale" /\ UNCHANGED <<present, index, ledger, out>>
    BY <1>6 DEF load_online_whale_keys, LoadsAll
  <2>2. KeysInv'
    <3>1. CASE keys' = keys
      BY <1>1, <2>1, <3>1, SameKeys DEF Loading, AllLoaded, Written_pc
    <3>2. CASE keys' = [keys EXCEPT !.online_whale = KeysOf("online_whale")] /\ ledger_pc' = "offline_fish"
        <4>1. /\ keys' \in [service : Seq(KeySet), offline_whale : Seq(KeySet), online_whale : Seq(KeySet),
                             offline_fish : Seq(KeySet), stakers : Seq(KeySet)]
              /\ keys'.online_whale = KeysOf("online_whale")
              /\ keys'.service = keys.service /\ keys'.offline_whale = keys.offline_whale
              /\ keys'.offline_fish = keys.offline_fish /\ keys'.stakers = keys.stakers
          BY <1>1, <1>2, <3>2 DEF KeysInv
        <4>2. /\ InOrder(keys'.service, "service") /\ InOrder(keys'.offline_whale, "offline_whale")
              /\ InOrder(keys'.online_whale, "online_whale") /\ InOrder(keys'.offline_fish, "offline_fish")
          BY <1>1, <1>2, <4>1, Zenon DEF KeysInv
        <4>3. ledger_pc' \notin AllLoaded \cup {"stakers"} /\ ledger_pc \in Loading
          BY <3>2, <2>1 DEF AllLoaded, Loading, Written_pc
        <4> QED
          BY <1>1, <2>1, <4>1, <4>2, <4>3, DirectoryLoaded
    <3> QED BY <2>1, <3>1, <3>2
  <2> QED BY <1>1, <2>1, <2>2, LoadingStep DEF Loading
<1>7. CASE load_offline_fish_keys
  <2>1. /\ \/ /\ keys' = [keys EXCEPT !.offline_fish = KeysOf("offline_fish")] /\ ledger_pc' = "stakers"
              /\ num_fish_accounts <= present["offline_fish"]
           \/ keys' = keys /\ ledger_pc' = "raised"
        /\ ledger_pc = "offline_fish" /\ UNCHANGED <<present, index, ledger, out>>
    BY <1>1, <1>7 DEF load_offline_fish_keys, LoadsAll, Directories
  <2>2. Len(KeysOf("offline_fish")) = present["offline_fish"] /\ present["offline_fish"] \in Nat
    BY <1>1, <1>2 DEF Directories
  <2>3. KeysInv'
    <3>1. CASE keys' = keys /\ ledger_pc' = "raised"
      BY <1>1, <2>1, <3>1, SameKeys DEF Loading, AllLoaded, Written_pc
    <3>2. CASE /\ keys' = [keys EXCEPT !.offline_fish = KeysOf("offline_fish")] /\ ledger_pc' = "stakers"
               /\ num_fish_accounts <= present["offline_fish"]
        <4>1. /\ keys' \in [service : Seq(KeySet), offline_whale : Seq(KeySet), online_whale : Seq(KeySet),
                             offline_fish : Seq(KeySet), stakers : Seq(KeySet)]
              /\ keys'.offline_fish = KeysOf("offline_fish")
              /\ keys'.service = keys.service /\ keys'.offline_whale = keys.offline_whale
              /\ keys'.online_whale = keys.online_whale /\ keys'.stakers = keys.stakers
          BY <1>1, <1>2, <3>2 DEF KeysInv
        <4>2. /\ InOrder(keys'.service, "service") /\ InOrder(keys'.offline_whale, "offline_whale")
              /\ InOrder(keys'.online_whale, "online_whale") /\ InOrder(keys'.offline_fish, "offline_fish")
          BY <1>1, <1>2, <4>1, Zenon DEF KeysInv
        <4>3. num_fish_accounts <= Len(keys'.offline_fish) /\ ledger_pc \in Loading
          BY <2>1, <2>2, <3>2, <4>1 DEF Loading
        <4> QED
          BY <1>1, <2>1, <4>1, <4>2, <4>3, DirectoryLoaded
    <3> QED BY <2>1, <3>1, <3>2
  <2> QED BY <1>1, <2>1, <2>3, LoadingStep DEF Loading
<1> QED BY <1>3, <1>4, <1>5, <1>6, <1>7

\* The stakers, of the csv or of the directory of online fish.
LEMMA StakersLoad ==
  ASSUME LedgerInv, RowsInv,
         load_staker_row \/ short_row \/ load_stakers_csv \/ load_online_fish_keys
  PROVE  LedgerInv'
<1> USE GenesisLedgerAssumption DEF GenesisLedgerAssumption
<1>1. /\ present \in [Directories -> Nat] /\ index \in Nat \ {0} /\ KeysInv
  BY DEF LedgerInv
<1>2. CASE load_staker_row
  <2>1. /\ ledger_pc = "stakers" /\ ledger_pc' = "stakers" /\ index <= num_fish_accounts /\ index' = index + 1
        /\ \/ csv[index] # NotAKey /\ keys' = [keys EXCEPT !.stakers = Append(keys.stakers, csv[index])]
           \/ keys' = keys
        /\ csv # NoCsv /\ index <= Len(csv) /\ UNCHANGED <<present, ledger, out>>
    BY <1>2 DEF load_staker_row
  <2>2. KeysInv'
    <3>1. CASE keys' = keys
      BY <1>1, <2>1, <3>1, SameKeys DEF Loading
    <3>2. CASE csv[index] # NotAKey /\ keys' = [keys EXCEPT !.stakers = Append(keys.stakers, csv[index])]
      <4> PICK k : k = csv[index]
        OBVIOUS
      <4> PICK s : s = keys.stakers
        OBVIOUS
      <4> PICK t : t = Append(s, k)
        OBVIOUS
      <4>1. k \in KeySet /\ k # NoDelegate
        <5>1. csv \in Seq(RowKey \cup {NotAKey}) /\ index \in DOMAIN csv
          BY <1>1, <2>1 DEF RowsInv
        <5>2. k \in RowKey
          BY <3>2, <5>1
        <5> QED BY <3>2, <5>2 DEF NoDelegate, KeySet, Kinds, Directories
      <4>2. /\ s \in Seq(KeySet) /\ Len(s) < index /\ Len(s) <= num_fish_accounts
            /\ \A m \in DOMAIN s : s[m] # NoDelegate
        BY <1>1, <2>1 DEF KeysInv, Loading
      <4>3. /\ t \in Seq(KeySet) /\ Len(t) = Len(s) + 1 /\ DOMAIN t = DOMAIN s \cup {Len(s) + 1}
            /\ \A m \in DOMAIN s : t[m] = s[m]
            /\ t[Len(s) + 1] = k /\ Len(s) \in Nat
        BY <4>1, <4>2
      <4>4. Len(t) < index' /\ Len(t) <= num_fish_accounts
        BY <1>1, <2>1, <4>2, <4>3
      <4>5. \A m \in DOMAIN t : t[m] # NoDelegate
        BY <4>1, <4>2, <4>3
      <4>6. keys' = [keys EXCEPT !.stakers = t] /\ ledger_pc \in AllLoaded \cup {"stakers"}
        BY <2>1, <3>2
      <4> QED BY <1>1, <4>3, <4>4, <4>5, <4>6, StakersReplaced
    <3> QED BY <2>1, <3>1, <3>2
  <2> QED BY <1>1, <2>1, <2>2, LoadingStep DEF Loading
<1>3. CASE short_row \/ load_stakers_csv
  <2>1. /\ ledger_pc = "stakers" /\ ledger_pc' \in {"raised", "service_accounts"}
        /\ UNCHANGED <<present, keys, index, ledger, out>>
    BY <1>3 DEF short_row, load_stakers_csv
  <2>2. KeysInv'
    BY <1>1, <2>1 DEF KeysInv, InOrder, Loading, AllLoaded, Written_pc
  <2> QED BY <1>1, <2>1, <2>2, LoadingStep DEF Loading
<1>4. CASE load_online_fish_keys
  <2>1. /\ ledger_pc = "stakers" /\ UNCHANGED <<present, index, ledger, out>>
        /\ \/ /\ keys' = [keys EXCEPT !.stakers =
                            [i \in 1..Min({num_fish_accounts, present["online_fish"]}) |-> Key("online_fish", i)]]
              /\ ledger_pc' = "service_accounts"
           \/ keys' = keys /\ ledger_pc' = "raised"
    BY <1>4 DEF load_online_fish_keys
  <2>2. KeysInv'
    <3>1. CASE keys' = keys /\ ledger_pc' = "raised"
      BY <1>1, <2>1, <3>1 DEF KeysInv, InOrder, Loading, AllLoaded, Written_pc
    <3>2. CASE /\ keys' = [keys EXCEPT !.stakers =
                            [i \in 1..Min({num_fish_accounts, present["online_fish"]}) |-> Key("online_fish", i)]]
               /\ ledger_pc' = "service_accounts"
      <4> PICK p : p = present["online_fish"]
        OBVIOUS
      <4> PICK n : n = Min({num_fish_accounts, p})
        OBVIOUS
      <4>1. p \in Nat
        BY <1>1 DEF Directories
      <4>2. \E x \in {num_fish_accounts, p} : \A y \in {num_fish_accounts, p} : x <= y
        BY <4>1
      <4>3. n \in Nat /\ n <= num_fish_accounts
        BY <4>1, <4>2 DEF Min
      <4> PICK t : t = [i \in 1..n |-> Key("online_fish", i)]
        OBVIOUS
      <4>4. "online_fish" \in Kinds
        BY DEF Kinds
      <4>5. t \in Seq(KeySet) /\ Len(t) = n /\ DOMAIN t = 1..n /\ InOrder(t, "online_fish")
        BY <4>3, <4>4, NumberedKeys
      <4>6. \A m \in DOMAIN t : t[m] # NoDelegate
        BY <4>5 DEF Key, InOrder, NoDelegate, NotAKey
      <4>7. keys' = [keys EXCEPT !.stakers = t]
        BY <3>2
      <4>8. ledger_pc' \notin Loading /\ ledger_pc \in AllLoaded \cup {"stakers"}
        BY <2>1, <3>2 DEF Loading
      <4> QED BY <1>1, <4>3, <4>5, <4>6, <4>7, <4>8, StakersReplaced
    <3> QED BY <2>1, <3>1, <3>2
  <2> QED BY <1>1, <2>1, <2>2, LoadingStep DEF Loading
<1> QED BY <1>2, <1>3, <1>4

\* Accounts of services: nobody is delegated to.
LEMMA ServiceLedger ==
  ASSUME NEW s \in Seq(KeySet), InOrder(s, "service"),
         NEW t, t = [n \in DOMAIN s |-> Account(s[n], service_balance, NoDelegate)], NEW st
  PROVE  t \in Seq(AccountSet) /\ Closed(st, t) /\ \A n \in DOMAIN t : t[n].pk.kind = "service"
<1>1. NoDelegate \in KeySet /\ service_balance \in Balances
  BY DEF NoDelegate, NotAKey, Key, KeySet, Kinds, Balances
<1>2. \A n \in DOMAIN s : s[n] \in KeySet
  OBVIOUS
<1>3. \A n \in DOMAIN s : Account(s[n], service_balance, NoDelegate) \in AccountSet
  BY <1>1, <1>2 DEF Account, AccountSet
<1>4. DOMAIN s = 1..Len(s) /\ Len(s) \in Nat
  OBVIOUS
<1>5. t \in Seq(AccountSet) /\ DOMAIN t = DOMAIN s
  BY <1>3, <1>4
<1>6. ASSUME NEW n \in DOMAIN t
      PROVE  t[n].pk = s[n] /\ t[n].delegate = NoDelegate /\ s[n] = Key("service", n)
  BY <1>5 DEF Account, InOrder
<1>7. ASSUME NEW n \in DOMAIN t PROVE t[n].pk.kind = "service" /\ t[n].pk.i = n
  <2>1. t[n].pk = Key("service", n)
    BY <1>6
  <2> QED BY <2>1 DEF Key
<1>8. ASSUME NEW n \in DOMAIN t, NEW m \in DOMAIN t, n # m PROVE t[n].pk # t[m].pk
  <2>1. t[n].pk.i = n /\ t[m].pk.i = m
    BY <1>7
  <2> QED BY <1>8, <2>1
<1>9. Closed(st, t)
  BY <1>6, <1>8 DEF Closed
<1> QED BY <1>5, <1>7, <1>9

\* The account of each service.
LEMMA ServicesHaveAccounts ==
  ASSUME LedgerInv, service_accounts
  PROVE  LedgerInv'
<1>1. /\ KeysInv /\ ledger = <<>> /\ ~Written /\ present \in [Directories -> Nat]
      /\ index' = 1 /\ ledger_pc = "service_accounts" /\ ledger_pc' = "fish_accounts"
      /\ UNCHANGED <<present, keys, out>>
      /\ ledger' = ledger \o [i \in DOMAIN keys.service |-> Account(keys.service[i], service_balance, NoDelegate)]
  BY DEF service_accounts, Appends, LedgerInv, Written_pc
<1>2. PICK t : t = [n \in DOMAIN keys.service |-> Account(keys.service[n], service_balance, NoDelegate)]
  OBVIOUS
<1>3. keys.service \in Seq(KeySet) /\ InOrder(keys.service, "service") /\ keys.stakers \in Seq(KeySet)
  BY <1>1 DEF KeysInv
<1>4. t \in Seq(AccountSet) /\ Closed(keys.stakers, t) /\ \A n \in DOMAIN t : t[n].pk.kind = "service"
  BY <1>2, <1>3, ServiceLedger
<1>5. ledger' = t
  BY <1>1, <1>2, <1>4
<1>6. ~Written'
  BY <1>1 DEF Written
<1>7. ledger_pc' \in AllLoaded /\ ledger_pc' \notin Loading /\ ledger_pc' \notin Written_pc
  BY <1>1 DEF AllLoaded, Loading, Written_pc
<1>8. KeysInv'
  <2>1. ledger_pc \in AllLoaded
    BY <1>1 DEF AllLoaded
  <2> QED BY <1>1, <1>7, <2>1 DEF KeysInv, InOrder
<1>9. \A n \in DOMAIN ledger' : Came(ledger[n].pk)'
  BY <1>1, <1>4, <1>5 DEF Came
<1>10. Closed(keys.stakers, ledger)'
  BY <1>1, <1>4, <1>5, Zenon
<1>11. \A m \in DOMAIN keys'.stakers : ~(m < index')
  <2>1. \A m \in DOMAIN keys.stakers : m \in Nat /\ m >= 1
    BY <1>3
  <2> QED BY <1>1, <2>1
<1>12. ledger' \in Seq(AccountSet) /\ index' \in Nat \ {0} /\ present' \in [Directories -> Nat]
  BY <1>1, <1>4, <1>5
<1> QED BY <1>1, <1>6, <1>7, <1>8, <1>9, <1>10, <1>11, <1>12 DEF LedgerInv

\* An account of a ledger stays in it when two are put at its end.
LEMMA FundedStays ==
  ASSUME NEW s \in Seq(AccountSet), NEW a \in AccountSet, NEW b \in AccountSet, NEW pk, Funded(s, pk)
  PROVE  Funded(s \o <<a, b>>, pk)
<1> PICK t : t = s \o <<a, b>>
  OBVIOUS
<1>1. DOMAIN s \subseteq DOMAIN t /\ \A i \in DOMAIN s : t[i] = s[i]
  BY PairAtEnd
<1>2. PICK i, j \in DOMAIN s : /\ s[i].pk = pk /\ s[i].balance = fish_online_balance
                               /\ s[j].delegate = pk /\ s[j].balance = fish_offline_balance
  BY DEF Funded
<1>3. Funded(t, pk)
  BY <1>1, <1>2 DEF Funded
<1> QED BY <1>3

\* What the accounts of an offline key and of its delegate, both new or read
\* twice, add to a ledger.
LEMMA PairMade ==
  ASSUME NEW st, NEW s \in Seq(AccountSet), Closed(st, s),
         NEW offline \in KeySet, NEW online \in KeySet, NEW b1 \in Balances, NEW b2 \in Balances,
         offline = online => Twice(st, online), online # NoDelegate,
         NewKey(st, s, offline), NewKey(st, s, online),
         NEW t, t = s \o <<Account(offline, b1, online), Account(online, b2, NoDelegate)>>
  PROVE  /\ t \in Seq(AccountSet) /\ Closed(st, t) /\ Extends(s, t, offline, online)
         /\ b1 = fish_offline_balance /\ b2 = fish_online_balance => Funded(t, online)
<1>0. NoDelegate \in KeySet
  BY DEF NoDelegate, NotAKey, Key, KeySet, Kinds
<1>1. PICK a : a = Account(offline, b1, online)
  OBVIOUS
<1>2. PICK b : b = Account(online, b2, NoDelegate)
  OBVIOUS
<1>3. /\ a \in AccountSet /\ a.pk = offline /\ a.delegate = online /\ a.balance = b1
      /\ b \in AccountSet /\ b.pk = online /\ b.balance = b2
  BY <1>0, <1>1, <1>2 DEF Account, AccountSet
<1>4. t = s \o <<a, b>>
  BY <1>1, <1>2
<1>5. /\ DOMAIN t = DOMAIN s \cup {Len(s) + 1, Len(s) + 2} /\ \A i \in DOMAIN s : t[i] = s[i]
      /\ t[Len(s) + 1] = a /\ t[Len(s) + 2] = b
  BY <1>3, <1>4, PairAtEnd
<1>6. t \in Seq(AccountSet) /\ Closed(st, t)
  BY DelegatesStayClosed, Zenon
<1>7. \A n \in DOMAIN t : t[n].pk = offline \/ t[n].pk = online \/ \E m \in DOMAIN s : t[n].pk = s[m].pk
  BY <1>3, <1>5
<1>8. \A pk \in KeySet : Funded(s, pk) => Funded(t, pk)
  BY <1>3, <1>4, FundedStays
<1>9. b1 = fish_offline_balance /\ b2 = fish_online_balance => Funded(t, online)
  BY <1>3, <1>5 DEF Funded
<1> QED BY <1>6, <1>7, <1>8, <1>9 DEF Extends

\* The key of an account is a key.
LEMMA AccountHasKey ==
  ASSUME NEW s \in Seq(AccountSet), NEW n \in DOMAIN s
  PROVE  s[n].pk \in KeySet /\ s[n].pk.i \in Nat
<1>1. s[n] \in AccountSet
  OBVIOUS
<1>2. s[n].pk \in KeySet
  BY <1>1 DEF AccountSet
<1> QED BY <1>2 DEF KeySet

\* The two accounts of a fish and its staker.
LEMMA FishHaveAccounts ==
  ASSUME LedgerInv, fish_accounts
  PROVE  LedgerInv'
<1>1. PICK offline, online : offline = keys.offline_fish[index] /\ online = keys.stakers[index]
  OBVIOUS
<1>2. /\ KeysInv /\ index \in Nat \ {0} /\ ledger \in Seq(AccountSet) /\ ~Written
      /\ present \in [Directories -> Nat]
      /\ ledger_pc = "fish_accounts" /\ ledger_pc' = "fish_accounts"
      /\ index <= Len(keys.offline_fish) /\ index <= Len(keys.stakers) /\ index' = index + 1
      /\ UNCHANGED <<present, keys, out>>
      /\ ledger' = ledger \o <<Account(offline, fish_offline_balance, online),
                               Account(online, fish_online_balance, NoDelegate)>>
      /\ Closed(keys.stakers, ledger)
  BY <1>1 DEF fish_accounts, Delegates, Appends, LedgerInv, Written_pc
<1>3. /\ keys.offline_fish \in Seq(KeySet) /\ keys.stakers \in Seq(KeySet)
      /\ InOrder(keys.offline_fish, "offline_fish")
      /\ \A n \in DOMAIN keys.stakers : keys.stakers[n] # NoDelegate
  BY <1>2 DEF KeysInv
<1>4. /\ index \in DOMAIN keys.offline_fish /\ index \in DOMAIN keys.stakers
      /\ DOMAIN keys.stakers \subseteq Nat
  BY <1>2, <1>3
<1>5. /\ offline = Key("offline_fish", index) /\ offline \in KeySet
      /\ online \in KeySet /\ online # NoDelegate
  BY <1>1, <1>3, <1>4 DEF InOrder
<1>6. offline.kind = "offline_fish" /\ offline.i = index
  BY <1>5 DEF Key
<1>7. ASSUME NEW n \in DOMAIN keys.stakers,
             keys.stakers[n].kind \in {"service", "offline_fish"} \/ (n # index /\ keys.stakers[n] = online)
      PROVE  Twice(keys.stakers, keys.stakers[n])
  BY <1>1, <1>4, <1>7 DEF Twice, Directories
<1>8. ASSUME NEW n \in DOMAIN ledger
      PROVE  \/ ledger[n].pk.kind = "service"
             \/ ledger[n].pk.kind = "offline_fish" /\ ledger[n].pk.i < index
             \/ \E m \in DOMAIN keys.stakers : m < index /\ keys.stakers[m] = ledger[n].pk
  <2>1. Came(ledger[n].pk)
    BY DEF LedgerInv
  <2> QED BY <1>2, <2>1 DEF Came, Written_pc
<1>9. ASSUME NEW n \in DOMAIN ledger
      PROVE  /\ ledger[n].pk = offline => Twice(keys.stakers, offline)
             /\ ledger[n].pk = online => Twice(keys.stakers, online)
  <2>1. CASE ledger[n].pk.kind = "service"
    BY <1>1, <1>4, <1>6, <1>7, <2>1
  <2>2. CASE ledger[n].pk.kind = "offline_fish" /\ ledger[n].pk.i < index
    <3>1. ledger[n].pk.i # index
      BY <1>2, <2>2
    <3> QED BY <1>1, <1>4, <1>6, <1>7, <2>2, <3>1
  <2>3. CASE \E m \in DOMAIN keys.stakers : m < index /\ keys.stakers[m] = ledger[n].pk
    <3>1. PICK m \in DOMAIN keys.stakers : m < index /\ keys.stakers[m] = ledger[n].pk
      BY <2>3
    <3>2. m # index
      BY <1>2, <3>1
    <3> QED BY <1>6, <1>7, <3>1, <3>2
  <2> QED BY <1>8, <2>1, <2>2, <2>3
<1>10. fish_offline_balance \in Balances /\ fish_online_balance \in Balances
  BY DEF Balances
<1>11. PICK t : t = ledger'
  OBVIOUS
<1>12. /\ t \in Seq(AccountSet) /\ Closed(keys.stakers, t)
       /\ \A n \in DOMAIN t : t[n].pk = offline \/ t[n].pk = online \/ \E m \in DOMAIN ledger : t[n].pk = ledger[m].pk
       /\ \A pk \in KeySet : Funded(ledger, pk) => Funded(t, pk)
       /\ Funded(t, online)
  <2>1. PICK s : s = ledger
    OBVIOUS
  <2>2. /\ s \in Seq(AccountSet) /\ Closed(keys.stakers, s)
        /\ NewKey(keys.stakers, s, offline) /\ NewKey(keys.stakers, s, online)
    BY <1>2, <1>9, <2>1 DEF NewKey
  <2>3. t = s \o <<Account(offline, fish_offline_balance, online), Account(online, fish_online_balance, NoDelegate)>>
    BY <1>2, <1>11, <2>1
  <2>4. /\ offline \in KeySet /\ online \in KeySet /\ online # NoDelegate
        /\ offline = online => Twice(keys.stakers, online)
    BY <1>1, <1>4, <1>5, <1>6, <1>7
  <2>5. t \in Seq(AccountSet) /\ Closed(keys.stakers, t) /\ Extends(s, t, offline, online) /\ Funded(t, online)
    BY <1>10, <2>2, <2>3, <2>4, PairMade
  <2> QED BY <2>1, <2>5 DEF Extends
<1>13. ASSUME NEW n \in DOMAIN t
       PROVE  \/ t[n].pk.kind = "service"
              \/ t[n].pk.kind = "offline_fish" /\ t[n].pk.i < index + 1
              \/ \E m \in DOMAIN keys.stakers : m < index + 1 /\ keys.stakers[m] = t[n].pk
  <2>1. CASE t[n].pk = offline
    BY <1>2, <1>6, <2>1
  <2>2. CASE t[n].pk = online
    BY <1>1, <1>2, <1>4, <2>2
  <2>3. CASE \E m \in DOMAIN ledger : t[n].pk = ledger[m].pk
    <3>1. PICK m \in DOMAIN ledger : t[n].pk = ledger[m].pk
      BY <2>3
    <3>2. ledger[m].pk.i \in Nat
      BY <1>2, AccountHasKey
    <3>3. CASE ledger[m].pk.kind = "service"
      BY <3>1, <3>3, Zenon
    <3>4. CASE ledger[m].pk.kind = "offline_fish" /\ ledger[m].pk.i < index
      <4>1. ledger[m].pk.i < index + 1
        BY <1>2, <3>2, <3>4
      <4> QED BY <3>1, <3>4, <4>1, Zenon
    <3>5. CASE \E j \in DOMAIN keys.stakers : j < index /\ keys.stakers[j] = ledger[m].pk
      <4>1. PICK j \in DOMAIN keys.stakers : j < index /\ keys.stakers[j] = ledger[m].pk
        BY <3>5
      <4>2. j < index + 1
        BY <1>2, <1>4, <4>1
      <4> QED BY <3>1, <4>1, <4>2, Zenon
    <3> QED BY <1>8, <3>3, <3>4, <3>5, Zenon
  <2> QED BY <1>12, <2>1, <2>2, <2>3
<1>14. \A n \in DOMAIN ledger' : Came(ledger[n].pk)'
  BY <1>2, <1>11, <1>13 DEF Came
<1>15. ASSUME NEW n \in DOMAIN keys.stakers, n < index + 1 PROVE Funded(t, keys.stakers[n])
  <2>1. CASE n = index
    BY <1>1, <1>12, <2>1
  <2>2. CASE n < index
    <3>1. Funded(ledger, keys.stakers[n])
      BY <1>2, <2>2 DEF LedgerInv
    <3> QED BY <1>3, <1>12, <3>1
  <2>3. n \in Nat
    BY <1>4
  <2>4. n = index \/ n < index
    BY <1>2, <1>15, <2>3
  <2> QED BY <2>1, <2>2, <2>4
<1>16. ledger_pc' \in AllLoaded /\ ledger_pc' \notin Loading /\ ledger_pc' \notin Written_pc
  BY <1>2 DEF AllLoaded, Loading, Written_pc
<1>17. KeysInv'
  BY <1>2, <1>16 DEF KeysInv, InOrder
<1>18. ~Written'
  BY <1>2 DEF Written
<1>19. Closed(keys.stakers, ledger)'
  BY <1>2, <1>11, <1>12, Zenon
<1>20. \A n \in DOMAIN keys'.stakers : n < index' => Funded(ledger, keys.stakers[n])'
  <2>1. \A n \in DOMAIN keys.stakers : n < index + 1 => Funded(ledger', keys.stakers[n])
    BY <1>11, <1>15, Zenon
  <2> QED BY <1>2, <2>1, Zenon
<1>21. ledger' \in Seq(AccountSet) /\ index' \in Nat \ {0} /\ present' \in [Directories -> Nat]
  BY <1>2, <1>11, <1>12
<1> QED BY <1>2, <1>14, <1>16, <1>17, <1>18, <1>19, <1>20, <1>21 DEF LedgerInv

\* The two accounts of a whale.
LEMMA WhalesHaveAccounts ==
  ASSUME LedgerInv, whale_accounts
  PROVE  LedgerInv'
<1>1. PICK offline, online : offline = keys.offline_whale[index] /\ online = keys.online_whale[index]
  OBVIOUS
<1>2. /\ KeysInv /\ index \in Nat \ {0} /\ ledger \in Seq(AccountSet) /\ ~Written
      /\ present \in [Directories -> Nat]
      /\ ledger_pc = "whale_accounts" /\ ledger_pc' = "whale_accounts"
      /\ index <= Len(keys.offline_whale) /\ index <= Len(keys.online_whale) /\ index' = index + 1
      /\ UNCHANGED <<present, keys, out>>
      /\ ledger' = ledger \o <<Account(offline, whale_offline_balance, online),
                               Account(online, whale_online_balance, NoDelegate)>>
      /\ Closed(keys.stakers, ledger)
  BY <1>1 DEF whale_accounts, Delegates, Appends, LedgerInv, Written_pc
<1>3. /\ keys.offline_whale \in Seq(KeySet) /\ keys.online_whale \in Seq(KeySet) /\ keys.stakers \in Seq(KeySet)
      /\ InOrder(keys.offline_whale, "offline_whale") /\ InOrder(keys.online_whale, "online_whale")
  BY <1>2 DEF KeysInv
<1>4. index \in DOMAIN keys.offline_whale /\ index \in DOMAIN keys.online_whale
  BY <1>2, <1>3
<1>5. /\ offline = Key("offline_whale", index) /\ offline \in KeySet
      /\ online = Key("online_whale", index) /\ online \in KeySet
  BY <1>1, <1>3, <1>4 DEF InOrder
<1>6. offline.kind = "offline_whale" /\ offline.i = index /\ online.kind = "online_whale" /\ online.i = index
  BY <1>5 DEF Key
<1>7. offline # online /\ online # NoDelegate
  BY <1>6 DEF NoDelegate, NotAKey, Key
<1>8. ASSUME NEW n \in DOMAIN ledger
      PROVE  \/ ledger[n].pk.kind \in {"service", "offline_fish"}
             \/ \E m \in DOMAIN keys.stakers : keys.stakers[m] = ledger[n].pk
             \/ ledger[n].pk.kind \in {"offline_whale", "online_whale"} /\ ledger[n].pk.i < index
  <2>1. Came(ledger[n].pk)
    BY DEF LedgerInv
  <2> QED BY <1>2, <2>1 DEF Came, Written_pc
<1>9. ASSUME NEW n \in DOMAIN ledger
      PROVE  /\ ledger[n].pk = offline => Twice(keys.stakers, offline)
             /\ ledger[n].pk = online => Twice(keys.stakers, online)
  <2>1. CASE ledger[n].pk.kind \in {"service", "offline_fish"}
    BY <1>6, <2>1
  <2>2. CASE ledger[n].pk.i < index
    <3>1. ledger[n].pk.i # index
      BY <1>2, <2>2
    <3> QED BY <1>6, <3>1
  <2>3. CASE \E m \in DOMAIN keys.stakers : keys.stakers[m] = ledger[n].pk
    BY <1>6, <2>3 DEF Twice, Directories
  <2> QED BY <1>8, <2>1, <2>2, <2>3
<1>10. whale_offline_balance \in Balances /\ whale_online_balance \in Balances
  BY DEF Balances
<1>11. PICK t : t = ledger'
  OBVIOUS
<1>12. /\ t \in Seq(AccountSet) /\ Closed(keys.stakers, t)
       /\ \A n \in DOMAIN t : t[n].pk = offline \/ t[n].pk = online \/ \E m \in DOMAIN ledger : t[n].pk = ledger[m].pk
       /\ \A pk \in KeySet : Funded(ledger, pk) => Funded(t, pk)
  <2>1. PICK s : s = ledger
    OBVIOUS
  <2>2. /\ s \in Seq(AccountSet) /\ Closed(keys.stakers, s)
        /\ NewKey(keys.stakers, s, offline) /\ NewKey(keys.stakers, s, online)
    BY <1>2, <1>9, <2>1 DEF NewKey
  <2>3. t = s \o <<Account(offline, whale_offline_balance, online), Account(online, whale_online_balance, NoDelegate)>>
    BY <1>2, <1>11, <2>1
  <2>4. offline \in KeySet /\ online \in KeySet /\ offline # online /\ online # NoDelegate
    BY <1>5, <1>7
  <2>5. t \in Seq(AccountSet) /\ Closed(keys.stakers, t) /\ Extends(s, t, offline, online)
    BY <1>10, <2>2, <2>3, <2>4, PairMade
  <2> QED BY <2>1, <2>5 DEF Extends
<1>13. ASSUME NEW n \in DOMAIN t
       PROVE  \/ t[n].pk.kind \in {"service", "offline_fish"}
              \/ \E m \in DOMAIN keys.stakers : keys.stakers[m] = t[n].pk
              \/ t[n].pk.kind \in {"offline_whale", "online_whale"} /\ t[n].pk.i < index + 1
  <2>1. CASE t[n].pk = offline \/ t[n].pk = online
    BY <1>2, <1>6, <2>1
  <2>3. CASE \E m \in DOMAIN ledger : t[n].pk = ledger[m].pk
    <3>1. PICK m \in DOMAIN ledger : t[n].pk = ledger[m].pk
      BY <2>3
    <3>2. ledger[m].pk.i \in Nat
      BY <1>2, AccountHasKey
    <3> QED BY <1>2, <1>8, <3>1, <3>2
  <2> QED BY <1>12, <2>1, <2>3
<1>14. \A n \in DOMAIN ledger' : Came(ledger[n].pk)'
  BY <1>2, <1>11, <1>13 DEF Came
<1>15. ASSUME NEW n \in DOMAIN keys.stakers PROVE Funded(t, keys.stakers[n])
  <2>1. Funded(ledger, keys.stakers[n])
    BY <1>2 DEF LedgerInv
  <2> QED BY <1>3, <1>12, <2>1
<1>16. ledger_pc' \in AllLoaded /\ ledger_pc' \notin Loading /\ ledger_pc' \notin Written_pc
  BY <1>2 DEF AllLoaded, Loading, Written_pc
<1>17. KeysInv'
  BY <1>2, <1>16 DEF KeysInv, InOrder
<1>18. ~Written'
  BY <1>2 DEF Written
<1>19. Closed(keys.stakers, ledger)'
  BY <1>2, <1>11, <1>12, Zenon
<1>20. \A n \in DOMAIN keys'.stakers : Funded(ledger, keys.stakers[n])'
  <2>1. \A n \in DOMAIN keys.stakers : Funded(ledger', keys.stakers[n])
    BY <1>11, <1>15, Zenon
  <2> QED BY <1>2, <2>1, Zenon
<1>21. ledger' \in Seq(AccountSet) /\ index' \in Nat \ {0} /\ present' \in [Directories -> Nat]
  BY <1>2, <1>11, <1>12
<1> QED BY <1>2, <1>14, <1>16, <1>17, <1>18, <1>19, <1>20, <1>21 DEF LedgerInv

\* The ends of the loops.  When that of the fish ends, every staker has had its
\* turn: there are no fewer fish than stakers.
LEMMA LoopsEnd ==
  ASSUME LedgerInv, fish_accounts_end \/ whale_accounts_end
  PROVE  LedgerInv'
<1>1. /\ KeysInv /\ index \in Nat \ {0} /\ ledger \in Seq(AccountSet) /\ Closed(keys.stakers, ledger)
      /\ present \in [Directories -> Nat] /\ index' \in Nat \ {0}
      /\ ledger_pc \in {"fish_accounts", "whale_accounts"}
      /\ ledger_pc' \in {"whale_accounts", "genesis_ledger.json"}
      /\ ledger_pc' = "whale_accounts" => ledger_pc = "fish_accounts"
      /\ UNCHANGED <<present, keys, out, ledger>>
  BY DEF fish_accounts_end, whale_accounts_end, LedgerInv
<1>2. ledger_pc \in AllLoaded /\ ledger_pc \notin Written_pc /\ ledger_pc' \in AllLoaded
      /\ ledger_pc' \notin Loading /\ ledger_pc' \notin Written_pc
  BY <1>1 DEF AllLoaded, Loading, Written_pc
<1>3. ~Written'
  BY <1>1, <1>2 DEF LedgerInv, Written
<1>4. KeysInv'
  BY <1>1, <1>2 DEF KeysInv, InOrder
<1>5. ASSUME NEW n \in DOMAIN keys.stakers PROVE Funded(ledger, keys.stakers[n])
  <2>1. CASE whale_accounts_end
    BY <2>1 DEF LedgerInv, whale_accounts_end
  <2>2. CASE fish_accounts_end
    <3>1. /\ ledger_pc = "fish_accounts"
          /\ index > Len(keys.offline_fish) \/ index > Len(keys.stakers)
      BY <2>2 DEF fish_accounts_end
    <3>2. /\ keys.stakers \in Seq(KeySet) /\ keys.offline_fish \in Seq(KeySet)
          /\ Len(keys.stakers) <= num_fish_accounts /\ num_fish_accounts <= Len(keys.offline_fish)
      BY <1>1, <1>2 DEF KeysInv
    <3>3. /\ Len(keys.stakers) \in Nat /\ Len(keys.offline_fish) \in Nat /\ num_fish_accounts \in Nat
          /\ n \in Nat /\ n <= Len(keys.stakers)
      BY <3>2, GenesisLedgerAssumption DEF GenesisLedgerAssumption
    <3>4. n < index
      BY <1>1, <3>1, <3>2, <3>3
    <3> QED BY <3>1, <3>4 DEF LedgerInv
  <2> QED BY <2>1, <2>2
<1>6. ASSUME NEW n \in DOMAIN ledger PROVE Came(ledger[n].pk)'
  <2>1. Came(ledger[n].pk)
    BY DEF LedgerInv
  <2>2. CASE ledger_pc' = "genesis_ledger.json"
    BY <2>2 DEF Came
  <2>3. CASE ledger_pc' = "whale_accounts"
    <3>1. ledger_pc = "fish_accounts"
      BY <1>1, <2>3
    <3>2. \/ ledger[n].pk.kind \in {"service", "offline_fish"}
          \/ \E m \in DOMAIN keys.stakers : keys.stakers[m] = ledger[n].pk
      BY <1>2, <2>1, <3>1 DEF Came
    <3> QED BY <1>1, <2>3, <3>2 DEF Came
  <2> QED BY <1>1, <2>2, <2>3
<1>7. Closed(keys.stakers, ledger)' /\ \A n \in DOMAIN ledger' : Came(ledger[n].pk)'
  BY <1>1, <1>6, Zenon
<1>8. \A n \in DOMAIN keys'.stakers : Funded(ledger, keys.stakers[n])'
  BY <1>1, <1>5, Zenon
<1>9. ledger' \in Seq(AccountSet) /\ present' \in [Directories -> Nat]
      /\ ledger_pc' # "service_accounts"
  BY <1>1
<1> QED BY <1>1, <1>2, <1>3, <1>4, <1>7, <1>8, <1>9 DEF LedgerInv

\* The two files.
LEMMA FilesAreWritten ==
  ASSUME LedgerInv, write_ledger \/ write_annotated_ledger
  PROVE  LedgerInv'
<1>1. /\ KeysInv /\ index \in Nat \ {0} /\ ledger \in Seq(AccountSet) /\ Closed(keys.stakers, ledger)
      /\ present \in [Directories -> Nat]
      /\ ledger_pc \in {"genesis_ledger.json", "annotated_ledger.json"}
      /\ ledger_pc' \in {"annotated_ledger.json", "done"}
      /\ UNCHANGED <<present, keys, index, ledger>>
  BY DEF write_ledger, write_annotated_ledger, LedgerInv
<1>2. /\ ledger_pc \in AllLoaded /\ ledger_pc' \in AllLoaded
      /\ ledger_pc' \notin Loading /\ ledger_pc' \in Written_pc /\ ledger_pc' # "service_accounts"
  BY <1>1 DEF AllLoaded, Loading, Written_pc
<1>3. out' = [f \in {"genesis_ledger.json"} |-> ledger]
      \/ out' = [f \in DOMAIN out \cup {"annotated_ledger.json"} |-> ledger]
  BY DEF write_ledger, write_annotated_ledger
<1>4. Written' => Accounts' = ledger'
  BY <1>1, <1>3 DEF Written, Accounts
<1>5. KeysInv'
  BY <1>1, <1>2 DEF KeysInv, InOrder
<1>6. \A n \in DOMAIN keys.stakers : Funded(ledger, keys.stakers[n])
  BY <1>1 DEF LedgerInv, Written_pc
<1>7. Closed(keys.stakers, ledger)' /\ \A n \in DOMAIN keys'.stakers : Funded(ledger, keys.stakers[n])'
  BY <1>1, <1>6, Zenon
<1>8. \A n \in DOMAIN ledger' : Came(ledger[n].pk)'
  BY <1>2 DEF Came
<1> QED BY <1>1, <1>2, <1>4, <1>5, <1>7, <1>8 DEF LedgerInv

\* The csv is only read.
LEMMA RowsStay ==
  /\ LedgerInit => RowsInv
  /\ RowsInv /\ [LedgerNext]_ledgerVars => RowsInv'
<1>1. LedgerInit => RowsInv
  <2> SUFFICES ASSUME csv \in Rows PROVE csv \in Seq(RowKey \cup {NotAKey})
    BY DEF LedgerInit, RowsInv
  <2>1. PICK n \in 0..MaxKeys : csv \in [1..n -> RowKey \cup {NotAKey}]
    BY DEF Rows
  <2>2. n \in Nat
    BY <2>1, GenesisLedgerAssumption
  <2> QED BY <2>1, <2>2
<1>2. [LedgerNext]_ledgerVars => csv' = csv
  BY DEF LedgerNext, ledgerVars, load_service_keys, unknown_service, load_offline_whale_keys,
         load_online_whale_keys, load_offline_fish_keys, LoadsAll, load_staker_row, short_row,
         load_stakers_csv, load_online_fish_keys, service_accounts, fish_accounts,
         fish_accounts_end, whale_accounts, whale_accounts_end, write_ledger, write_annotated_ledger
<1> QED BY <1>1, <1>2 DEF RowsInv

\* The invariant of the command.
LEMMA LedgerInvariant == LedgerSpec => []LedgerInv
<1>1. LedgerInit => LedgerInv /\ RowsInv
  BY LedgerInitially, RowsStay
<1>2. LedgerInv /\ RowsInv /\ [LedgerNext]_ledgerVars => LedgerInv' /\ RowsInv'
  <2> SUFFICES ASSUME LedgerInv, RowsInv, [LedgerNext]_ledgerVars PROVE LedgerInv'
    BY RowsStay
  <2>1. CASE UNCHANGED ledgerVars
    <3>1. UNCHANGED <<present, ledger_pc, keys, index, ledger, out>>
      BY <2>1 DEF ledgerVars
    <3>2. KeysInv' /\ (Written' = Written) /\ (Accounts' = Accounts)
      BY <3>1 DEF LedgerInv, KeysInv, InOrder, Written, Accounts
    <3>3. \A n \in DOMAIN ledger' : Came(ledger[n].pk)'
      BY <3>1 DEF LedgerInv, Came
    <3>4. Closed(keys.stakers, ledger)'
      BY <3>1, Zenon DEF LedgerInv
    <3>5. \A m \in DOMAIN keys'.stakers :
            \/ ledger_pc' = "fish_accounts" /\ m < index'
            \/ ledger_pc' \in {"whale_accounts", "genesis_ledger.json"} \cup Written_pc
            => Funded(ledger, keys.stakers[m])'
      BY <3>1, Zenon DEF LedgerInv
    <3> QED BY <3>1, <3>2, <3>3, <3>4, <3>5 DEF LedgerInv
  <2>2. CASE LedgerNext
    BY <2>2, DirectoriesLoad, StakersLoad, ServicesHaveAccounts, FishHaveAccounts, WhalesHaveAccounts,
       LoopsEnd, FilesAreWritten, Zenon DEF LedgerNext
  <2> QED BY <2>1, <2>2
<1> QED BY <1>1, <1>2, PTL DEF LedgerSpec

\* Whatever the directories and the csv hold, a ledger that is written has an
\* account for each delegate, funds for every staker, and two accounts or two
\* delegations only for a key that is read twice, from the csv and a directory or
\* from two of its rows (generate-local-network-ledger.py, generate_ledger).
THEOREM LedgerAccountsFit ==
  LedgerSpec => [](DelegatesHaveAccounts /\ OneAccountPerKey /\ EveryStakerIsFunded)
<1>1. LedgerInv => DelegatesHaveAccounts /\ OneAccountPerKey /\ EveryStakerIsFunded
  <2> SUFFICES ASSUME LedgerInv, Written
               PROVE  DelegatesHaveAccounts /\ OneAccountPerKey /\ EveryStakerIsFunded
    BY DEF DelegatesHaveAccounts, OneAccountPerKey, EveryStakerIsFunded
  <2>1. ledger_pc \in Written_pc /\ Accounts = ledger /\ Closed(keys.stakers, Accounts)
    BY DEF LedgerInv
  <2>2. \A m \in DOMAIN keys.stakers : Funded(Accounts, keys.stakers[m])
    BY <2>1 DEF LedgerInv
  <2>3. DelegatesHaveAccounts
    BY <2>1, Zenon DEF DelegatesHaveAccounts, HasAccount, Closed
  <2>4. OneAccountPerKey
    <3>1. \A pk : Twice(keys.stakers, pk) => ReadTwice(pk)
      BY DEF Twice, ReadTwice
    <3>2. ASSUME NEW i \in DOMAIN Accounts, NEW j \in DOMAIN Accounts, i # j
          PROVE  /\ Accounts[i].pk = Accounts[j].pk => ReadTwice(Accounts[i].pk)
                 /\ \/ Accounts[i].delegate = NoDelegate \/ Accounts[i].delegate # Accounts[j].delegate
                    \/ ReadTwice(Accounts[i].delegate)
      BY <2>1, <3>1, <3>2 DEF Closed
    <3> QED BY <3>2 DEF OneAccountPerKey
  <2>5. EveryStakerIsFunded
    BY <2>2, Zenon DEF EveryStakerIsFunded, Funded
  <2> QED BY <2>3, <2>4, <2>5
<1> QED BY <1>1, LedgerInvariant, PTL

-----------------------------------------------------------------------------
(* Numbers and their digits. *)

\* The powers of ten.
LEMMA Pow10Is ==
  /\ Pow10[0] = 1
  /\ \A k \in Nat : Pow10[k] \in Nat \ {0} /\ Pow10[k + 1] = 10 * Pow10[k]
<1> DEFINE S == Nat \ {0}
           step == [p \in Nat \X S |-> 10 * p[2]]
           Body(g, k) == IF k = 0 THEN 1 ELSE 10 * g[k - 1]
<1>1. 1 \in S /\ step \in [Nat \X S -> S]
  OBVIOUS
<1>a. PICK g : Solves(g, S, 1, step)
  <2> HIDE DEF S, step
  <2> QED
    BY <1>1, Recursion, Zenon
<1>2. g \in [Nat -> S] /\ g[0] = 1 /\ \A n \in Nat : g[n + 1] = step[<<n, g[n]>>]
  BY <1>a DEF Solves
<1>3. \A n \in Nat : g[n + 1] = 10 * g[n]
  BY <1>2
<1>4. ASSUME NEW k \in Nat PROVE g[k] = Body(g, k)
  <2>1. CASE k = 0
    BY <1>2, <2>1
  <2>2. CASE k # 0
    <3>1. k - 1 \in Nat /\ k - 1 + 1 = k
      BY <2>2
    <3> QED
      BY <1>3, <2>2, <3>1
  <2> QED
    BY <2>1, <2>2
<1>5. g = [k \in Nat |-> Body(g, k)]
  BY <1>2, <1>4
<1>6. Pow10 = CHOOSE h : h = [k \in Nat |-> Body(h, k)]
  BY DEF Pow10
<1>7. Pow10 = [k \in Nat |-> Body(Pow10, k)]
  <2> HIDE DEF Body
  <2> QED
    BY <1>5, <1>6
<1>8. \A k \in Nat : Pow10[k] = IF k = 0 THEN 1 ELSE 10 * Pow10[k - 1]
  BY <1>7
<1>9. Pow10[0] = 1 /\ \A k \in Nat : Pow10[k + 1] = 10 * Pow10[k]
  <2>1. \A k \in Nat : k + 1 \in Nat /\ k + 1 # 0 /\ k + 1 - 1 = k
    OBVIOUS
  <2> QED
    BY <1>8, <2>1
<1>10. PICK P : P = {k \in Nat : Pow10[k] \in S}
  OBVIOUS
<1>b. 0 \in P /\ \A k \in Nat : k \in P => k + 1 \in P
  BY <1>9, <1>10
<1>11. Nat \subseteq P
  BY <1>b, NatAll
<1> QED
  BY <1>9, <1>10, <1>11

\* The values of the prefixes of a sequence of digits.
LEMMA PrefixValuesIs ==
  ASSUME NEW s \in Seq(Nat)
  PROVE  /\ PrefixValues(s)[0] = 0
         /\ \A i \in 0..Len(s) : PrefixValues(s)[i] \in Nat
         /\ \A i \in 0..(Len(s) - 1) :
              PrefixValues(s)[i + 1] = 10 * PrefixValues(s)[i] + s[i + 1]
<1> DEFINE step == [p \in Nat \X Nat |-> IF p[1] < Len(s) THEN 10 * p[2] + s[p[1] + 1] ELSE 0]
           Body(g, i) == IF i = 0 THEN 0 ELSE 10 * g[i - 1] + s[i]
<1>0. Len(s) \in Nat /\ \A i \in 1..Len(s) : s[i] \in Nat
  OBVIOUS
<1>1. step \in [Nat \X Nat -> Nat]
  <2>1. ASSUME NEW p \in Nat \X Nat
        PROVE  (IF p[1] < Len(s) THEN 10 * p[2] + s[p[1] + 1] ELSE 0) \in Nat
    <3>1. p[1] \in Nat /\ p[2] \in Nat
      OBVIOUS
    <3>2. p[1] < Len(s) => s[p[1] + 1] \in Nat
      BY <1>0, <3>1
    <3> QED
      BY <3>1, <3>2
  <2> QED
    BY <2>1
<1>a. PICK g : Solves(g, Nat, 0, step)
  <2>1. 0 \in Nat
    OBVIOUS
  <2> HIDE DEF step
  <2> QED
    BY <1>1, <2>1, Recursion, Zenon
<1>2. g \in [Nat -> Nat] /\ g[0] = 0 /\ \A n \in Nat : g[n + 1] = step[<<n, g[n]>>]
  BY <1>a DEF Solves
<1>3. \A n \in 0..(Len(s) - 1) : g[n + 1] = 10 * g[n] + s[n + 1]
  <2>1. ASSUME NEW n \in 0..(Len(s) - 1) PROVE g[n + 1] = 10 * g[n] + s[n + 1]
    <3>1. n \in Nat /\ n < Len(s)
      BY <1>0
    <3>2. g[n] \in Nat
      <4>1. g \in [Nat -> Nat]
        BY <1>2
      <4> HIDE DEF step
      <4> QED
        BY <3>1, <4>1, Zenon
    <3>3. g[n + 1] = step[<<n, g[n]>>]
      BY <1>2, <3>1, Zenon
    <3> QED
      BY <3>1, <3>2, <3>3
  <2> QED
    BY <2>1
<1>4. PICK w : w = [i \in 0..Len(s) |-> g[i]]
  OBVIOUS
<1>5. ASSUME NEW i \in 0..Len(s) PROVE w[i] = Body(w, i)
  <2>1. CASE i = 0
    BY <1>2, <1>4, <2>1
  <2>2. CASE i # 0
    <3>1. i - 1 \in 0..(Len(s) - 1) /\ i - 1 \in 0..Len(s) /\ i - 1 + 1 = i
      BY <1>0, <2>2
    <3>2. g[i] = 10 * g[i - 1] + s[i]
      BY <1>3, <3>1
    <3>3. w[i] = g[i] /\ w[i - 1] = g[i - 1]
      BY <1>4, <3>1
    <3> QED
      BY <2>2, <3>2, <3>3, Zenon
  <2> QED
    BY <2>1, <2>2
<1>6. w = [i \in 0..Len(s) |-> Body(w, i)]
  BY <1>4, <1>5
<1>7. PICK v : v = PrefixValues(s)
  OBVIOUS
<1>8. v = CHOOSE h : h = [i \in 0..Len(s) |-> Body(h, i)]
  BY <1>7 DEF PrefixValues
<1>9. v = [i \in 0..Len(s) |-> Body(v, i)]
  <2> HIDE DEF Body
  <2> QED
    BY <1>6, <1>8
<1>10. \A i \in 0..Len(s) : v[i] = IF i = 0 THEN 0 ELSE 10 * v[i - 1] + s[i]
  BY <1>9
<1>11. v[0] = 0
  BY <1>0, <1>10
<1>12. ASSUME NEW i \in 0..(Len(s) - 1) PROVE v[i + 1] = 10 * v[i] + s[i + 1]
  <2>1. i + 1 \in 0..Len(s) /\ i + 1 # 0 /\ i + 1 - 1 = i
    BY <1>0
  <2> QED
    BY <1>10, <2>1
<1>13. PICK P : P = {i \in Nat : i <= Len(s) => v[i] \in Nat}
  OBVIOUS
<1>14. 0 \in P
  BY <1>11, <1>13
<1>15. ASSUME NEW i \in Nat, i \in P PROVE i + 1 \in P
  <2>1. CASE i + 1 <= Len(s)
    <3>1. i \in 0..(Len(s) - 1) /\ v[i] \in Nat /\ s[i + 1] \in Nat
      BY <1>0, <1>13, <1>15, <2>1
    <3>2. v[i + 1] \in Nat
      <4>1. v[i + 1] = 10 * v[i] + s[i + 1]
        BY <1>12, <3>1
      <4> QED
        BY <3>1, <4>1
    <3> QED
      BY <1>13, <3>2
  <2> QED
    BY <1>13, <2>1
<1>16. Nat \subseteq P
  BY <1>14, <1>15, NatAll
<1>17. \A i \in 0..Len(s) : v[i] \in Nat
  BY <1>0, <1>13, <1>16
<1> QED
  BY <1>7, <1>11, <1>12, <1>17, Zenon

\* Equal prefixes have equal values.
LEMMA ValuesAgree ==
  ASSUME NEW s \in Seq(Nat), NEW t \in Seq(Nat), NEW k \in Nat, k <= Len(s), k <= Len(t),
         \A i \in 1..k : s[i] = t[i]
  PROVE  PrefixValues(s)[k] = PrefixValues(t)[k]
<1>1. PICK v : v = PrefixValues(s)
  OBVIOUS
<1>2. PICK w : w = PrefixValues(t)
  OBVIOUS
<1>3. /\ v[0] = 0 /\ \A i \in 0..(Len(s) - 1) : v[i + 1] = 10 * v[i] + s[i + 1]
      /\ w[0] = 0 /\ \A i \in 0..(Len(t) - 1) : w[i + 1] = 10 * w[i] + t[i + 1]
  BY <1>1, <1>2, PrefixValuesIs
<1>4. PICK P : P = {i \in Nat : i <= k => v[i] = w[i]}
  OBVIOUS
<1>5. 0 \in P
  BY <1>3, <1>4
<1>6. ASSUME NEW i \in Nat, i \in P PROVE i + 1 \in P
  <2>1. CASE i + 1 <= k
    <3>1. i \in 0..(Len(s) - 1) /\ i \in 0..(Len(t) - 1) /\ i + 1 \in 1..k /\ v[i] = w[i]
      BY <1>4, <1>6, <2>1
    <3>2. v[i + 1] = 10 * v[i] + s[i + 1] /\ w[i + 1] = 10 * w[i] + t[i + 1]
          /\ s[i + 1] = t[i + 1]
      BY <1>3, <3>1
    <3>3. v[i + 1] = w[i + 1]
      BY <3>1, <3>2, Zenon
    <3> QED
      BY <1>4, <3>3
  <2> QED
    BY <1>4, <2>1
<1>7. Nat \subseteq P
  BY <1>5, <1>6, NatAll
<1> QED
  BY <1>1, <1>2, <1>4, <1>7

\* One more digit.
LEMMA ValueAppend ==
  ASSUME NEW s \in Seq(Nat), NEW d \in Nat
  PROVE  Value(Append(s, d)) = 10 * Value(s) + d
<1>1. PICK t : t = Append(s, d)
  OBVIOUS
<1>2. t \in Seq(Nat) /\ Len(t) = Len(s) + 1 /\ t[Len(s) + 1] = d /\ Len(s) \in Nat
      /\ \A i \in 1..Len(s) : s[i] = t[i]
  BY <1>1
<1>3. PrefixValues(s)[Len(s)] = PrefixValues(t)[Len(s)]
  <2>1. Len(s) <= Len(s) /\ Len(s) <= Len(t)
    BY <1>2
  <2> QED
    BY <1>2, <2>1, ValuesAgree
<1>4. Len(s) \in 0..(Len(t) - 1)
  BY <1>2
<1>5. PrefixValues(t)[Len(s) + 1] = 10 * PrefixValues(t)[Len(s)] + t[Len(s) + 1]
  BY <1>2, <1>4, PrefixValuesIs
<1>6. PrefixValues(t)[Len(t)] = 10 * PrefixValues(s)[Len(s)] + d
  BY <1>2, <1>3, <1>5, Zenon
<1> QED
  BY <1>1, <1>6, Zenon DEF Value

\* A number splits at any digit.
LEMMA ValueSplit ==
  ASSUME NEW s \in Seq(Nat), NEW t \in Seq(Nat), NEW k \in Nat, Len(s) = k + Len(t),
         \A j \in 1..Len(t) : s[k + j] = t[j]
  PROVE  Value(s) = PrefixValues(s)[k] * Pow10[Len(t)] + Value(t)
<1>1. PICK v : v = PrefixValues(s)
  OBVIOUS
<1>2. PICK w : w = PrefixValues(t)
  OBVIOUS
<1>3. PICK l \in Nat : l = Len(t)
  OBVIOUS
<1>4. /\ \A i \in 0..(Len(s) - 1) : v[i + 1] = 10 * v[i] + s[i + 1]
      /\ w[0] = 0 /\ \A i \in 0..(l - 1) : w[i + 1] = 10 * w[i] + t[i + 1]
      /\ \A i \in 0..l : w[i] \in Nat
      /\ \A i \in 0..Len(s) : v[i] \in Nat
  BY <1>1, <1>2, <1>3, PrefixValuesIs
<1>5. PICK c : c = v[k]
  OBVIOUS
<1>6. c \in Nat /\ Len(s) = k + l
  BY <1>3, <1>4, <1>5
<1>7. PICK P : P = {j \in Nat : j <= l => v[k + j] = c * Pow10[j] + w[j]}
  OBVIOUS
<1>8. 0 \in P
  <2>1. k + 0 = k /\ c * 1 + 0 = c
    BY <1>6
  <2>2. v[k + 0] = c * Pow10[0] + w[0]
    BY <1>4, <1>5, <2>1, Pow10Is
  <2> QED
    BY <1>7, <2>2
<1>9. ASSUME NEW j \in Nat, j \in P PROVE j + 1 \in P
  <2>1. CASE j + 1 <= l
    <3>1. /\ j \in 0..(l - 1) /\ j \in 0..l /\ k + j \in 0..(Len(s) - 1)
          /\ k + j + 1 = k + (j + 1) /\ j + 1 \in 1..l
      BY <1>3, <1>6, <2>1
    <3>2. v[k + j] = c * Pow10[j] + w[j]
      BY <1>7, <1>9, <2>1
    <3>3. v[k + (j + 1)] = 10 * v[k + j] + s[k + (j + 1)]
      BY <1>4, <3>1
    <3>4. s[k + (j + 1)] = t[j + 1] /\ t[j + 1] \in Nat
      BY <1>3, <3>1
    <3>5. w[j + 1] = 10 * w[j] + t[j + 1] /\ w[j] \in Nat
      BY <1>4, <3>1
    <3>6. Pow10[j + 1] = 10 * Pow10[j] /\ Pow10[j] \in Nat
      BY Pow10Is
    <3>7. PICK q : q = Pow10[j]
      OBVIOUS
    <3>8. PICK x : x = w[j]
      OBVIOUS
    <3>9. PICK y : y = t[j + 1]
      OBVIOUS
    <3>10. q \in Nat /\ x \in Nat /\ y \in Nat
      BY <3>4, <3>5, <3>6, <3>7, <3>8, <3>9
    <3>11. 10 * (c * q + x) + y = c * (10 * q) + (10 * x + y)
      BY <1>6, <3>10
    <3>12. v[k + (j + 1)] = 10 * (c * q + x) + y
      BY <3>2, <3>3, <3>4, <3>7, <3>8, <3>9, Zenon
    <3>13. c * Pow10[j + 1] + w[j + 1] = c * (10 * q) + (10 * x + y)
      BY <3>5, <3>6, <3>7, <3>8, <3>9, Zenon
    <3>14. v[k + (j + 1)] = c * Pow10[j + 1] + w[j + 1]
      BY <3>11, <3>12, <3>13, Zenon
    <3> QED
      BY <1>7, <3>14
  <2> QED
    BY <1>7, <2>1
<1>10. Nat \subseteq P
  BY <1>8, <1>9, NatAll
<1>11. v[k + l] = c * Pow10[l] + w[l]
  BY <1>7, <1>10
<1> QED
  BY <1>1, <1>2, <1>3, <1>5, <1>6, <1>11, Zenon DEF Value

\* Division by ten.
LEMMA DivTen ==
  ASSUME NEW n \in Nat
  PROVE  /\ n \div 10 \in Nat /\ n % 10 \in Nat
         /\ n = 10 * (n \div 10) + (n % 10)
         /\ n >= 10 => n \div 10 < n
OBVIOUS

Shorten(h) == [n \in Nat |-> IF n < 10 THEN <<n>> ELSE Append(h[n \div 10], n % 10)]

\* str(n) satisfies its defining equation: what n turns of the recursion make
\* of n, any number of turns from there make of it.
LEMMA DigitsIs ==
  \A n \in Nat : Digits[n] = IF n < 10 THEN <<n>> ELSE Append(Digits[n \div 10], n % 10)
<1> DEFINE S == [Nat -> Seq(Nat)]
           start == [n \in Nat |-> <<>>]
           step == [p \in Nat \X S |-> Shorten(p[2])]
<1>1. ASSUME NEW h \in S PROVE Shorten(h) \in S
  <2>1. ASSUME NEW n \in Nat
        PROVE  (IF n < 10 THEN <<n>> ELSE Append(h[n \div 10], n % 10)) \in Seq(Nat)
    <3>1. n \div 10 \in Nat /\ n % 10 \in Nat
      BY DivTen
    <3>2. h[n \div 10] \in Seq(Nat)
      BY <3>1
    <3> QED
      BY <3>1, <3>2
  <2> QED
    BY <2>1 DEF Shorten
<1>2. start \in S /\ step \in [Nat \X S -> S]
  <2>1. start \in S
    OBVIOUS
  <2>2. \A p \in Nat \X S : p[2] \in S
    OBVIOUS
  <2>3. \A p \in Nat \X S : Shorten(p[2]) \in S
    BY <1>1, <2>2
  <2> HIDE DEF S
  <2> QED
    BY <2>1, <2>3
<1>3. PICK g : Solves(g, S, start, step)
  <2> HIDE DEF S, start, step
  <2> QED
    BY <1>2, Recursion, Zenon
<1>4. ASSUME NEW k \in Nat PROVE g[k] \in S /\ g[k + 1] = Shorten(g[k])
  <2> HIDE DEF S
  <2>1. g \in [Nat -> S] /\ g[k + 1] = step[<<k, g[k]>>]
    BY <1>3 DEF Solves
  <2> QED
    BY <2>1
<1>5. ASSUME NEW k \in Nat, NEW n \in Nat
      PROVE  g[k + 1][n] = IF n < 10 THEN <<n>> ELSE Append(g[k][n \div 10], n % 10)
  <2>1. g[k + 1] = Shorten(g[k])
    BY <1>4
  <2> QED
    BY <2>1 DEF Shorten
<1>6. PICK P : P = {k \in Nat : \A n \in Nat : n < k => g[k + 1][n] = g[k][n]}
  OBVIOUS
<1>7. 0 \in P
  BY <1>6
<1>8. ASSUME NEW k \in Nat, k \in P PROVE k + 1 \in P
  <2>1. ASSUME NEW n \in Nat, n < k + 1 PROVE g[k + 1 + 1][n] = g[k + 1][n]
    <3>1. k + 1 \in Nat
      OBVIOUS
    <3>2. /\ g[k + 1 + 1][n] = IF n < 10 THEN <<n>> ELSE Append(g[k + 1][n \div 10], n % 10)
          /\ g[k + 1][n] = IF n < 10 THEN <<n>> ELSE Append(g[k][n \div 10], n % 10)
      BY <1>5, <3>1
    <3>3. CASE n < 10
      BY <3>2, <3>3
    <3>4. CASE ~(n < 10)
      <4>1. n \div 10 \in Nat /\ n \div 10 < k
        BY <2>1, <3>4, DivTen
      <4>2. g[k + 1][n \div 10] = g[k][n \div 10]
        BY <1>6, <1>8, <4>1
      <4> QED
        BY <3>2, <3>4, <4>2
    <3> QED
      BY <3>3, <3>4
  <2> QED
    BY <1>6, <2>1
<1>9. Nat \subseteq P
  BY <1>7, <1>8, NatAll
<1>10. ASSUME NEW n \in Nat PROVE \A j \in Nat : g[n + 1 + j][n] = g[n + 1][n]
  <2>1. PICK Q : Q = {j \in Nat : g[n + 1 + j][n] = g[n + 1][n]}
    OBVIOUS
  <2>2. 0 \in Q
    BY <2>1
  <2>3. ASSUME NEW j \in Nat, j \in Q PROVE j + 1 \in Q
    <3>1. n + 1 + j \in Nat /\ n < n + 1 + j /\ n + 1 + (j + 1) = n + 1 + j + 1
      OBVIOUS
    <3>2. g[n + 1 + j + 1][n] = g[n + 1 + j][n]
      BY <1>6, <1>9, <3>1
    <3> QED
      BY <2>1, <2>3, <3>1, <3>2
  <2>4. Nat \subseteq Q
    BY <2>2, <2>3, NatAll
  <2> QED
    BY <2>1, <2>4
<1> DEFINE Body(h, n) == IF n < 10 THEN <<n>> ELSE Append(h[n \div 10], n % 10)
<1>11. PICK W : W = [n \in Nat |-> g[n + 1][n]]
  OBVIOUS
<1>12. ASSUME NEW n \in Nat PROVE W[n] = Body(W, n)
  <2>1. W[n] = IF n < 10 THEN <<n>> ELSE Append(g[n][n \div 10], n % 10)
    BY <1>5, <1>11
  <2>2. CASE n < 10
    BY <2>1, <2>2
  <2>3. CASE ~(n < 10)
    <3>1. PICK m \in Nat : m = n \div 10
      BY DivTen
    <3>2. m < n
      BY <2>3, <3>1, DivTen
    <3>3. n - m - 1 \in Nat /\ m + 1 + (n - m - 1) = n
      BY <3>2
    <3>4. g[n][m] = g[m + 1][m]
      BY <1>10, <3>3
    <3>5. W[m] = g[m + 1][m]
      BY <1>11
    <3>6. Append(g[n][n \div 10], n % 10) = Append(W[n \div 10], n % 10)
      BY <3>1, <3>4, <3>5, Zenon
    <3> QED
      BY <2>1, <2>3, <3>6
  <2> QED
    BY <2>2, <2>3
<1>13. W = [n \in Nat |-> Body(W, n)]
  BY <1>11, <1>12
<1>14. Digits = CHOOSE h : h = [n \in Nat |-> Body(h, n)]
  BY DEF Digits
<1>15. Digits = [n \in Nat |-> Body(Digits, n)]
  <2> HIDE DEF Body
  <2> QED
    BY <1>13, <1>14
<1> QED
  BY <1>15

\* The digits of a number are at least one, and their value is the number.
LEMMA DigitsValue ==
  ASSUME NEW n \in Nat
  PROVE  Digits[n] \in Seq(Nat) /\ Len(Digits[n]) >= 1 /\ Value(Digits[n]) = n
<1> DEFINE Right(k) == Digits[k] \in Seq(Nat) /\ Len(Digits[k]) >= 1 /\ Value(Digits[k]) = k
<1>1. ASSUME NEW k \in Nat, \A m \in Nat : m < k => Right(m)
      PROVE  Right(k)
  <2>1. CASE k < 10
    <3>1. Digits[k] = <<k>>
      BY <2>1, DigitsIs
    <3>2. PICK e : e = <<>>
      OBVIOUS
    <3>3. e \in Seq(Nat) /\ Len(e) = 0 /\ Append(e, k) = <<k>>
      BY <3>2
    <3>4. Value(e) = 0
      BY <3>3, PrefixValuesIs DEF Value
    <3>5. Value(<<k>>) = 10 * Value(e) + k
      <4>1. Value(Append(e, k)) = 10 * Value(e) + k
        BY <3>3, ValueAppend
      <4> QED
        BY <3>3, <4>1, Zenon
    <3>6. Value(<<k>>) = k
      BY <3>4, <3>5
    <3> QED
      BY <3>1, <3>6
  <2>2. CASE ~(k < 10)
    <3>1. PICK m \in Nat : m = k \div 10
      BY DivTen
    <3>2. PICK d \in Nat : d = k % 10
      BY DivTen
    <3>3. m < k /\ k = 10 * m + d
      BY <2>2, <3>1, <3>2, DivTen
    <3>4. Digits[k] = Append(Digits[m], d)
      BY <2>2, <3>1, <3>2, DigitsIs
    <3>5. Right(m)
      BY <1>1, <3>3
    <3>6. PICK s : s = Digits[m]
      OBVIOUS
    <3>7. s \in Seq(Nat) /\ Len(s) >= 1 /\ Value(s) = m
      BY <3>5, <3>6
    <3>8. Append(s, d) \in Seq(Nat) /\ Len(Append(s, d)) >= 1
      BY <3>7
    <3>9. Value(Append(s, d)) = 10 * Value(s) + d
      BY <3>7, ValueAppend
    <3>10. Value(Append(s, d)) = k
      BY <3>3, <3>7, <3>9
    <3> QED
      BY <3>4, <3>6, <3>8, <3>10, Zenon
  <2> QED
    BY <2>1, <2>2
<1>2. PICK Wrong : Wrong = {k \in Nat : ~Right(k)}
  OBVIOUS
<1> HIDE DEF Right
<1>3. Wrong = {}
  <2> SUFFICES ASSUME Wrong # {} PROVE FALSE
    OBVIOUS
  <2>1. PICK k \in Wrong : \A y \in Wrong : k <= y
    BY <1>2, NatLeast
  <2>2. k \in Nat /\ ~Right(k)
    BY <1>2
  <2>3. \A m \in Nat : m < k => Right(m)
    BY <1>2, <2>1, <2>2
  <2> QED
    BY <1>1, <2>2, <2>3
<1> QED
  BY <1>2, <1>3 DEF Right

\* A prefix of zeros has the value 0.
LEMMA ZerosValue ==
  ASSUME NEW s \in Seq(Nat), NEW k \in Nat, k <= Len(s), \A i \in 1..k : s[i] = 0
  PROVE  PrefixValues(s)[k] = 0
<1>1. PICK v : v = PrefixValues(s)
  OBVIOUS
<1>2. v[0] = 0 /\ \A i \in 0..(Len(s) - 1) : v[i + 1] = 10 * v[i] + s[i + 1]
  BY <1>1, PrefixValuesIs
<1>3. PICK P : P = {i \in Nat : i <= k => v[i] = 0}
  OBVIOUS
<1>4. 0 \in P
  BY <1>2, <1>3
<1>5. ASSUME NEW i \in Nat, i \in P PROVE i + 1 \in P
  <2>1. CASE i + 1 <= k
    <3>1. i \in 0..(Len(s) - 1) /\ i + 1 \in 1..k /\ v[i] = 0
      BY <1>3, <1>5, <2>1
    <3>2. v[i + 1] = 10 * v[i] + s[i + 1] /\ s[i + 1] = 0
      BY <1>2, <3>1
    <3>3. v[i + 1] = 0
      BY <3>1, <3>2
    <3> QED
      BY <1>3, <3>3
  <2> QED
    BY <1>3, <2>1
<1>6. Nat \subseteq P
  BY <1>4, <1>5, NatAll
<1> QED
  BY <1>1, <1>3, <1>6

\* encode_nanocodas is exact, for every number and every number of decimals.
LEMMA EncodeIsExact ==
  ASSUME NEW n \in Nat
  PROVE  LET e == encode_nanocodas(n)
         IN  /\ Len(e.whole) >= 1 /\ Len(e.frac) = Decimals
             /\ Value(e.whole) * Pow10[Decimals] + Value(e.frac) = n
<1>1. PICK s : s = Digits[n]
  OBVIOUS
<1>2. s \in Seq(Nat) /\ Len(s) >= 1 /\ Value(s) = n
  BY <1>1, DigitsValue
<1>3. PICK l \in Nat : l = Len(s)
  BY <1>2
<1>4. PICK d \in Nat \ {0} : d = Decimals
  BY GenesisLedgerAssumption
<1>e. \A i \in 1..l : s[i] \in Nat
  <2>1. s \in Seq(Nat)
    BY <1>2
  <2>2. \A i \in 1..Len(s) : s[i] \in Nat
    BY <2>1
  <2> QED
    BY <1>3, <2>2
<1>5. CASE l > d
  <2>1. PICK w : w = SubSeq(s, 1, l - d)
    OBVIOUS
  <2>2. PICK t : t = SubSeq(s, l - d + 1, l)
    OBVIOUS
  <2>3. PICK k \in Nat : k = l - d
    BY <1>5
  <2>4. k >= 1 /\ l = k + d
    BY <1>5, <2>3
  <2>5. w \in Seq(Nat) /\ Len(w) = k /\ \A i \in 1..k : w[i] = s[i]
    <3>1. w = [i \in 1..k |-> s[i]]
      <4>1. w = SubSeq(s, 1, k)
        BY <2>1, <2>3, Zenon
      <4>2. k <= Len(s)
        BY <1>3, <2>4
      <4> QED
        BY <1>2, <4>1, <4>2
    <3>2. \A i \in 1..k : s[i] \in Nat
      BY <1>e, <2>4
    <3>3. w \in [1..k -> Nat]
      BY <3>1, <3>2, Zenon
    <3>4. w \in Seq(Nat) /\ Len(w) = k
      BY <3>3
    <3>5. \A i \in 1..k : w[i] = s[i]
      BY <3>1, Zenon
    <3> QED
      BY <3>4, <3>5, Zenon
  <2>6. t \in Seq(Nat) /\ Len(t) = d /\ \A j \in 1..d : t[j] = s[k + j]
    <3>1. t = [j \in 1..d |-> s[k + j]]
      <4>1. t = SubSeq(s, k + 1, l)
        BY <2>2, <2>3, Zenon
      <4> QED
        BY <1>2, <1>3, <2>4, <4>1
    <3>2. \A j \in 1..d : s[k + j] \in Nat
      BY <1>e, <2>4
    <3>3. t \in [1..d -> Nat]
      BY <3>1, <3>2, Zenon
    <3>4. t \in Seq(Nat) /\ Len(t) = d
      BY <3>3
    <3>5. \A j \in 1..d : t[j] = s[k + j]
      BY <3>1, Zenon
    <3> QED
      BY <3>4, <3>5, Zenon
  <2>7. PrefixValues(s)[k] = Value(w)
    <3>1. k <= Len(s) /\ k <= Len(w) /\ \A i \in 1..k : s[i] = w[i]
      BY <1>3, <2>4, <2>5
    <3>2. PrefixValues(s)[k] = PrefixValues(w)[k]
      BY <1>2, <2>5, <3>1, ValuesAgree
    <3> QED
      BY <2>5, <3>2, Zenon DEF Value
  <2>8. Value(s) = PrefixValues(s)[k] * Pow10[Len(t)] + Value(t)
    <3>1. Len(s) = k + Len(t) /\ \A j \in 1..Len(t) : s[k + j] = t[j]
      BY <1>3, <2>4, <2>6
    <3> QED
      BY <1>2, <2>6, <3>1, ValueSplit
  <2>9. Value(w) * Pow10[d] + Value(t) = n
    BY <1>2, <2>6, <2>7, <2>8, Zenon
  <2>10. encode_nanocodas(n) = [whole |-> w, frac |-> t]
    BY <1>1, <1>3, <1>4, <1>5, <2>1, <2>2 DEF encode_nanocodas
  <2> QED
    BY <1>4, <2>4, <2>5, <2>6, <2>9, <2>10
<1>6. CASE ~(l > d)
  <2>1. PICK k \in Nat : k = d - l
    BY <1>6
  <2>2. PICK z : z = [i \in 1..k |-> 0]
    OBVIOUS
  <2>3. z \in Seq(Nat) /\ Len(z) = k /\ \A i \in 1..k : z[i] = 0
    BY <2>2
  <2>4. PICK t : t = z \o s
    OBVIOUS
  <2>5. t \in Seq(Nat) /\ Len(t) = d
    BY <1>2, <1>3, <2>1, <2>3, <2>4
  <2>6. (\A i \in 1..k : t[i] = 0) /\ \A j \in 1..l : t[k + j] = s[j]
    BY <1>2, <1>3, <2>3, <2>4
  <2>7. PrefixValues(t)[k] = 0
    <3>1. k <= Len(t)
      BY <2>1, <2>5
    <3> QED
      BY <2>5, <2>6, <3>1, ZerosValue
  <2>8. Value(t) = PrefixValues(t)[k] * Pow10[Len(s)] + Value(s)
    <3>1. Len(t) = k + Len(s) /\ \A j \in 1..Len(s) : t[k + j] = s[j]
      BY <1>3, <2>1, <2>5, <2>6
    <3> QED
      BY <1>2, <2>5, <3>1, ValueSplit
  <2>9. Value(t) = n
    <3>1. Pow10[Len(s)] \in Nat
      BY <1>3, Pow10Is
    <3> QED
      BY <1>2, <2>7, <2>8, <3>1
  <2>10. Value(<<0>>) = 0
    <3>1. PICK o : o = <<0>>
      OBVIOUS
    <3>2. o \in Seq(Nat) /\ Len(o) = 1 /\ \A i \in 1..1 : o[i] = 0
      BY <3>1
    <3>3. 1 \in Nat /\ 1 <= Len(o)
      BY <3>2
    <3>4. PrefixValues(o)[1] = 0
      BY <3>2, <3>3, ZerosValue
    <3> QED
      BY <3>1, <3>2, <3>4, Zenon DEF Value
  <2>11. Value(<<0>>) * Pow10[d] + Value(t) = n
    <3>1. Pow10[d] \in Nat
      BY Pow10Is
    <3> QED
      BY <2>9, <2>10, <3>1
  <2>12. encode_nanocodas(n) = [whole |-> <<0>>, frac |-> t]
    BY <1>1, <1>3, <1>4, <1>6, <2>1, <2>2, <2>4 DEF encode_nanocodas
  <2>13. Len(<<0>>) >= 1
    OBVIOUS
  <2> QED
    BY <1>4, <2>5, <2>11, <2>12, <2>13
<1> QED
  BY <1>5, <1>6

\* A ledger that is written can be started from, whatever the directories and
\* the csv hold and however many decimals a balance has.
THEOREM LedgersAreClosed == LedgerSpec => []LedgerIsClosed
<1>1. EncodingIsExact
  <2>1. \A k \in Nat : (Pow10[k] - 1)..(Pow10[k] + 1) \subseteq Nat
    BY Pow10Is
  <2>2. UNION {(Pow10[k] - 1)..(Pow10[k] + 1) : k \in 0..(Decimals + 1)} \subseteq Nat
    BY <2>1, GenesisLedgerAssumption
  <2> QED
    BY <2>2, EncodeIsExact DEF EncodingIsExact
<1> QED
  BY <1>1, LedgerAccountsFit, PTL DEF LedgerIsClosed

-----------------------------------------------------------------------------
(* Tries. *)

TrieNode(H) == [hash : H \cup {"root"}, children : SUBSET Nat, labels : SUBSET (Nat \cup Peer), value : Nat]

Tries(H) ==
  [nodes : Seq(TrieNode(H)), blocks : UNION {[D -> Nat] : D \in SUBSET H}, raised : BOOLEAN]

Size(t) == Len(t.nodes)

\* The objects of a trie: the first is the root, and the others are below some
\* object and have a hash of H.
Objects(t, H) ==
  /\ t \in Tries(H) /\ Size(t) >= 1
  /\ t.nodes[Root].hash = "root"
  /\ \A n \in 2..Size(t) : t.nodes[n].hash \in H
  /\ \A n \in 1..Size(t) : t.nodes[n].children \subseteq 2..Size(t)

\* `blocks' names an object of each hash it knows.
NamesFit(t) ==
  \A h \in DOMAIN t.blocks : t.blocks[h] \in 2..Size(t) /\ t.nodes[t.blocks[h]].hash = h

\* And it knows the hash of every object.
AllNamed(t) == \A n \in 2..Size(t) : t.nodes[n].hash \in DOMAIN t.blocks

Trie(t, H) == Objects(t, H) /\ NamesFit(t) /\ AllNamed(t)

Edges(t) == render_fork(t).edges
LabelEdges(t) == render_fork(t).labels

\* The edges of a trie, one by one.
LEMMA EdgesAre ==
  ASSUME NEW t, NEW H, Objects(t, H)
  PROVE  /\ \A a, b : <<a, b>> \in Edges(t) <=>
              \E n \in 1..Size(t) : \E c \in t.nodes[n].children :
                a = t.nodes[n].hash /\ b = t.nodes[c].hash
         /\ \A e \in Edges(t) : e = <<e[1], e[2]>>
         /\ \A a, b : <<a, b>> \in LabelEdges(t) <=>
              \E n \in 1..Size(t) : \E l \in t.nodes[n].labels : a = l /\ b = t.nodes[n].hash
         /\ \A e \in LabelEdges(t) : e = <<e[1], e[2]>>
<1>1. DOMAIN t.nodes = 1..Size(t)
  BY DEF Objects, Tries, Size
<1>2. Edges(t) = UNION {{<<t.nodes[n].hash, t.nodes[c].hash>> : c \in t.nodes[n].children} : n \in 1..Size(t)}
  BY <1>1 DEF Edges, render_fork
<1>3. LabelEdges(t) = UNION {{<<l, t.nodes[n].hash>> : l \in t.nodes[n].labels} : n \in 1..Size(t)}
  BY <1>1 DEF LabelEdges, render_fork
<1>4. \A a, b : <<a, b>> \in Edges(t) <=>
              \E n \in 1..Size(t) : \E c \in t.nodes[n].children :
                a = t.nodes[n].hash /\ b = t.nodes[c].hash
  BY <1>2
<1>5. \A e \in Edges(t) : e = <<e[1], e[2]>>
  BY <1>2
<1>6. \A a, b : <<a, b>> \in LabelEdges(t) <=>
              \E n \in 1..Size(t) : \E l \in t.nodes[n].labels : a = l /\ b = t.nodes[n].hash
  BY <1>3
<1>7. \A e \in LabelEdges(t) : e = <<e[1], e[2]>>
  BY <1>3
<1> QED
  BY <1>4, <1>5, <1>6, <1>7

\* The objects of u are those of t, and n has the child c with the hash h.
Grown(t, u, n, h, c) ==
  /\ Size(t) <= Size(u)
  /\ c \in 2..Size(u) /\ u.nodes[c].hash = h /\ c \in u.nodes[n].children
  /\ \A m \in 1..Size(t) :
       /\ u.nodes[m].hash = t.nodes[m].hash /\ u.nodes[m].labels = t.nodes[m].labels
       /\ u.nodes[m].children = IF m = n THEN t.nodes[m].children \cup {c} ELSE t.nodes[m].children
  /\ \/ Size(u) = Size(t) /\ c \in t.nodes[n].children
     \/ /\ c = Size(t) + 1 /\ Size(u) = Size(t) + 1
        /\ u.nodes[c].children = {} /\ u.nodes[c].labels = {}

\* insertChild finds the child or makes it.
LEMMA InsertChildGrows ==
  ASSUME NEW H, NEW t, Objects(t, H), NEW n \in 1..Size(t), NEW h \in H
  PROVE  LET r == insertChild(t, n, h)
         IN  /\ Objects(r.trie, H) /\ Grown(t, r.trie, n, h, r.node)
             /\ r.trie.blocks = t.blocks /\ r.trie.raised = t.raised
<1>1. PICK r : r = insertChild(t, n, h)
  OBVIOUS
<1>2. t \in Tries(H) /\ t.nodes \in Seq(TrieNode(H)) /\ Size(t) \in Nat /\ Size(t) >= 1
  BY DEF Objects, Tries, Size
<1>3. \A m \in 1..Size(t) : t.nodes[m] \in TrieNode(H) /\ t.nodes[m].children \subseteq 2..Size(t)
  BY <1>2 DEF Objects, Size
<1>4. CASE ChildOf(t, n, h) # {}
  <2>1. PICK c : c = CHOOSE x \in ChildOf(t, n, h) : TRUE
    OBVIOUS
  <2>2. c \in ChildOf(t, n, h)
    BY <1>4, <2>1
  <2>3. r = [trie |-> t, node |-> c]
    BY <1>1, <1>4, <2>1 DEF insertChild
  <2>4. c \in t.nodes[n].children /\ t.nodes[c].hash = h /\ c \in 2..Size(t)
    BY <1>3, <2>2 DEF ChildOf
  <2>5. Grown(t, t, n, h, c)
    <3>1. \A m \in 1..Size(t) :
            t.nodes[m].children = IF m = n THEN t.nodes[m].children \cup {c} ELSE t.nodes[m].children
      <4>1. t.nodes[n].children \cup {c} = t.nodes[n].children
        BY <2>4
      <4> QED
        BY <4>1
    <3> QED
      BY <1>2, <2>4, <3>1 DEF Grown
  <2> QED
    BY <1>1, <2>3, <2>5
<1>5. CASE ChildOf(t, n, h) = {}
  <2>1. PICK c \in Nat : c = Size(t) + 1
    BY <1>2
  <2>2. PICK s : s = [t.nodes EXCEPT ![n] = [t.nodes[n] EXCEPT !.children = @ \cup {c}]]
    OBVIOUS
  <2>3. PICK b : b = Block(h)
    OBVIOUS
  <2>4. b \in TrieNode(H) /\ b.hash = h /\ b.children = {} /\ b.labels = {}
    BY <2>3 DEF Block, TrieNode
  <2>5. s \in Seq(TrieNode(H)) /\ Len(s) = Size(t)
    <3>1. t.nodes[n] \in TrieNode(H)
      BY <1>3
    <3>2. [t.nodes[n] EXCEPT !.children = @ \cup {c}] \in TrieNode(H)
      BY <3>1 DEF TrieNode
    <3>3. s = [t.nodes EXCEPT ![n] = [t.nodes[n] EXCEPT !.children = @ \cup {c}]]
      BY <2>2
    <3> QED
      BY <1>2, <3>2, <3>3 DEF Size
  <2>6. \A m \in 1..Size(t) :
          /\ s[m].hash = t.nodes[m].hash /\ s[m].labels = t.nodes[m].labels
          /\ s[m].children = IF m = n THEN t.nodes[m].children \cup {c} ELSE t.nodes[m].children
    <3>1. ASSUME NEW m \in 1..Size(t)
          PROVE  /\ s[m].hash = t.nodes[m].hash /\ s[m].labels = t.nodes[m].labels
                 /\ s[m].children = IF m = n THEN t.nodes[m].children \cup {c} ELSE t.nodes[m].children
      <4>1. m \in DOMAIN t.nodes
        BY <1>2 DEF Size
      <4>2. t.nodes[m] \in TrieNode(H)
        BY <1>3
      <4>3. s[m] = IF m = n THEN [t.nodes[m] EXCEPT !.children = @ \cup {c}] ELSE t.nodes[m]
        BY <2>2, <4>1
      <4> QED
        BY <4>2, <4>3 DEF TrieNode
    <3> QED
      BY <3>1
  <2>7. PICK q : q = Append(s, b)
    OBVIOUS
  <2>8. /\ q \in Seq(TrieNode(H)) /\ Len(q) = c /\ q[c] = b
        /\ \A m \in 1..Size(t) : q[m] = s[m]
    BY <1>2, <2>1, <2>4, <2>5, <2>7
  <2>9. PICK u : u = [t EXCEPT !.nodes = q]
    OBVIOUS
  <2>10. r = [trie |-> u, node |-> c]
    <3>1. c = Len(t.nodes) + 1
      BY <2>1 DEF Size
    <3>2. r = [trie |-> [t EXCEPT !.nodes = Append(s, Block(h))], node |-> c]
      BY <1>1, <1>5, <2>2, <3>1 DEF insertChild
    <3> QED
      BY <2>3, <2>7, <2>9, <3>2
  <2>11. /\ u \in Tries(H) /\ u.nodes = q /\ u.blocks = t.blocks /\ u.raised = t.raised
    BY <1>2, <2>8, <2>9 DEF Tries
  <2>12. Size(u) = c
    BY <2>8, <2>11 DEF Size
  <2>13. \A m \in 1..Size(t) :
          /\ u.nodes[m].hash = t.nodes[m].hash /\ u.nodes[m].labels = t.nodes[m].labels
          /\ u.nodes[m].children = IF m = n THEN t.nodes[m].children \cup {c} ELSE t.nodes[m].children
    BY <2>6, <2>8, <2>11
  <2>14. u.nodes[c].hash = h /\ u.nodes[c].children = {} /\ u.nodes[c].labels = {}
    BY <2>4, <2>8, <2>11
  <2>15. Grown(t, u, n, h, c)
    <3>0. c \in u.nodes[n].children
      <4>1. u.nodes[n].children = t.nodes[n].children \cup {c}
        BY <2>13
      <4> QED
        BY <4>1
    <3>1. c \in 2..c /\ Size(t) <= c /\ c \in u.nodes[n].children
      BY <1>2, <2>1, <3>0
    <3> QED
      BY <2>1, <2>11, <2>12, <2>13, <2>14, <3>1 DEF Grown
  <2>16. Objects(u, H)
    <3>1. Size(u) >= 1 /\ 1 \in 1..Size(t)
      BY <1>2, <2>1, <2>12
    <3>2. u.nodes[Root].hash = "root"
      BY <2>13, <3>1 DEF Root, Objects
    <3>3. ASSUME NEW m \in 2..Size(u) PROVE u.nodes[m].hash \in H
      <4>1. CASE m = c
        BY <2>14, <4>1
      <4>2. CASE m # c
        <5>1. m \in 2..Size(t) /\ m \in 1..Size(t)
          BY <1>2, <2>1, <2>12, <4>2
        <5> QED
          BY <2>13, <5>1 DEF Objects
      <4> QED
        BY <4>1, <4>2
    <3>4. ASSUME NEW m \in 1..Size(u) PROVE u.nodes[m].children \subseteq 2..Size(u)
      <4>1. CASE m = c
        BY <2>14, <4>1
      <4>2. CASE m # c
        <5>1. m \in 1..Size(t)
          BY <1>2, <2>1, <2>12, <4>2
        <5>2. t.nodes[m].children \subseteq 2..Size(t)
          BY <1>3, <5>1
        <5>3. u.nodes[m].children \subseteq t.nodes[m].children \cup {c}
          BY <2>13, <5>1
        <5>4. 2..Size(t) \subseteq 2..Size(u) /\ c \in 2..Size(u)
          BY <1>2, <2>1, <2>12
        <5> QED
          BY <5>2, <5>3, <5>4
      <4> QED
        BY <4>1, <4>2
    <3> QED
      BY <2>11, <3>1, <3>2, <3>3, <3>4 DEF Objects
  <2> QED
    BY <1>1, <2>10, <2>11, <2>15, <2>16
<1> QED
  BY <1>4, <1>5

\* An object has at most one parent.
UniqueParents(t) ==
  \A m, n \in 1..Size(t) : \A c \in t.nodes[m].children : c \in t.nodes[n].children => m = n

\* Every object can be reached from the root.
HoldsChildren(t, S) == Root \in S /\ \A m \in S : t.nodes[m].children \subseteq S
Connected(t) == \A S \in SUBSET (1..Size(t)) : HoldsChildren(t, S) => S = 1..Size(t)

\* A child more leaves the objects a tree.
LEMMA GrownTree ==
  ASSUME NEW H, NEW t, NEW u, Objects(t, H), Objects(u, H),
         NEW n \in 1..Size(t), NEW h, NEW c, Grown(t, u, n, h, c),
         UniqueParents(t), Connected(t)
  PROVE  UniqueParents(u) /\ Connected(u)
<1>1. Size(t) \in Nat /\ Size(t) >= 1 /\ \A m \in 1..Size(t) : t.nodes[m].children \subseteq 2..Size(t)
  BY DEF Objects, Tries, Size
<1>2. \A m \in 1..Size(t) :
        u.nodes[m].children = IF m = n THEN t.nodes[m].children \cup {c} ELSE t.nodes[m].children
  BY DEF Grown
<1>3. CASE Size(u) = Size(t) /\ c \in t.nodes[n].children
  <2>1. \A m \in 1..Size(t) : u.nodes[m].children = t.nodes[m].children
    BY <1>2, <1>3
  <2>2. UniqueParents(u)
    BY <1>3, <2>1 DEF UniqueParents
  <2>3. \A S \in SUBSET (1..Size(t)) : HoldsChildren(u, S) => HoldsChildren(t, S)
    BY <2>1 DEF HoldsChildren
  <2> QED
    BY <1>3, <2>2, <2>3 DEF Connected
<1>4. CASE c = Size(t) + 1 /\ Size(u) = Size(t) + 1 /\ u.nodes[c].children = {}
  <2>1. ASSUME NEW m \in 1..Size(u), NEW x \in u.nodes[m].children
        PROVE  /\ m \in 1..Size(t)
               /\ x = c => m = n
               /\ x # c => x \in t.nodes[m].children
    <3>1. m # c
      BY <1>4, <2>1
    <3>2. m \in 1..Size(t)
      BY <1>1, <1>4, <3>1
    <3>3. c \notin t.nodes[m].children
      BY <1>1, <1>4, <3>2
    <3> QED
      BY <1>2, <3>2, <3>3
  <2>2. UniqueParents(u)
    <3> SUFFICES ASSUME NEW m \in 1..Size(u), NEW k \in 1..Size(u),
                        NEW x \in u.nodes[m].children, x \in u.nodes[k].children
                 PROVE  m = k
      BY DEF UniqueParents
    <3>1. CASE x = c
      BY <2>1, <3>1
    <3>2. CASE x # c
      <4>1. m \in 1..Size(t) /\ k \in 1..Size(t) /\ x \in t.nodes[m].children /\ x \in t.nodes[k].children
        BY <2>1, <3>2
      <4> QED
        BY <4>1 DEF UniqueParents
    <3> QED
      BY <3>1, <3>2
  <2>3. ASSUME NEW S \in SUBSET (1..Size(u)), HoldsChildren(u, S) PROVE S = 1..Size(u)
    <3>1. PICK R \in SUBSET (1..Size(t)) : R = S \ {c}
      <4>1. ASSUME NEW x \in S, x # c PROVE x \in 1..Size(t)
        <5>1. x \in 1..(Size(t) + 1)
          BY <1>4
        <5> QED
          BY <1>1, <1>4, <4>1, <5>1
      <4> QED
        BY <4>1
    <3>2. HoldsChildren(t, R)
      <4>1. Root \in R
        <5>1. Root \in S
          BY <2>3 DEF HoldsChildren
        <5>2. Root # c
          BY <1>1, <1>4 DEF Root
        <5> QED
          BY <3>1, <5>1, <5>2
      <4>2. ASSUME NEW m \in R PROVE t.nodes[m].children \subseteq R
        <5>1. m \in 1..Size(t) /\ m \in S
          BY <3>1
        <5>2. u.nodes[m].children \subseteq S
          BY <2>3, <5>1 DEF HoldsChildren
        <5>3. t.nodes[m].children \subseteq u.nodes[m].children
          BY <1>2, <5>1
        <5>4. c \notin t.nodes[m].children
          BY <1>1, <1>4, <5>1
        <5> QED
          BY <3>1, <5>2, <5>3, <5>4
      <4> QED
        BY <4>1, <4>2 DEF HoldsChildren
    <3>3. R = 1..Size(t)
      BY <3>2 DEF Connected
    <3>4. n \in S /\ c \in u.nodes[n].children
      BY <1>2, <3>1, <3>3
    <3>5. c \in S
      BY <2>3, <3>4 DEF HoldsChildren
    <3>6. 1..Size(u) = 1..Size(t) \cup {c}
      BY <1>1, <1>4
    <3> QED
      BY <3>1, <3>3, <3>5, <3>6
  <2> QED
    BY <2>2, <2>3 DEF Connected
<1> QED
  BY <1>3, <1>4 DEF Grown

\* A child more is an edge more, between the hashes.
LEMMA GrownEdges ==
  ASSUME NEW H, NEW t, NEW u, Objects(t, H), Objects(u, H),
         NEW n \in 1..Size(t), NEW h, NEW c, Grown(t, u, n, h, c)
  PROVE  /\ Edges(u) = Edges(t) \cup {<<t.nodes[n].hash, h>>}
         /\ LabelEdges(u) = LabelEdges(t)
<1>1. Size(t) \in Nat /\ Size(t) >= 1 /\ \A m \in 1..Size(t) : t.nodes[m].children \subseteq 2..Size(t)
  BY DEF Objects, Tries, Size
<1>2. \A m \in 1..Size(t) :
        /\ u.nodes[m].hash = t.nodes[m].hash /\ u.nodes[m].labels = t.nodes[m].labels
        /\ u.nodes[m].children = IF m = n THEN t.nodes[m].children \cup {c} ELSE t.nodes[m].children
  BY DEF Grown
<1>3. u.nodes[c].hash = h /\ 1..Size(t) \subseteq 1..Size(u)
  <2>1. Size(u) \in Nat /\ Size(t) <= Size(u)
    BY DEF Grown, Objects, Tries, Size
  <2> QED
    BY <1>1, <2>1 DEF Grown
<1>4. ASSUME NEW m \in 1..Size(u), m \notin 1..Size(t)
      PROVE  u.nodes[m].children = {} /\ u.nodes[m].labels = {}
  <2>1. Size(u) # Size(t)
    BY <1>4
  <2>2. c = Size(t) + 1 /\ Size(u) = c /\ u.nodes[c].children = {} /\ u.nodes[c].labels = {}
    BY <2>1 DEF Grown
  <2>3. m = c
    BY <1>1, <1>4, <2>2
  <2> QED
    BY <2>2, <2>3
<1>5. ASSUME NEW m \in 1..Size(t), NEW x \in t.nodes[m].children
      PROVE  u.nodes[x].hash = t.nodes[x].hash
  <2>1. x \in 2..Size(t)
    BY <1>1
  <2>2. x \in 1..Size(t)
    BY <1>1, <2>1
  <2> QED
    BY <1>2, <2>2
<1>6. \A a, b : <<a, b>> \in Edges(u) <=> <<a, b>> \in Edges(t) \/ (a = t.nodes[n].hash /\ b = h)
  <2>1. ASSUME NEW a, NEW b, <<a, b>> \in Edges(u)
        PROVE  <<a, b>> \in Edges(t) \/ (a = t.nodes[n].hash /\ b = h)
    <3>1. PICK m \in 1..Size(u) : \E x \in u.nodes[m].children :
            a = u.nodes[m].hash /\ b = u.nodes[x].hash
      BY <2>1, EdgesAre
    <3>2. PICK x \in u.nodes[m].children : a = u.nodes[m].hash /\ b = u.nodes[x].hash
      BY <3>1
    <3>3. m \in 1..Size(t)
      BY <1>4
    <3>4. CASE x \in t.nodes[m].children
      <4>1. a = t.nodes[m].hash /\ b = t.nodes[x].hash
        BY <1>2, <1>5, <3>2, <3>3, <3>4
      <4> QED
        BY <3>3, <3>4, <4>1, EdgesAre
    <3>5. CASE x \notin t.nodes[m].children
      <4>1. m = n /\ x = c
        BY <1>2, <3>3, <3>5
      <4> QED
        BY <1>2, <1>3, <3>2, <4>1
    <3> QED
      BY <3>4, <3>5
  <2>2. ASSUME NEW a, NEW b, <<a, b>> \in Edges(t) PROVE <<a, b>> \in Edges(u)
    <3>1. PICK m \in 1..Size(t) : \E x \in t.nodes[m].children :
            a = t.nodes[m].hash /\ b = t.nodes[x].hash
      BY <2>2, EdgesAre
    <3>2. PICK x \in t.nodes[m].children : a = t.nodes[m].hash /\ b = t.nodes[x].hash
      BY <3>1
    <3>3. m \in 1..Size(u) /\ x \in u.nodes[m].children
      BY <1>2, <1>3
    <3>4. a = u.nodes[m].hash /\ b = u.nodes[x].hash
      BY <1>2, <1>5, <3>2
    <3> QED
      BY <3>3, <3>4, EdgesAre
  <2>3. <<t.nodes[n].hash, h>> \in Edges(u)
    <3>1. n \in 1..Size(u) /\ c \in u.nodes[n].children /\ t.nodes[n].hash = u.nodes[n].hash
      BY <1>2, <1>3
    <3> QED
      BY <1>3, <3>1, EdgesAre
  <2> QED
    BY <2>1, <2>2, <2>3
<1>7. \A a, b : <<a, b>> \in LabelEdges(u) <=> <<a, b>> \in LabelEdges(t)
  <2>1. ASSUME NEW a, NEW b, <<a, b>> \in LabelEdges(u) PROVE <<a, b>> \in LabelEdges(t)
    <3>1. PICK m \in 1..Size(u) : \E l \in u.nodes[m].labels : a = l /\ b = u.nodes[m].hash
      BY <2>1, EdgesAre
    <3>2. m \in 1..Size(t)
      BY <1>4, <3>1
    <3>3. a \in t.nodes[m].labels /\ b = t.nodes[m].hash
      BY <1>2, <3>1, <3>2
    <3> QED
      BY <3>2, <3>3, EdgesAre
  <2>2. ASSUME NEW a, NEW b, <<a, b>> \in LabelEdges(t) PROVE <<a, b>> \in LabelEdges(u)
    <3>1. PICK m \in 1..Size(t) : \E l \in t.nodes[m].labels : a = l /\ b = t.nodes[m].hash
      BY <2>2, EdgesAre
    <3>2. m \in 1..Size(u) /\ a \in u.nodes[m].labels /\ b = u.nodes[m].hash
      BY <1>2, <1>3, <3>1
    <3> QED
      BY <3>2, EdgesAre
  <2> QED
    BY <2>1, <2>2
<1>8. /\ \A e \in Edges(t) : e = <<e[1], e[2]>>
      /\ \A e \in Edges(u) : e = <<e[1], e[2]>>
      /\ \A e \in LabelEdges(t) : e = <<e[1], e[2]>>
      /\ \A e \in LabelEdges(u) : e = <<e[1], e[2]>>
  BY EdgesAre
<1>9. Edges(u) = Edges(t) \cup {<<t.nodes[n].hash, h>>}
  <2>1. ASSUME NEW e \in Edges(u) PROVE e \in Edges(t) \cup {<<t.nodes[n].hash, h>>}
    <3>1. e = <<e[1], e[2]>>
      BY <1>8
    <3>2. <<e[1], e[2]>> \in Edges(t) \/ (e[1] = t.nodes[n].hash /\ e[2] = h)
      BY <1>6, <3>1
    <3> QED
      BY <3>1, <3>2
  <2>2. ASSUME NEW e \in Edges(t) PROVE e \in Edges(u)
    <3>1. e = <<e[1], e[2]>>
      BY <1>8
    <3> QED
      BY <1>6, <3>1
  <2>3. <<t.nodes[n].hash, h>> \in Edges(u)
    BY <1>6
  <2> QED
    BY <2>1, <2>2, <2>3
<1>10. LabelEdges(u) = LabelEdges(t)
  BY <1>7, <1>8
<1> QED
  BY <1>9, <1>10

\* A trie in which `blocks' names the object c for the hash h.
LEMMA NamesIs ==
  ASSUME NEW H, NEW t, Objects(t, H), NEW h \in H, NEW c \in 2..Size(t)
  PROVE  LET u == Names(t, h, c)
         IN  /\ Objects(u, H) /\ u.nodes = t.nodes /\ u.raised = t.raised
             /\ DOMAIN u.blocks = DOMAIN t.blocks \cup {h}
             /\ \A k \in DOMAIN u.blocks : u.blocks[k] = IF k = h THEN c ELSE t.blocks[k]
<1>1. t \in Tries(H) /\ Size(t) \in Nat
  BY DEF Objects, Tries, Size
<1>2. PICK D \in SUBSET H : t.blocks \in [D -> Nat]
  BY <1>1 DEF Tries
<1>3. PICK b : b = [k \in DOMAIN t.blocks \cup {h} |-> IF k = h THEN c ELSE t.blocks[k]]
  OBVIOUS
<1>4. DOMAIN t.blocks = D /\ c \in Nat
  BY <1>1, <1>2
<1>5. b \in [D \cup {h} -> Nat]
  BY <1>2, <1>3, <1>4
<1>6. PICK u : u = [t EXCEPT !.blocks = b]
  OBVIOUS
<1>7. Names(t, h, c) = u
  BY <1>3, <1>6 DEF Names
<1>8. u \in Tries(H) /\ u.nodes = t.nodes /\ u.raised = t.raised /\ u.blocks = b
  <2>1. D \cup {h} \in SUBSET H
    OBVIOUS
  <2>2. b \in UNION {[E -> Nat] : E \in SUBSET H}
    BY <1>5, <2>1
  <2> QED
    BY <1>1, <1>6, <2>2 DEF Tries
<1>9. Objects(u, H)
  BY <1>8 DEF Objects, Size
<1> QED
  BY <1>3, <1>4, <1>5, <1>7, <1>8, <1>9

\* insertChild, and `blocks' named for it.
Put(t, n, h) == Names(insertChild(t, n, h).trie, h, insertChild(t, n, h).node)

\* What they do together to a trie.
LEMMA PutIs ==
  ASSUME NEW H, NEW t, Objects(t, H), NamesFit(t), NEW n \in 1..Size(t), NEW h \in H
  PROVE  LET u == Put(t, n, h)
             c == insertChild(t, n, h).node
         IN  /\ Objects(u, H) /\ NamesFit(u) /\ Grown(t, u, n, h, c)
             /\ AllNamed(t) => AllNamed(u)
             /\ DOMAIN u.blocks = DOMAIN t.blocks \cup {h} /\ u.blocks[h] = c
             /\ u.raised = t.raised
             /\ u.nodes = insertChild(t, n, h).trie.nodes
<1>1. PICK w : w = insertChild(t, n, h).trie
  OBVIOUS
<1>2. PICK c : c = insertChild(t, n, h).node
  OBVIOUS
<1>3. Objects(w, H) /\ Grown(t, w, n, h, c) /\ w.blocks = t.blocks /\ w.raised = t.raised
  BY <1>1, <1>2, InsertChildGrows
<1>4. PICK u : u = Put(t, n, h)
  OBVIOUS
<1>5. u = Names(w, h, c)
  BY <1>1, <1>2, <1>4 DEF Put
<1>6. c \in 2..Size(w)
  BY <1>3 DEF Grown
<1>7. /\ Objects(u, H) /\ u.nodes = w.nodes /\ u.raised = w.raised
      /\ DOMAIN u.blocks = DOMAIN w.blocks \cup {h}
      /\ \A k \in DOMAIN u.blocks : u.blocks[k] = IF k = h THEN c ELSE w.blocks[k]
  BY <1>3, <1>5, <1>6, NamesIs
<1>8. Grown(t, u, n, h, c)
  <2>1. Size(u) = Size(w)
    BY <1>7, Zenon DEF Size
  <2> QED
    BY <1>3, <1>7, <2>1 DEF Grown
<1>9. Size(t) \in Nat /\ Size(u) \in Nat /\ Size(t) <= Size(u)
      /\ \A m \in 1..Size(t) : u.nodes[m].hash = t.nodes[m].hash
  <2>1. Size(t) \in Nat /\ Size(u) \in Nat
    BY <1>7 DEF Objects, Tries, Size
  <2> QED
    BY <1>8, <2>1 DEF Grown
<1>10. NamesFit(u)
  <2> SUFFICES ASSUME NEW k \in DOMAIN u.blocks
               PROVE  u.blocks[k] \in 2..Size(u) /\ u.nodes[u.blocks[k]].hash = k
    BY DEF NamesFit
  <2>1. CASE k = h
    BY <1>7, <1>8, <2>1 DEF Grown
  <2>2. CASE k # h
    <3>1. k \in DOMAIN t.blocks /\ u.blocks[k] = t.blocks[k]
      BY <1>3, <1>7, <2>2
    <3>2. t.blocks[k] \in 2..Size(t) /\ t.nodes[t.blocks[k]].hash = k
      BY <3>1 DEF NamesFit
    <3>3. t.blocks[k] \in 1..Size(t) /\ t.blocks[k] \in 2..Size(u)
      BY <1>9, <3>2
    <3> QED
      BY <1>9, <3>1, <3>2, <3>3
  <2> QED
    BY <2>1, <2>2
<1>11. ASSUME AllNamed(t) PROVE AllNamed(u)
  <2> SUFFICES ASSUME NEW m \in 2..Size(u) PROVE u.nodes[m].hash \in DOMAIN u.blocks
    BY DEF AllNamed
  <2>1. CASE m <= Size(t)
    <3>1. m \in 2..Size(t) /\ m \in 1..Size(t)
      BY <1>9, <2>1
    <3>2. t.nodes[m].hash \in DOMAIN t.blocks
      BY <1>11, <3>1 DEF AllNamed
    <3> QED
      BY <1>3, <1>7, <1>9, <3>1, <3>2
  <2>2. CASE m > Size(t)
    <3>1. m = c
      <4>1. Size(u) # Size(t)
        BY <1>9, <2>2
      <4>2. c = Size(t) + 1 /\ Size(u) = Size(t) + 1
        BY <1>8, <4>1 DEF Grown
      <4> QED
        BY <1>9, <2>2, <4>2
    <3> QED
      BY <1>7, <1>8, <3>1 DEF Grown
  <2> QED
    BY <1>9, <2>1, <2>2
<1>12. u.blocks[h] = c
  BY <1>7
<1>13. DOMAIN u.blocks = DOMAIN t.blocks \cup {h} /\ u.raised = t.raised
  BY <1>3, <1>7
<1>14. u.nodes = w.nodes /\ Objects(u, H)
  BY <1>7
<1> QED
  BY <1>1, <1>2, <1>4, <1>8, <1>10, <1>11, <1>12, <1>13, <1>14, Zenon

\* A trie whose objects are a tree.
TreeTrie(t, H) == Trie(t, H) /\ UniqueParents(t) /\ Connected(t)

\* Put on such a trie, as its users see it.
LEMMA PutSums ==
  ASSUME NEW H, NEW t, TreeTrie(t, H), NEW n \in 1..Size(t), NEW h \in H
  PROVE  LET u == Put(t, n, h)
         IN  /\ TreeTrie(u, H)
             /\ Edges(u) = Edges(t) \cup {<<t.nodes[n].hash, h>>}
             /\ LabelEdges(u) = LabelEdges(t)
             /\ DOMAIN u.blocks = DOMAIN t.blocks \cup {h}
             /\ u.blocks[h] = insertChild(t, n, h).node
             /\ u.blocks[h] \in 1..Size(u) /\ u.nodes[u.blocks[h]].hash = h
             /\ u.raised = t.raised
             /\ \A k : ChildOf(t, Root, k) \subseteq ChildOf(u, Root, k)
             /\ n = Root => u.blocks[h] \in ChildOf(u, Root, h)
<1>1. PICK u : u = Put(t, n, h)
  OBVIOUS
<1>2. PICK c : c = insertChild(t, n, h).node
  OBVIOUS
<1>3. Objects(t, H) /\ NamesFit(t) /\ AllNamed(t) /\ UniqueParents(t) /\ Connected(t)
  BY DEF TreeTrie, Trie
<1>4. /\ Objects(u, H) /\ NamesFit(u) /\ Grown(t, u, n, h, c)
      /\ AllNamed(u)
      /\ DOMAIN u.blocks = DOMAIN t.blocks \cup {h} /\ u.blocks[h] = c
      /\ u.raised = t.raised
  BY <1>1, <1>2, <1>3, PutIs
<1>5. UniqueParents(u) /\ Connected(u)
  BY <1>3, <1>4, GrownTree
<1>6. Edges(u) = Edges(t) \cup {<<t.nodes[n].hash, h>>} /\ LabelEdges(u) = LabelEdges(t)
  BY <1>3, <1>4, GrownEdges
<1>7. Size(t) \in Nat /\ Size(u) \in Nat /\ Size(t) >= 1
  BY <1>3, <1>4 DEF Objects, Tries, Size
<1>8. c \in 1..Size(u) /\ u.nodes[c].hash = h
  BY <1>4, <1>7 DEF Grown
<1>9. ASSUME NEW k PROVE ChildOf(t, Root, k) \subseteq ChildOf(u, Root, k)
  <2> SUFFICES ASSUME NEW x \in ChildOf(t, Root, k) PROVE x \in ChildOf(u, Root, k)
    OBVIOUS
  <2>1. Root \in 1..Size(t)
    BY <1>7 DEF Root
  <2>2. x \in t.nodes[Root].children /\ t.nodes[x].hash = k
    BY DEF ChildOf
  <2>3. x \in 2..Size(t)
    BY <1>3, <2>1, <2>2 DEF Objects
  <2>4. x \in 1..Size(t)
    BY <1>7, <2>3
  <2>5. u.nodes[x].hash = k
    BY <1>4, <2>2, <2>4 DEF Grown
  <2>6. x \in u.nodes[Root].children
    BY <1>4, <2>1, <2>2 DEF Grown
  <2> QED
    BY <2>5, <2>6 DEF ChildOf
<1>10. n = Root => c \in ChildOf(u, Root, h)
  BY <1>4 DEF Grown, ChildOf
<1>11. TreeTrie(u, H)
  BY <1>4, <1>5 DEF TreeTrie, Trie
<1> QED
  BY <1>1, <1>2, <1>4, <1>6, <1>8, <1>9, <1>10, <1>11, Zenon

\* A trie with the same objects, whatever their values.
SameObjects(t, u, H) ==
  /\ u \in Tries(H) /\ Size(u) = Size(t) /\ u.blocks = t.blocks /\ u.raised = t.raised
  /\ \A m \in 1..Size(t) : u.nodes[m].hash = t.nodes[m].hash /\ u.nodes[m].children = t.nodes[m].children

\* It is a tree as well, and has the same edges.
LEMMA SameObjectsSame ==
  ASSUME NEW H, NEW t, NEW u, TreeTrie(t, H), SameObjects(t, u, H)
  PROVE  /\ TreeTrie(u, H) /\ Edges(u) = Edges(t)
         /\ \A k : ChildOf(u, Root, k) = ChildOf(t, Root, k)
<1>1. /\ Size(t) \in Nat /\ Size(t) >= 1
      /\ Objects(t, H) /\ \A m \in 1..Size(t) : t.nodes[m].children \subseteq 2..Size(t)
  BY DEF TreeTrie, Trie, Objects, Tries, Size
<1>9. u \in Tries(H) /\ Size(u) = Size(t) /\ u.blocks = t.blocks
  BY DEF SameObjects
<1>10. \A m \in 1..Size(t) :
         u.nodes[m].hash = t.nodes[m].hash /\ u.nodes[m].children = t.nodes[m].children
  BY DEF SameObjects
<1>11. Root \in 1..Size(t) /\ \A m \in 2..Size(t) : m \in 1..Size(t)
  BY <1>1 DEF Root
<1>12. Objects(u, H)
  <2>1. u.nodes[Root].hash = "root"
    BY <1>1, <1>10, <1>11 DEF Objects
  <2>2. \A m \in 2..Size(u) : u.nodes[m].hash \in H
    BY <1>1, <1>9, <1>10, <1>11 DEF Objects
  <2>3. \A m \in 1..Size(u) : u.nodes[m].children \subseteq 2..Size(u)
    BY <1>1, <1>9, <1>10
  <2> QED
    BY <1>1, <1>9, <2>1, <2>2, <2>3 DEF Objects
<1>13. NamesFit(u) /\ AllNamed(u)
  <2>1. NamesFit(t) /\ AllNamed(t)
    BY DEF TreeTrie, Trie
  <2>2. NamesFit(u)
    BY <1>9, <1>10, <1>11, <2>1 DEF NamesFit
  <2>3. AllNamed(u)
    BY <1>9, <1>10, <1>11, <2>1 DEF AllNamed
  <2> QED
    BY <2>2, <2>3
<1>14. UniqueParents(u)
  BY <1>9, <1>10 DEF TreeTrie, UniqueParents
<1>15. Connected(u)
  <2>1. \A S \in SUBSET (1..Size(t)) : HoldsChildren(u, S) => HoldsChildren(t, S)
    BY <1>10 DEF HoldsChildren
  <2> QED
    BY <1>9, <2>1 DEF TreeTrie, Connected
<1>16. \A m \in 1..Size(t) : \A c \in t.nodes[m].children : u.nodes[c].hash = t.nodes[c].hash
  <2> SUFFICES ASSUME NEW m \in 1..Size(t), NEW c \in t.nodes[m].children
               PROVE  u.nodes[c].hash = t.nodes[c].hash
    OBVIOUS
  <2>1. c \in 2..Size(t)
    BY <1>1
  <2>2. c \in 1..Size(t)
    BY <1>11, <2>1
  <2> QED
    BY <1>10, <2>2
<1>17. Edges(u) = Edges(t)
  <2>1. ASSUME NEW a, NEW d PROVE <<a, d>> \in Edges(u) <=> <<a, d>> \in Edges(t)
    <3>1. <<a, d>> \in Edges(u) <=> \E m \in 1..Size(t) : \E c \in t.nodes[m].children :
             a = t.nodes[m].hash /\ d = t.nodes[c].hash
      <4>1. <<a, d>> \in Edges(u) <=> \E m \in 1..Size(u) : \E c \in u.nodes[m].children :
             a = u.nodes[m].hash /\ d = u.nodes[c].hash
        BY <1>12, EdgesAre
      <4>2. \A m \in 1..Size(t) :
              (\E c \in u.nodes[m].children : a = u.nodes[m].hash /\ d = u.nodes[c].hash)
                <=> (\E c \in t.nodes[m].children : a = t.nodes[m].hash /\ d = t.nodes[c].hash)
        <5> SUFFICES ASSUME NEW m \in 1..Size(t)
                     PROVE (\E c \in u.nodes[m].children : a = u.nodes[m].hash /\ d = u.nodes[c].hash)
                       <=> (\E c \in t.nodes[m].children : a = t.nodes[m].hash /\ d = t.nodes[c].hash)
          OBVIOUS
        <5>1. u.nodes[m].hash = t.nodes[m].hash /\ u.nodes[m].children = t.nodes[m].children
          BY <1>10
        <5>2. \A c \in t.nodes[m].children : u.nodes[c].hash = t.nodes[c].hash
          BY <1>16
        <5> QED
          BY <5>1, <5>2, Zenon
      <4> QED
        BY <1>9, <4>1, <4>2
    <3> QED
      BY <1>1, <3>1, EdgesAre
  <2>2. (\A e \in Edges(t) : e = <<e[1], e[2]>>) /\ (\A e \in Edges(u) : e = <<e[1], e[2]>>)
    BY <1>1, <1>12, EdgesAre
  <2> QED
    BY <2>1, <2>2
<1>19. \A k : ChildOf(u, Root, k) = ChildOf(t, Root, k)
  BY <1>10, <1>11, <1>16 DEF ChildOf
<1>20. TreeTrie(u, H)
  BY <1>12, <1>13, <1>14, <1>15 DEF TreeTrie, Trie
<1> QED
  BY <1>17, <1>19, <1>20

\* The label l at the object n.
WithLabel(t, n, l) == [t EXCEPT !.nodes[n].labels = @ \cup {l}]

\* A label more at an object is an edge of the labels more.
LEMMA LabelIs ==
  ASSUME NEW H, NEW t, TreeTrie(t, H), NEW n \in 1..Size(t), NEW l \in Nat \cup Peer
  PROVE  LET u == WithLabel(t, n, l)
         IN  /\ TreeTrie(u, H) /\ Edges(u) = Edges(t)
             /\ LabelEdges(u) = LabelEdges(t) \cup {<<l, t.nodes[n].hash>>}
             /\ u.blocks = t.blocks /\ u.raised = t.raised
             /\ \A k : ChildOf(u, Root, k) = ChildOf(t, Root, k)
<1>1. /\ t \in Tries(H) /\ t.nodes \in Seq(TrieNode(H)) /\ Size(t) \in Nat /\ Size(t) >= 1
      /\ Objects(t, H) /\ \A m \in 1..Size(t) : t.nodes[m].children \subseteq 2..Size(t)
  BY DEF TreeTrie, Trie, Objects, Tries, Size
<1>2. PICK b : b = [t.nodes[n] EXCEPT !.labels = @ \cup {l}]
  OBVIOUS
<1>3. PICK q : q = [t.nodes EXCEPT ![n] = b]
  OBVIOUS
<1>4. PICK u : u = [t EXCEPT !.nodes = q]
  OBVIOUS
<1>5. u = WithLabel(t, n, l)
  BY <1>2, <1>3, <1>4 DEF WithLabel
<1>6. t.nodes[n] \in TrieNode(H)
  BY <1>1 DEF Size
<1>7. /\ b \in TrieNode(H) /\ b.hash = t.nodes[n].hash /\ b.children = t.nodes[n].children
      /\ b.labels = t.nodes[n].labels \cup {l}
  BY <1>2, <1>6 DEF TrieNode
<1>8. q \in Seq(TrieNode(H)) /\ Len(q) = Size(t) /\ \A m \in 1..Size(t) : q[m] = IF m = n THEN b ELSE t.nodes[m]
  BY <1>1, <1>3, <1>7 DEF Size
<1>9. u \in Tries(H) /\ u.nodes = q /\ u.blocks = t.blocks /\ u.raised = t.raised /\ Size(u) = Size(t)
  BY <1>1, <1>4, <1>8 DEF Tries, Size
<1>10. \A m \in 1..Size(t) :
         /\ u.nodes[m].hash = t.nodes[m].hash /\ u.nodes[m].children = t.nodes[m].children
         /\ u.nodes[m].labels = IF m = n THEN t.nodes[m].labels \cup {l} ELSE t.nodes[m].labels
  BY <1>7, <1>8, <1>9
<1>11. /\ TreeTrie(u, H) /\ Edges(u) = Edges(t)
       /\ \A k : ChildOf(u, Root, k) = ChildOf(t, Root, k)
  <2>1. SameObjects(t, u, H)
    BY <1>9, <1>10 DEF SameObjects
  <2> QED
    BY <2>1, SameObjectsSame
<1>12. Objects(u, H)
  BY <1>11 DEF TreeTrie, Trie
<1>18. LabelEdges(u) = LabelEdges(t) \cup {<<l, t.nodes[n].hash>>}
  <2>1. ASSUME NEW a, NEW d
        PROVE  <<a, d>> \in LabelEdges(u) <=> <<a, d>> \in LabelEdges(t) \/ (a = l /\ d = t.nodes[n].hash)
    <3>1. <<a, d>> \in LabelEdges(u) <=> \E m \in 1..Size(u) : \E x \in u.nodes[m].labels :
             a = x /\ d = u.nodes[m].hash
      BY <1>12, EdgesAre
    <3>2. <<a, d>> \in LabelEdges(t) <=> \E m \in 1..Size(t) : \E x \in t.nodes[m].labels :
             a = x /\ d = t.nodes[m].hash
      BY <1>1, EdgesAre
    <3> QED
      BY <1>9, <1>10, <3>1, <3>2
  <2>2. (\A e \in LabelEdges(t) : e = <<e[1], e[2]>>) /\ (\A e \in LabelEdges(u) : e = <<e[1], e[2]>>)
    BY <1>1, <1>12, EdgesAre
  <2>3. ASSUME NEW e \in LabelEdges(u) PROVE e \in LabelEdges(t) \cup {<<l, t.nodes[n].hash>>}
    <3>1. e = <<e[1], e[2]>>
      BY <2>2
    <3>2. <<e[1], e[2]>> \in LabelEdges(t) \/ (e[1] = l /\ e[2] = t.nodes[n].hash)
      BY <2>1, <3>1
    <3> QED
      BY <3>1, <3>2
  <2>4. ASSUME NEW e \in LabelEdges(t) PROVE e \in LabelEdges(u)
    <3>1. e = <<e[1], e[2]>>
      BY <2>2
    <3> QED
      BY <2>1, <3>1
  <2>5. <<l, t.nodes[n].hash>> \in LabelEdges(u)
    BY <2>1
  <2> QED
    BY <2>3, <2>4, <2>5
<1> QED
  <2>1. /\ TreeTrie(u, H) /\ Edges(u) = Edges(t)
        /\ LabelEdges(u) = LabelEdges(t) \cup {<<l, t.nodes[n].hash>>}
        /\ u.blocks = t.blocks /\ u.raised = t.raised
        /\ \A k : ChildOf(u, Root, k) = ChildOf(t, Root, k)
    BY <1>9, <1>11, <1>18
  <2> QED
    BY <1>5, <2>1, Zenon

-----------------------------------------------------------------------------
(* insert, along a chain. *)

\* What insert holds between two parts of a chain.
Reached(H) ==
  {a \in [trie : Tries(H), node : Nat] : TreeTrie(a.trie, H) /\ a.node \in 1..Size(a.trie)}

\* One part of a chain: an edge below the object that was reached, or a loop at
\* a hash that was known.
PartDone(a, b, h) ==
  /\ Edges(b.trie) = Edges(a.trie) \cup
       {<<IF h \in DOMAIN a.trie.blocks THEN h ELSE a.trie.nodes[a.node].hash, h>>}
  /\ LabelEdges(b.trie) = LabelEdges(a.trie)
  /\ DOMAIN b.trie.blocks = DOMAIN a.trie.blocks \cup {h}
  /\ b.trie.nodes[b.node].hash = h
  /\ b.trie.raised = a.trie.raised
  /\ \A k : ChildOf(a.trie, Root, k) \subseteq ChildOf(b.trie, Root, k)
  /\ a.node = Root /\ h \notin DOMAIN a.trie.blocks => b.node \in ChildOf(b.trie, Root, h)

\* That is what InsertPart does.
LEMMA PartIs ==
  ASSUME NEW H, NEW a \in Reached(H), NEW h \in H
  PROVE  InsertPart(a, h) \in Reached(H) /\ PartDone(a, InsertPart(a, h), h)
<1>1. PICK t : t = a.trie
  OBVIOUS
<1>2. TreeTrie(t, H) /\ a.node \in 1..Size(t)
  BY <1>1 DEF Reached
<1>3. PICK n : n = IF Known(t, h) THEN t.blocks[h] ELSE a.node
  OBVIOUS
<1>4. n \in 1..Size(t) /\ t.nodes[n].hash = IF h \in DOMAIN t.blocks THEN h ELSE t.nodes[a.node].hash
  <2>1. Size(t) \in Nat
    BY <1>2 DEF TreeTrie, Trie, Objects, Tries, Size
  <2>2. CASE h \in DOMAIN t.blocks
    <3>1. n = t.blocks[h]
      BY <1>3, <2>2 DEF Known
    <3>2. n \in 2..Size(t) /\ t.nodes[n].hash = h
      BY <1>2, <2>2, <3>1 DEF TreeTrie, Trie, NamesFit
    <3>3. n \in 1..Size(t)
      BY <2>1, <3>2
    <3> QED
      BY <2>2, <3>2, <3>3
  <2>3. CASE h \notin DOMAIN t.blocks
    BY <1>2, <1>3, <2>3 DEF Known
  <2> QED
    BY <2>2, <2>3
<1>5. PICK u : u = Put(t, n, h)
  OBVIOUS
<1>6. PICK c : c = insertChild(t, n, h).node
  OBVIOUS
<1>7. PICK b : b = [trie |-> u, node |-> c]
  OBVIOUS
<1>8. InsertPart(a, h) = b
  BY <1>1, <1>3, <1>5, <1>6, <1>7 DEF InsertPart, Put
<1>9. /\ TreeTrie(u, H)
      /\ Edges(u) = Edges(t) \cup {<<t.nodes[n].hash, h>>}
      /\ LabelEdges(u) = LabelEdges(t)
      /\ DOMAIN u.blocks = DOMAIN t.blocks \cup {h}
      /\ u.blocks[h] = c
      /\ u.blocks[h] \in 1..Size(u) /\ u.nodes[u.blocks[h]].hash = h
      /\ u.raised = t.raised
      /\ \A k : ChildOf(t, Root, k) \subseteq ChildOf(u, Root, k)
      /\ n = Root => u.blocks[h] \in ChildOf(u, Root, h)
  BY <1>2, <1>4, <1>5, <1>6, PutSums
<1>10. b.trie = u /\ b.node = c
  BY <1>7
<1>11. b \in Reached(H)
  <2>1. u \in Tries(H) /\ Size(u) \in Nat
    BY <1>9 DEF TreeTrie, Trie, Objects, Tries, Size
  <2>2. c \in 1..Size(u)
    BY <1>9
  <2>3. c \in Nat
    BY <2>1, <2>2
  <2>4. b \in [trie : Tries(H), node : Nat]
    BY <1>7, <2>1, <2>3
  <2> QED
    BY <1>9, <1>10, <2>2, <2>4 DEF Reached
<1>12. Edges(u) = Edges(t) \cup {<<IF h \in DOMAIN t.blocks THEN h ELSE t.nodes[a.node].hash, h>>}
  BY <1>4, <1>9, Zenon
<1>13. a.node = Root /\ h \notin DOMAIN t.blocks => c \in ChildOf(u, Root, h)
  BY <1>3, <1>9 DEF Known
<1>14. u.nodes[c].hash = h
  BY <1>9
<1>15. PartDone(a, b, h)
  BY <1>1, <1>9, <1>10, <1>12, <1>13, <1>14, Zenon DEF PartDone
<1> QED
  BY <1>8, <1>11, <1>15

\* a holds what insert reaches along the chain, and u is its result.
Runs(t, chain, l, a, u) ==
  /\ a[0].trie = t
  /\ a[0].node = IF Known(t, Last(chain)) THEN t.blocks[Last(chain)] ELSE Root
  /\ \A k \in 1..Len(chain) : a[k] = InsertPart(a[k - 1], chain[k])
  /\ u = WithLabel(a[Len(chain)].trie, a[Len(chain)].node, l)

\* insert goes along the chain part by part, and labels the object it ends at.
LEMMA InsertRuns ==
  ASSUME NEW H, NEW t, TreeTrie(t, H), NEW chain \in Seq(H), chain # <<>>, NEW l \in Nat \cup Peer
  PROVE  \E a \in [0..Len(chain) -> Reached(H)] : Runs(t, chain, l, a, insert(t, chain, l))
<1>1. PICK len \in Nat : len = Len(chain)
  OBVIOUS
<1>2. len >= 1 /\ \A k \in 1..len : chain[k] \in H
  BY <1>1
<1>3. PICK n : n = IF Known(t, Last(chain)) THEN t.blocks[Last(chain)] ELSE Root
  OBVIOUS
<1>4. n \in 1..Size(t)
  <2>1. Size(t) \in Nat /\ Size(t) >= 1 /\ NamesFit(t)
    BY DEF TreeTrie, Trie, Objects, Tries, Size
  <2>2. CASE Known(t, Last(chain))
    <3>1. n \in 2..Size(t)
      BY <1>3, <2>1, <2>2 DEF Known, NamesFit
    <3> QED
      BY <2>1, <3>1
  <2>3. CASE ~Known(t, Last(chain))
    BY <1>3, <2>1, <2>3 DEF Root
  <2> QED
    BY <2>2, <2>3
<1>5. PICK x : x = [trie |-> t, node |-> n]
  OBVIOUS
<1>6. x \in Reached(H)
  <2>1. t \in Tries(H) /\ Size(t) \in Nat
    BY DEF TreeTrie, Trie, Objects, Tries, Size
  <2>2. n \in Nat
    BY <1>4, <2>1
  <2> QED
    BY <1>4, <1>5, <2>1, <2>2 DEF Reached
<1>7. PICK step : step = [p \in Nat \X Reached(H) |->
                            IF p[1] + 1 \in 1..len THEN InsertPart(p[2], chain[p[1] + 1]) ELSE p[2]]
  OBVIOUS
<1>8. step \in [Nat \X Reached(H) -> Reached(H)]
  <2>1. \A p \in Nat \X Reached(H) :
          (IF p[1] + 1 \in 1..len THEN InsertPart(p[2], chain[p[1] + 1]) ELSE p[2]) \in Reached(H)
    <3> SUFFICES ASSUME NEW p \in Nat \X Reached(H), p[1] + 1 \in 1..len
                 PROVE  InsertPart(p[2], chain[p[1] + 1]) \in Reached(H)
      OBVIOUS
    <3>1. p[2] \in Reached(H) /\ chain[p[1] + 1] \in H
      BY <1>2
    <3> QED
      BY <3>1, PartIs
  <2> QED
    BY <1>7, <2>1
<1>9. PICK a : a \in Unrolled(len, Reached(H), x, step)
  BY <1>6, <1>8, UnrolledExists
<1>10. /\ a \in [0..len -> Reached(H)] /\ a[0] = x
       /\ \A i \in 0..(len - 1) : a[i + 1] = step[<<i, a[i]>>]
  BY <1>9 DEF Unrolled
<1>11. \A k \in 1..len : a[k] = InsertPart(a[k - 1], chain[k])
  <2> SUFFICES ASSUME NEW k \in 1..len PROVE a[k] = InsertPart(a[k - 1], chain[k])
    OBVIOUS
  <2>1. PICK i \in 0..(len - 1) : i = k - 1
    OBVIOUS
  <2>2. i + 1 = k /\ i \in Nat /\ i \in 0..len /\ i + 1 \in 1..len
    BY <2>1
  <2>3. a[i] \in Reached(H)
    BY <1>10, <2>2
  <2>4. a[k] = step[<<i, a[i]>>]
    BY <1>10, <2>2
  <2>5. step[<<i, a[i]>>] = InsertPart(a[i], chain[k])
    BY <1>7, <2>2, <2>3
  <2> QED
    BY <2>1, <2>4, <2>5
<1> DEFINE Body(g) == [k \in 0..Len(chain) |-> IF k = 0 THEN x ELSE InsertPart(g[k - 1], chain[k])]
<1>12. a = Body(a)
  <2>1. \A k \in 0..len : a[k] = IF k = 0 THEN x ELSE InsertPart(a[k - 1], chain[k])
    BY <1>10, <1>11
  <2> QED
    BY <1>1, <1>10, <2>1
<1>13. PICK g : g = CHOOSE f : f = Body(f)
  OBVIOUS
<1>14. g = Body(g)
  <2> HIDE DEF Body
  <2> QED
    BY <1>12, <1>13
<1>15. insert(t, chain, l) = WithLabel(g[Len(chain)].trie, g[Len(chain)].node, l)
  <2>1. g = CHOOSE f : f = [k \in 0..Len(chain) |->
               IF k = 0
               THEN [trie |-> t, node |-> IF Known(t, Last(chain)) THEN t.blocks[Last(chain)] ELSE Root]
               ELSE InsertPart(f[k - 1], chain[k])]
    BY <1>3, <1>5, <1>13
  <2> QED
    BY <2>1 DEF insert, WithLabel
<1>16. g = a
  <2>1. \A k \in 0..len : g[k] = IF k = 0 THEN x ELSE InsertPart(g[k - 1], chain[k])
    BY <1>1, <1>14, Zenon
  <2>2. PICK P : P = {k \in Nat : k <= len => g[k] = a[k]}
    OBVIOUS
  <2>3. 0 \in P
    BY <1>10, <2>1, <2>2
  <2>4. ASSUME NEW k \in Nat, k \in P PROVE k + 1 \in P
    <3>1. CASE k + 1 <= len
      <4>1. k + 1 \in 1..len /\ k + 1 \in 0..len /\ k + 1 # 0 /\ k + 1 - 1 = k
        BY <3>1
      <4>2. g[k] = a[k]
        BY <2>2, <2>4, <3>1
      <4>3. g[k + 1] = InsertPart(g[k + 1 - 1], chain[k + 1])
        BY <2>1, <4>1
      <4>4. a[k + 1] = InsertPart(a[k + 1 - 1], chain[k + 1])
        BY <1>11, <4>1
      <4>5. g[k + 1] = a[k + 1]
        BY <4>1, <4>2, <4>3, <4>4
      <4> QED
        BY <2>2, <4>5
    <3> QED
      BY <2>2, <3>1
  <2>5. Nat \subseteq P
    BY <2>3, <2>4, NatAll
  <2>6. \A k \in 0..len : g[k] = a[k]
    BY <2>2, <2>5
  <2>7. g = [k \in 0..len |-> g[k]]
    BY <1>1, <1>14
  <2> QED
    BY <1>10, <2>6, <2>7
<1>17. a[0].trie = t /\ a[0].node = n
  BY <1>5, <1>10
<1>18. insert(t, chain, l) = WithLabel(a[len].trie, a[len].node, l)
  BY <1>1, <1>15, <1>16
<1>19. Runs(t, chain, l, a, insert(t, chain, l))
  BY <1>1, <1>3, <1>11, <1>17, <1>18 DEF Runs
<1> QED
  BY <1>1, <1>10, <1>19

-----------------------------------------------------------------------------
(* A trie with one parent for each object, all reachable, is a tree. *)

\* The objects below those of S, and S.
OneBelow(t, S) == S \cup UNION {t.nodes[m].children : m \in S}

\* After as many steps as there are objects, every object was reached.
LEMMA AllBelow ==
  ASSUME NEW H, NEW t, TreeTrie(t, H), NEW B,
         B[0] = {Root}, \A k \in 1..Size(t) : B[k] = OneBelow(t, B[k - 1])
  PROVE  B[Size(t)] = 1..Size(t)
<1>1. PICK len \in Nat : len = Size(t)
  BY DEF TreeTrie, Trie, Objects, Tries, Size
<1>2. len >= 1 /\ Root \in 1..len /\ \A m \in 1..len : t.nodes[m].children \subseteq 1..len
  <2>1. len >= 1 /\ \A m \in 1..len : t.nodes[m].children \subseteq 2..len
    BY <1>1 DEF TreeTrie, Trie, Objects
  <2>2. 2..len \subseteq 1..len /\ 1 \in 1..len
    BY <2>1
  <2> QED
    BY <2>1, <2>2 DEF Root
<1>3. PICK P : P = {k \in Nat : k <= len => /\ B[k] \in SUBSET (1..len) /\ Root \in B[k]
                                            /\ B[k] = 1..len \/ Cardinality(B[k]) >= k + 1}
  OBVIOUS
<1>4. 0 \in P
  <2>1. Cardinality(B[0]) = 1
    BY FS_Singleton
  <2>2. B[0] \in SUBSET (1..len) /\ Root \in B[0]
    BY <1>2
  <2>3. Cardinality(B[0]) >= 0 + 1 /\ 0 \in Nat
    BY <2>1
  <2> QED
    BY <1>3, <2>2, <2>3
<1>5. ASSUME NEW k \in Nat, k \in P PROVE k + 1 \in P
  <2> SUFFICES ASSUME k + 1 <= len PROVE k + 1 \in P
    BY <1>3
  <2>1. /\ B[k] \in SUBSET (1..len) /\ Root \in B[k]
        /\ B[k] = 1..len \/ Cardinality(B[k]) >= k + 1
    BY <1>3, <1>5
  <2>2. B[k + 1] = OneBelow(t, B[k])
    <3>1. k + 1 \in 1..Size(t) /\ k + 1 - 1 = k
      BY <1>1
    <3> QED
      BY <3>1
  <2>3. B[k] \subseteq B[k + 1] /\ \A m \in B[k] : t.nodes[m].children \subseteq B[k + 1]
    BY <2>2 DEF OneBelow
  <2>4. B[k + 1] \in SUBSET (1..len)
    BY <1>2, <2>1, <2>2 DEF OneBelow
  <2>5. B[k + 1] = 1..len \/ Cardinality(B[k + 1]) >= k + 2
    <3>1. CASE HoldsChildren(t, B[k])
      <4>1. B[k] = 1..len
        BY <1>1, <2>1, <3>1 DEF TreeTrie, Connected
      <4> QED
        BY <2>3, <2>4, <4>1
    <3>2. CASE ~HoldsChildren(t, B[k]) /\ B[k] # 1..len
      <4>0. PICK m \in B[k] : ~(t.nodes[m].children \subseteq B[k])
        BY <2>1, <3>2 DEF HoldsChildren
      <4>1. PICK c \in t.nodes[m].children : c \notin B[k]
        BY <4>0
      <4>2. B[k] \cup {c} \subseteq B[k + 1]
        BY <2>3, <4>1
      <4>3. IsFiniteSet(1..len)
        BY FS_Interval
      <4>4. IsFiniteSet(B[k]) /\ IsFiniteSet(B[k + 1])
        BY <2>1, <2>4, <4>3, FS_Subset
      <4>5. Cardinality(B[k] \cup {c}) = Cardinality(B[k]) + 1
        BY <4>1, <4>4, FS_AddElement
      <4>6. Cardinality(B[k] \cup {c}) <= Cardinality(B[k + 1])
        BY <4>2, <4>4, FS_Subset
      <4>7. Cardinality(B[k]) \in Nat /\ Cardinality(B[k + 1]) \in Nat
        BY <4>4, FS_CardinalityType
      <4> QED
        BY <2>1, <3>2, <4>5, <4>6, <4>7
    <3>3. CASE B[k] = 1..len
      BY <2>3, <2>4, <3>3
    <3> QED
      BY <3>1, <3>2, <3>3
  <2>6. Root \in B[k + 1] /\ k + 1 \in Nat /\ k + 1 + 1 = k + 2
    BY <2>1, <2>3
  <2> QED
    BY <1>3, <2>4, <2>5, <2>6
<1>6. len \in P
  <2>1. Nat \subseteq P
    BY <1>4, <1>5, NatAll
  <2> QED
    BY <2>1
<1>7. B[len] \in SUBSET (1..len) /\ (B[len] = 1..len \/ Cardinality(B[len]) >= len + 1)
  BY <1>3, <1>6
<1>8. Cardinality(B[len]) <= len
  <2>1. IsFiniteSet(1..len) /\ Cardinality(1..len) = len
    BY <1>2, FS_Interval
  <2> QED
    BY <1>7, <2>1, FS_Subset
<1>9. Cardinality(B[len]) \in Nat
  <2>1. IsFiniteSet(1..len)
    BY FS_Interval
  <2>2. IsFiniteSet(B[len])
    BY <1>7, <2>1, FS_Subset
  <2> QED
    BY <2>2, FS_CardinalityType
<1> QED
  BY <1>1, <1>7, <1>8, <1>9

\* Such a trie satisfies IsTree.
LEMMA TreeTrieIsTree ==
  ASSUME NEW H, NEW t, TreeTrie(t, H)
  PROVE  IsTree(t)
<1>1. PICK len \in Nat : len = Len(t.nodes)
  BY DEF TreeTrie, Trie, Objects, Tries
<1>2. DOMAIN t.nodes = 1..len /\ Size(t) = len /\ len >= 1
  BY <1>1 DEF TreeTrie, Trie, Objects, Tries, Size
<1>3. \A m \in 1..len : t.nodes[m].children \subseteq 2..len
  BY <1>2 DEF TreeTrie, Trie, Objects
<1>4. {m \in DOMAIN t.nodes : Root \in t.nodes[m].children} = {}
  BY <1>2, <1>3 DEF Root
<1>5. ASSUME NEW n \in DOMAIN t.nodes \ {Root}
      PROVE  Cardinality({m \in DOMAIN t.nodes : n \in t.nodes[m].children}) = 1
  <2>1. PICK S : S = (1..len) \ {n}
    OBVIOUS
  <2>2. ~HoldsChildren(t, S)
    <3>1. S \in SUBSET (1..Size(t)) /\ S # 1..Size(t)
      BY <1>2, <2>1
    <3> QED
      BY <3>1 DEF TreeTrie, Connected
  <2>3. Root \in S
    BY <1>2, <2>1 DEF Root
  <2>4. PICK m \in S : ~(t.nodes[m].children \subseteq S)
    BY <2>2, <2>3 DEF HoldsChildren
  <2>5. m \in 1..len /\ t.nodes[m].children \subseteq 1..len
    <3>1. m \in 1..len
      BY <2>1
    <3>2. 2..len \subseteq 1..len
      BY <1>2
    <3> QED
      BY <1>3, <3>1, <3>2
  <2>6. n \in t.nodes[m].children
    BY <2>1, <2>4, <2>5
  <2>7. {k \in DOMAIN t.nodes : n \in t.nodes[k].children} = {m}
    BY <1>2, <2>5, <2>6 DEF TreeTrie, UniqueParents
  <2> QED
    BY <2>7, FS_Singleton
<1> DEFINE Body(g, k) == IF k = 0 THEN {Root} ELSE g[k - 1] \cup UNION {t.nodes[m].children : m \in g[k - 1]}
<1>6. PICK S : S = SUBSET (1..len)
  OBVIOUS
<1>7. PICK step : step = [p \in Nat \X S |-> OneBelow(t, p[2])]
  OBVIOUS
<1>8. step \in [Nat \X S -> S] /\ {Root} \in S
  <2>1. 2..len \subseteq 1..len /\ Root \in 1..len
    BY <1>2 DEF Root
  <2>2. \A p \in Nat \X S : OneBelow(t, p[2]) \in S
    BY <1>3, <1>6, <2>1 DEF OneBelow
  <2> QED
    BY <1>6, <1>7, <2>1, <2>2
<1>9. PICK a : a \in Unrolled(len, S, {Root}, step)
  BY <1>8, UnrolledExists
<1>10. /\ a \in [0..len -> S] /\ a[0] = {Root}
       /\ \A i \in 0..(len - 1) : a[i + 1] = step[<<i, a[i]>>]
  BY <1>9 DEF Unrolled
<1>11. a = [k \in 0..Len(t.nodes) |-> Body(a, k)]
  <2>1. ASSUME NEW k \in 0..len, k # 0 PROVE a[k] = OneBelow(t, a[k - 1])
    <3>1. PICK i \in 0..(len - 1) : i = k - 1
      BY <2>1
    <3>2. i + 1 = k /\ i \in Nat /\ i \in 0..len
      BY <2>1, <3>1
    <3>3. a[i] \in S
      BY <1>10, <3>2
    <3>4. step[<<i, a[i]>>] = OneBelow(t, a[i])
      BY <1>7, <3>2, <3>3
    <3> QED
      BY <1>10, <3>1, <3>2, <3>4
  <2>2. \A k \in 0..len : a[k] = Body(a, k)
    BY <1>10, <2>1 DEF OneBelow
  <2> HIDE DEF Body
  <2> QED
    BY <1>1, <1>10, <2>2
<1>12. PICK B : B = CHOOSE h : h = [k \in 0..Len(t.nodes) |-> Body(h, k)]
  OBVIOUS
<1>13. B = [k \in 0..Len(t.nodes) |-> Body(B, k)]
  <2> HIDE DEF Body
  <2> QED
    BY <1>11, <1>12
<1>14. B[0] = {Root} /\ \A k \in 1..Size(t) : B[k] = OneBelow(t, B[k - 1])
  <2>1. \A k \in 0..len : B[k] = Body(B, k)
    <3> HIDE DEF Body
    <3> QED
      BY <1>1, <1>13
  <2>2. 0 \in 0..len /\ \A k \in 1..len : k \in 0..len /\ k # 0
    OBVIOUS
  <2> QED
    BY <1>2, <2>1, <2>2, Zenon DEF OneBelow
<1>15. B[Len(t.nodes)] = DOMAIN t.nodes
  <2>1. B[Size(t)] = 1..Size(t)
    BY <1>14, AllBelow
  <2> QED
    BY <1>1, <1>2, <2>1
<1> QED
  BY <1>4, <1>5, <1>12, <1>15, Zenon DEF IsTree

-----------------------------------------------------------------------------
(* visualize_blockchain: the links of the log entries. *)

\* The hashes of the blocks of the logs and of their parents.
Hashes == Hash \cup {Parent[h] : h \in Hash}

\* The edges that do not begin at the root.
Linked(t) == {e \in Edges(t) : e[1] # "root"}

\* The trie of the links of the blocks S: a hash that is known only as a parent
\* has an object below the root.
TrieOf(t, S) ==
  /\ TreeTrie(t, Hashes) /\ t.raised = FALSE
  /\ DOMAIN t.blocks = S \cup {Parent[h] : h \in S}
  /\ Linked(t) = {<<Parent[h], h>> : h \in S}
  /\ \A k \in DOMAIN t.blocks : k \notin S => ChildOf(t, Root, k) # {}

\* None of them is called "root".
LEMMA HashesAre ==
  /\ "root" \notin Hashes
  /\ \A h \in Hash : h \in Hashes /\ Parent[h] \in Hashes
BY BlockVisualizerAssumption DEF Hashes, Hash

\* A trie of the same links with the block h more.
LEMMA TrieOfMore ==
  ASSUME NEW S \in SUBSET Hash, NEW t, TrieOf(t, S), NEW h \in Hash, NEW u,
         TreeTrie(u, Hashes), u.raised = FALSE,
         DOMAIN u.blocks = DOMAIN t.blocks \cup {Parent[h], h},
         Linked(u) = Linked(t) \cup {<<Parent[h], h>>},
         \A k : k # h => ChildOf(t, Root, k) \subseteq ChildOf(u, Root, k),
         ~Known(t, Parent[h]) => ChildOf(u, Root, Parent[h]) # {}
  PROVE  TrieOf(u, S \cup {h})
<1>1. DOMAIN u.blocks = (S \cup {h}) \cup {Parent[k] : k \in S \cup {h}}
  BY DEF TrieOf
<1>2. Linked(u) = {<<Parent[k], k>> : k \in S \cup {h}}
  <2>1. Linked(u) = {<<Parent[k], k>> : k \in S} \cup {<<Parent[h], h>>}
    BY DEF TrieOf
  <2> QED
    BY <2>1
<1>3. ASSUME NEW k \in DOMAIN u.blocks, k \notin S \cup {h} PROVE ChildOf(u, Root, k) # {}
  <2>1. CASE k \in DOMAIN t.blocks
    <3>1. ChildOf(t, Root, k) # {} /\ k # h
      BY <1>3, <2>1 DEF TrieOf
    <3> QED
      BY <3>1
  <2>2. CASE k \notin DOMAIN t.blocks
    <3>1. k = Parent[h]
      BY <1>3, <2>2
    <3> QED
      BY <2>2, <3>1 DEF Known
  <2> QED
    BY <2>1, <2>2
<1> QED
  BY <1>1, <1>2, <1>3 DEF TrieOf

\* insertLink where the parent is known.
LEMMA LinkBelow ==
  ASSUME NEW S \in SUBSET Hash, NEW t, TrieOf(t, S), NEW h \in Hash, NEW p \in Peer,
         Known(t, Parent[h])
  PROVE  TrieOf(insertLink(t, Parent[h], h, p), S \cup {h})
<1>1. PICK n : n = t.blocks[Parent[h]]
  OBVIOUS
<1>2. TreeTrie(t, Hashes) /\ h \in Hashes /\ Parent[h] # "root" /\ t.raised = FALSE
  BY HashesAre DEF TrieOf
<1>3. n \in 1..Size(t) /\ t.nodes[n].hash = Parent[h]
  <2>1. Size(t) \in Nat
    BY <1>2 DEF TreeTrie, Trie, Objects, Tries, Size
  <2>2. n \in 2..Size(t) /\ t.nodes[n].hash = Parent[h]
    BY <1>1, <1>2 DEF Known, TreeTrie, Trie, NamesFit
  <2> QED
    BY <2>1, <2>2
<1>4. PICK v : v = Put(t, n, h)
  OBVIOUS
<1>5. PICK c : c = insertChild(t, n, h).node
  OBVIOUS
<1>6. /\ TreeTrie(v, Hashes)
      /\ Edges(v) = Edges(t) \cup {<<Parent[h], h>>}
      /\ DOMAIN v.blocks = DOMAIN t.blocks \cup {h}
      /\ v.blocks[h] = c
      /\ v.blocks[h] \in 1..Size(v)
      /\ v.raised = t.raised
      /\ \A k : ChildOf(t, Root, k) \subseteq ChildOf(v, Root, k)
  BY <1>2, <1>3, <1>4, <1>5, PutSums
<1>7. PICK u : u = [v EXCEPT !.nodes[c].value = @ + 1]
  OBVIOUS
<1>8. insertLink(t, Parent[h], h, p) = u
  BY <1>1, <1>4, <1>5, <1>7 DEF insertLink, Put
<1>9. SameObjects(v, u, Hashes)
  <2>1. v \in Tries(Hashes) /\ v.nodes \in Seq(TrieNode(Hashes)) /\ c \in 1..Size(v) /\ Size(v) = Len(v.nodes)
    BY <1>6 DEF TreeTrie, Trie, Objects, Tries, Size
  <2>2. PICK b : b = [v.nodes[c] EXCEPT !.value = @ + 1]
    OBVIOUS
  <2>3. v.nodes[c] \in TrieNode(Hashes)
    BY <2>1
  <2>4. b \in TrieNode(Hashes) /\ b.hash = v.nodes[c].hash /\ b.children = v.nodes[c].children
    BY <2>2, <2>3 DEF TrieNode
  <2>5. PICK q : q = [v.nodes EXCEPT ![c] = b]
    OBVIOUS
  <2>6. u = [v EXCEPT !.nodes = q]
    BY <1>7, <2>2, <2>5
  <2>7. q \in Seq(TrieNode(Hashes)) /\ Len(q) = Size(v) /\ \A m \in 1..Size(v) : q[m] = IF m = c THEN b ELSE v.nodes[m]
    BY <2>1, <2>4, <2>5
  <2>8. u \in Tries(Hashes) /\ u.nodes = q /\ u.blocks = v.blocks /\ u.raised = v.raised
    BY <2>1, <2>6, <2>7 DEF Tries
  <2> QED
    BY <2>4, <2>7, <2>8 DEF SameObjects, Size
<1>10. TreeTrie(u, Hashes) /\ Edges(u) = Edges(v) /\ \A k : ChildOf(u, Root, k) = ChildOf(v, Root, k)
  BY <1>6, <1>9, SameObjectsSame
<1>11. u.blocks = v.blocks /\ u.raised = FALSE
  BY <1>2, <1>6, <1>9 DEF SameObjects
<1>12. Linked(u) = Linked(t) \cup {<<Parent[h], h>>}
  <2>1. Edges(u) = Edges(t) \cup {<<Parent[h], h>>}
    BY <1>6, <1>10
  <2> QED
    BY <1>2, <2>1 DEF Linked
<1>13. DOMAIN u.blocks = DOMAIN t.blocks \cup {Parent[h], h}
  BY <1>6, <1>11 DEF Known
<1>14. \A k : k # h => ChildOf(t, Root, k) \subseteq ChildOf(u, Root, k)
  BY <1>6, <1>10
<1>15. TrieOf(u, S \cup {h})
  BY <1>10, <1>11, <1>12, <1>13, <1>14, TrieOfMore
<1> QED
  BY <1>8, <1>15

\* insertLink where neither is known.
LEMMA LinkNew ==
  ASSUME NEW S \in SUBSET Hash, NEW t, TrieOf(t, S), NEW h \in Hash, NEW p \in Peer,
         ~Known(t, Parent[h]), ~Known(t, h)
  PROVE  TrieOf(insertLink(t, Parent[h], h, p), S \cup {h})
<1>1. PICK chain : chain = <<Parent[h], h>>
  OBVIOUS
<1>2. TreeTrie(t, Hashes) /\ h \in Hashes /\ Parent[h] \in Hashes /\ Parent[h] # "root" /\ t.raised = FALSE
  BY HashesAre DEF TrieOf
<1>3. chain \in Seq(Hashes) /\ chain # <<>> /\ Len(chain) = 2 /\ Last(chain) = h /\ chain[1] = Parent[h] /\ chain[2] = h
  BY <1>1, <1>2 DEF Last
<1>4. insertLink(t, Parent[h], h, p) = insert(t, chain, p)
  BY <1>1 DEF insertLink
<1>5. PICK a \in [0..Len(chain) -> Reached(Hashes)] : Runs(t, chain, p, a, insert(t, chain, p))
  <2>1. p \in Nat \cup Peer
    OBVIOUS
  <2> QED
    BY <1>2, <1>3, <2>1, InsertRuns
<1>6. /\ a[0] \in Reached(Hashes) /\ a[1] \in Reached(Hashes) /\ a[2] \in Reached(Hashes)
      /\ a[0].trie = t /\ a[0].node = Root
      /\ a[1] = InsertPart(a[0], Parent[h]) /\ a[2] = InsertPart(a[1], h)
      /\ insert(t, chain, p) = WithLabel(a[2].trie, a[2].node, p)
  <2>1. a[1] = InsertPart(a[0], Parent[h])
    <3>1. 1 \in 1..Len(chain) /\ 1 - 1 = 0
      BY <1>3
    <3> QED
      BY <1>3, <1>5, <3>1 DEF Runs
  <2>2. a[2] = InsertPart(a[1], h)
    <3>1. 2 \in 1..Len(chain) /\ 2 - 1 = 1
      BY <1>3
    <3> QED
      BY <1>3, <1>5, <3>1 DEF Runs
  <2>3. a[0].node = Root
    BY <1>3, <1>5 DEF Runs
  <2>4. insert(t, chain, p) = WithLabel(a[2].trie, a[2].node, p)
    BY <1>3, <1>5 DEF Runs
  <2>5. 0 \in 0..Len(chain) /\ 1 \in 0..Len(chain) /\ 2 \in 0..Len(chain)
    BY <1>3
  <2> QED
    BY <1>5, <2>1, <2>2, <2>3, <2>4, <2>5 DEF Runs
<1>7. PICK v : v = a[1]
  OBVIOUS
<1>8. /\ Edges(v.trie) = Edges(t) \cup {<<"root", Parent[h]>>}
      /\ DOMAIN v.trie.blocks = DOMAIN t.blocks \cup {Parent[h]}
      /\ v.trie.nodes[v.node].hash = Parent[h]
      /\ v.trie.raised = t.raised
      /\ \A k : ChildOf(t, Root, k) \subseteq ChildOf(v.trie, Root, k)
      /\ ChildOf(v.trie, Root, Parent[h]) # {}
  <2>1. /\ Edges(v.trie) = Edges(t) \cup
               {<<IF Parent[h] \in DOMAIN t.blocks THEN Parent[h] ELSE t.nodes[Root].hash, Parent[h]>>}
        /\ DOMAIN v.trie.blocks = DOMAIN t.blocks \cup {Parent[h]}
        /\ v.trie.nodes[v.node].hash = Parent[h]
        /\ v.trie.raised = t.raised
        /\ \A k : ChildOf(t, Root, k) \subseteq ChildOf(v.trie, Root, k)
        /\ Parent[h] \notin DOMAIN t.blocks => v.node \in ChildOf(v.trie, Root, Parent[h])
    <3>1. PartDone(a[0], v, Parent[h])
      BY <1>2, <1>6, <1>7, PartIs
    <3> QED
      BY <1>6, <3>1 DEF PartDone
  <2>2. Parent[h] \notin DOMAIN t.blocks
    BY DEF Known
  <2>3. t.nodes[Root].hash = "root"
    BY <1>2 DEF TreeTrie, Trie, Objects
  <2> QED
    BY <2>1, <2>2, <2>3
<1>9. PICK w : w = a[2]
  OBVIOUS
<1>10. /\ Edges(w.trie) = Edges(v.trie) \cup {<<Parent[h], h>>}
       /\ DOMAIN w.trie.blocks = DOMAIN v.trie.blocks \cup {h}
       /\ w.trie.raised = v.trie.raised
       /\ \A k : ChildOf(v.trie, Root, k) \subseteq ChildOf(w.trie, Root, k)
  <2>1. /\ Edges(w.trie) = Edges(v.trie) \cup
               {<<IF h \in DOMAIN v.trie.blocks THEN h ELSE v.trie.nodes[v.node].hash, h>>}
        /\ DOMAIN w.trie.blocks = DOMAIN v.trie.blocks \cup {h}
        /\ w.trie.raised = v.trie.raised
        /\ \A k : ChildOf(v.trie, Root, k) \subseteq ChildOf(w.trie, Root, k)
    <3>1. PartDone(v, w, h)
      BY <1>2, <1>6, <1>7, <1>9, PartIs
    <3> QED
      BY <3>1 DEF PartDone
  <2>2. h \in DOMAIN v.trie.blocks => h = Parent[h]
    BY <1>8 DEF Known
  <2>3. (IF h \in DOMAIN v.trie.blocks THEN h ELSE v.trie.nodes[v.node].hash) = Parent[h]
    BY <1>8, <2>2
  <2> QED
    BY <2>1, <2>3
<1>11. TreeTrie(w.trie, Hashes) /\ w.node \in 1..Size(w.trie)
  BY <1>6, <1>9 DEF Reached
<1>12. PICK u : u = WithLabel(w.trie, w.node, p)
  OBVIOUS
<1>13. /\ TreeTrie(u, Hashes) /\ Edges(u) = Edges(w.trie)
       /\ u.blocks = w.trie.blocks /\ u.raised = w.trie.raised
       /\ \A k : ChildOf(u, Root, k) = ChildOf(w.trie, Root, k)
  <2>1. p \in Nat \cup Peer
    OBVIOUS
  <2> QED
    BY <1>11, <1>12, <2>1, LabelIs
<1>14. u.raised = FALSE
  BY <1>2, <1>8, <1>10, <1>13
<1>15. DOMAIN u.blocks = DOMAIN t.blocks \cup {Parent[h], h}
  BY <1>8, <1>10, <1>13
<1>16. Linked(u) = Linked(t) \cup {<<Parent[h], h>>}
  <2>1. Edges(u) = Edges(t) \cup {<<"root", Parent[h]>>, <<Parent[h], h>>}
    BY <1>8, <1>10, <1>13
  <2> QED
    BY <1>2, <2>1 DEF Linked
<1>17. \A k : k # h => ChildOf(t, Root, k) \subseteq ChildOf(u, Root, k)
  BY <1>8, <1>10, <1>13, Zenon
<1>18. ChildOf(u, Root, Parent[h]) # {}
  BY <1>8, <1>10, <1>13
<1>19. TrieOf(u, S \cup {h})
  BY <1>13, <1>14, <1>15, <1>16, <1>17, <1>18, TrieOfMore
<1>20. u = insertLink(t, Parent[h], h, p)
  BY <1>4, <1>6, <1>9, <1>12
<1> QED
  BY <1>19, <1>20

\* A sequence with another element at n.
LEMMA SeqExcept ==
  ASSUME NEW T, NEW s \in Seq(T), NEW n \in 1..Len(s), NEW x \in T
  PROVE  /\ [s EXCEPT ![n] = x] \in Seq(T) /\ Len([s EXCEPT ![n] = x]) = Len(s)
         /\ \A m \in 1..Len(s) : [s EXCEPT ![n] = x][m] = IF m = n THEN x ELSE s[m]
OBVIOUS

\* The objects of u are those of t and a new one, d, of the hash h: it is below
\* the root, where c was, and c is below it.
Spliced(t, u, h, c) ==
  LET d == Size(t) + 1
  IN  /\ u \in Tries(Hashes) /\ Size(u) = d /\ u.raised = t.raised
      /\ DOMAIN u.blocks = DOMAIN t.blocks \cup {h}
      /\ \A k \in DOMAIN u.blocks : u.blocks[k] = IF k = h THEN d ELSE t.blocks[k]
      /\ u.nodes[d].hash = h /\ u.nodes[d].children = {c}
      /\ \A m \in 1..Size(t) : u.nodes[m].hash = t.nodes[m].hash
      /\ u.nodes[Root].children = (t.nodes[Root].children \ {c}) \cup {d}
      /\ \A m \in 2..Size(t) : u.nodes[m].children = t.nodes[m].children

\* SpliceParent does that, when the parent is not known and the child is below
\* the root.
LEMMA SpliceParentSplices ==
  ASSUME NEW t, TreeTrie(t, Hashes), NEW h \in Hashes, NEW parent \in Hashes,
         ~Known(t, parent), ChildOf(t, Root, h) # {}
  PROVE  \E c \in ChildOf(t, Root, h) : Spliced(t, SpliceParent(t, parent, h), parent, c)
<1>1. PICK c : c = CHOOSE n \in ChildOf(t, Root, h) : TRUE
  OBVIOUS
<1>2. c \in ChildOf(t, Root, h)
  BY <1>1
<1>3. /\ Objects(t, Hashes) /\ NamesFit(t) /\ AllNamed(t)
      /\ t \in Tries(Hashes) /\ t.nodes \in Seq(TrieNode(Hashes))
      /\ Size(t) = Len(t.nodes) /\ Size(t) \in Nat /\ Size(t) >= 1
      /\ \A m \in 1..Size(t) : t.nodes[m].children \subseteq 2..Size(t)
  BY DEF TreeTrie, Trie, Objects, Tries, Size
<1>4. PICK len \in Nat : len = Size(t)
  BY <1>3
<1>5. Root \in 1..len /\ 1 \in 1..len /\ \A m \in 2..len : m \in 1..len /\ m # Root
  BY <1>3, <1>4 DEF Root
<1>6. c \in 2..len /\ c \in 1..len /\ c # Root
  <2>1. c \in 2..len
    BY <1>2, <1>3, <1>4, <1>5 DEF ChildOf
  <2> QED
    BY <1>5, <2>1
<1>7. PICK b : b = [t.nodes[Root] EXCEPT !.children = @ \ {c}]
  OBVIOUS
<1>8. t.nodes[Root] \in TrieNode(Hashes)
  BY <1>3, <1>4, <1>5
<1>9. /\ b \in TrieNode(Hashes) /\ b.hash = t.nodes[Root].hash
      /\ b.children = t.nodes[Root].children \ {c}
  BY <1>7, <1>8 DEF TrieNode
<1>10. PICK q : q = [t.nodes EXCEPT ![Root] = b]
  OBVIOUS
<1>11. q \in Seq(TrieNode(Hashes)) /\ Len(q) = len /\ \A m \in 1..len : q[m] = IF m = Root THEN b ELSE t.nodes[m]
  BY <1>3, <1>4, <1>5, <1>9, <1>10, SeqExcept
<1>12. PICK v : v = [t EXCEPT !.nodes = q]
  OBVIOUS
<1>13. v \in Tries(Hashes) /\ v.nodes = q /\ v.blocks = t.blocks /\ v.raised = t.raised /\ Size(v) = len
  BY <1>3, <1>11, <1>12 DEF Tries, Size
<1>14. /\ \A m \in 1..len : v.nodes[m].hash = t.nodes[m].hash
       /\ v.nodes[Root].children = t.nodes[Root].children \ {c}
       /\ \A m \in 2..len : v.nodes[m].children = t.nodes[m].children
  <2>1. \A m \in 1..len : v.nodes[m] = IF m = Root THEN b ELSE t.nodes[m]
    BY <1>11, <1>13
  <2>2. \A m \in 1..len : v.nodes[m].hash = t.nodes[m].hash
    BY <1>9, <2>1
  <2>3. v.nodes[Root].children = t.nodes[Root].children \ {c}
    BY <1>5, <1>9, <2>1
  <2>4. \A m \in 2..len : v.nodes[m] = t.nodes[m]
    BY <1>5, <2>1
  <2> QED
    BY <2>2, <2>3, <2>4
<1>15. Objects(v, Hashes)
  <2>1. v.nodes[Root].hash = "root"
    BY <1>3, <1>5, <1>14 DEF Objects
  <2>2. \A m \in 2..Size(v) : v.nodes[m].hash \in Hashes
    BY <1>3, <1>4, <1>5, <1>13, <1>14 DEF Objects
  <2>3. ASSUME NEW m \in 1..Size(v) PROVE v.nodes[m].children \subseteq 2..Size(v)
    <3>1. t.nodes[m].children \subseteq 2..len
      BY <1>3, <1>4, <1>13
    <3>2. m = Root \/ m \in 2..len
      BY <1>13 DEF Root
    <3> QED
      BY <1>13, <1>14, <3>1, <3>2
  <2> QED
    BY <1>3, <1>4, <1>13, <2>1, <2>2, <2>3 DEF Objects
<1>16. NamesFit(v)
  BY <1>3, <1>4, <1>5, <1>13, <1>14 DEF NamesFit
<1>17. PICK d : d = insertChild(v, Root, parent).node
  OBVIOUS
<1>18. PICK s : s = Put(v, Root, parent)
  OBVIOUS
<1>19. /\ Objects(s, Hashes) /\ NamesFit(s) /\ Grown(v, s, Root, parent, d)
       /\ DOMAIN s.blocks = DOMAIN v.blocks \cup {parent} /\ s.blocks[parent] = d
       /\ s.raised = v.raised
  BY <1>5, <1>13, <1>15, <1>16, <1>17, <1>18, PutIs
<1>20. d = len + 1 /\ Size(s) = len + 1 /\ s.nodes[d].children = {}
  <2>1. d \notin v.nodes[Root].children \/ s.nodes[d].hash # v.nodes[d].hash
    <3> SUFFICES ASSUME d \in v.nodes[Root].children PROVE s.nodes[d].hash # v.nodes[d].hash
      OBVIOUS
    <3>1. d \in 2..len
      BY <1>5, <1>13, <1>15 DEF Objects
    <3>2. t.nodes[d].hash \in DOMAIN t.blocks
      BY <1>3, <1>4, <3>1 DEF AllNamed
    <3>3. v.nodes[d].hash # parent
      BY <1>5, <1>14, <3>1, <3>2 DEF Known
    <3> QED
      BY <1>19, <3>3 DEF Grown
  <2>2. d \in v.nodes[Root].children => s.nodes[d].hash = v.nodes[d].hash
    <3> SUFFICES ASSUME d \in v.nodes[Root].children PROVE s.nodes[d].hash = v.nodes[d].hash
      OBVIOUS
    <3>1. d \in 2..len
      BY <1>5, <1>13, <1>15 DEF Objects
    <3> QED
      BY <1>5, <1>13, <1>19, <3>1 DEF Grown
  <2> QED
    BY <1>13, <1>19, <2>1, <2>2 DEF Grown
<1>21. PICK e : e = [s.nodes[d] EXCEPT !.children = @ \cup {c}]
  OBVIOUS
<1>22. PICK f : f = [s.nodes[c] EXCEPT !.value = @ + 1]
  OBVIOUS
<1>23. s \in Tries(Hashes) /\ s.nodes \in Seq(TrieNode(Hashes)) /\ Len(s.nodes) = d /\ d \in Nat
  BY <1>19, <1>20 DEF Objects, Tries, Size
<1>24. c \in 1..d /\ d \in 1..d /\ c # d
  BY <1>6, <1>20
<1>25. s.nodes[d] \in TrieNode(Hashes) /\ s.nodes[c] \in TrieNode(Hashes)
  BY <1>23, <1>24
<1>26. /\ e \in TrieNode(Hashes) /\ e.hash = s.nodes[d].hash /\ e.children = {c}
       /\ f \in TrieNode(Hashes) /\ f.hash = s.nodes[c].hash /\ f.children = s.nodes[c].children
  <2>1. e \in TrieNode(Hashes) /\ e.hash = s.nodes[d].hash /\ e.children = s.nodes[d].children \cup {c}
    <3>1. c \in Nat
      BY <1>6
    <3> QED
      BY <1>21, <1>25, <3>1 DEF TrieNode
  <2>2. f \in TrieNode(Hashes) /\ f.hash = s.nodes[c].hash /\ f.children = s.nodes[c].children
    BY <1>22, <1>25 DEF TrieNode
  <2> QED
    BY <1>20, <2>1, <2>2
<1>27. PICK r : r = [[s.nodes EXCEPT ![d] = e] EXCEPT ![c] = f]
  OBVIOUS
<1>28. /\ r \in Seq(TrieNode(Hashes)) /\ Len(r) = d
       /\ \A m \in 1..d : r[m] = IF m = c THEN f ELSE IF m = d THEN e ELSE s.nodes[m]
  <2>1. PICK z : z = [s.nodes EXCEPT ![d] = e]
    OBVIOUS
  <2>2. z \in Seq(TrieNode(Hashes)) /\ Len(z) = d /\ \A m \in 1..d : z[m] = IF m = d THEN e ELSE s.nodes[m]
    BY <1>23, <1>24, <1>26, <2>1, SeqExcept
  <2>3. r = [z EXCEPT ![c] = f]
    BY <1>27, <2>1
  <2>4. r \in Seq(TrieNode(Hashes)) /\ Len(r) = d /\ \A m \in 1..d : r[m] = IF m = c THEN f ELSE z[m]
    BY <1>24, <1>26, <2>2, <2>3, SeqExcept
  <2> QED
    BY <2>2, <2>4
<1>29. PICK u : u = [s EXCEPT !.nodes = r]
  OBVIOUS
<1>30. u = [s EXCEPT !.nodes[d].children = @ \cup {c}, !.nodes[c].value = @ + 1]
  <2>1. [s.nodes EXCEPT ![d] = e][c] = s.nodes[c]
    BY <1>23, <1>24
  <2> QED
    BY <1>21, <1>22, <1>23, <1>24, <1>27, <1>29, <2>1 DEF Tries
<1>31. SpliceParent(t, parent, h) = u
  <2>1. v = [t EXCEPT !.nodes[Root].children = @ \ {c}]
    BY <1>7, <1>10, <1>12
  <2> QED
    BY <1>1, <1>17, <1>18, <1>30, <2>1 DEF SpliceParent, Put
<1>32. u \in Tries(Hashes) /\ u.nodes = r /\ u.blocks = s.blocks /\ u.raised = s.raised /\ Size(u) = d
  BY <1>23, <1>28, <1>29 DEF Tries, Size
<1>33. \A m \in 1..len : /\ s.nodes[m].hash = v.nodes[m].hash
                         /\ s.nodes[m].children = IF m = Root THEN v.nodes[m].children \cup {d} ELSE v.nodes[m].children
  BY <1>13, <1>19 DEF Grown
<1>34. \A m \in 1..len : m \in 1..d /\ m # d
  BY <1>20
<1>35. \A m \in 1..len : u.nodes[m].hash = t.nodes[m].hash /\ u.nodes[m].children = s.nodes[m].children
  <2> SUFFICES ASSUME NEW m \in 1..len
               PROVE  u.nodes[m].hash = t.nodes[m].hash /\ u.nodes[m].children = s.nodes[m].children
    OBVIOUS
  <2>1. u.nodes[m] = IF m = c THEN f ELSE s.nodes[m]
    BY <1>28, <1>32, <1>34
  <2>2. u.nodes[m].hash = s.nodes[m].hash /\ u.nodes[m].children = s.nodes[m].children
    BY <1>26, <2>1
  <2> QED
    BY <1>14, <1>33, <2>2
<1>36. u.nodes[Root].children = (t.nodes[Root].children \ {c}) \cup {d}
  BY <1>5, <1>14, <1>33, <1>35
<1>37. \A m \in 2..len : u.nodes[m].children = t.nodes[m].children
  BY <1>5, <1>14, <1>33, <1>35
<1>38. u.nodes[d].hash = parent /\ u.nodes[d].children = {c}
  <2>1. u.nodes[d] = e
    BY <1>24, <1>28, <1>32
  <2>2. s.nodes[d].hash = parent
    BY <1>19 DEF Grown
  <2> QED
    BY <1>26, <2>1, <2>2
<1>39. \A k \in DOMAIN u.blocks : u.blocks[k] = IF k = parent THEN d ELSE t.blocks[k]
  <2>1. PICK w : w = insertChild(v, Root, parent).trie
    OBVIOUS
  <2>2. Objects(w, Hashes) /\ w.blocks = v.blocks /\ d \in 2..Size(w)
    <3>1. Objects(w, Hashes) /\ Grown(v, w, Root, parent, d) /\ w.blocks = v.blocks
      BY <1>5, <1>13, <1>15, <1>17, <2>1, InsertChildGrows
    <3> QED
      BY <3>1 DEF Grown
  <2>3. s = Names(w, parent, d)
    BY <1>17, <1>18, <2>1 DEF Put
  <2>4. \A k \in DOMAIN s.blocks : s.blocks[k] = IF k = parent THEN d ELSE w.blocks[k]
    BY <2>2, <2>3, NamesIs
  <2> QED
    BY <1>13, <1>32, <2>2, <2>4
<1>40. DOMAIN u.blocks = DOMAIN t.blocks \cup {parent} /\ u.raised = t.raised
  BY <1>13, <1>19, <1>32
<1>41. Spliced(t, u, parent, c)
  BY <1>4, <1>20, <1>32, <1>35, <1>36, <1>37, <1>38, <1>39, <1>40 DEF Spliced
<1> QED
  BY <1>2, <1>31, <1>41

\* Spliced objects are a tree, with the edge from the new one to its child more.
LEMMA SplicedTree ==
  ASSUME NEW t, TreeTrie(t, Hashes), NEW h \in Hashes, NEW parent \in Hashes,
         ~Known(t, parent), NEW c \in ChildOf(t, Root, h), NEW u, Spliced(t, u, parent, c)
  PROVE  /\ TreeTrie(u, Hashes) /\ Linked(u) = Linked(t) \cup {<<parent, h>>}
         /\ \A k : k # h => ChildOf(t, Root, k) \subseteq ChildOf(u, Root, k)
         /\ ChildOf(u, Root, parent) # {}
<1>1. /\ Objects(t, Hashes) /\ NamesFit(t) /\ AllNamed(t) /\ UniqueParents(t) /\ Connected(t)
      /\ Size(t) \in Nat /\ Size(t) >= 1
      /\ \A m \in 1..Size(t) : t.nodes[m].children \subseteq 2..Size(t)
      /\ \A m \in 2..Size(t) : t.nodes[m].hash \in Hashes
  BY DEF TreeTrie, Trie, Objects, Tries, Size
<1>2. PICK len \in Nat : len = Size(t)
  BY <1>1
<1>3. PICK d \in Nat : d = len + 1
  OBVIOUS
<1>4. /\ u \in Tries(Hashes) /\ Size(u) = d /\ u.raised = t.raised
      /\ DOMAIN u.blocks = DOMAIN t.blocks \cup {parent}
      /\ \A k \in DOMAIN u.blocks : u.blocks[k] = IF k = parent THEN d ELSE t.blocks[k]
      /\ u.nodes[d].hash = parent /\ u.nodes[d].children = {c}
      /\ \A m \in 1..len : u.nodes[m].hash = t.nodes[m].hash
      /\ u.nodes[Root].children = (t.nodes[Root].children \ {c}) \cup {d}
      /\ \A m \in 2..len : u.nodes[m].children = t.nodes[m].children
  BY <1>2, <1>3 DEF Spliced
<1>5. /\ len >= 1 /\ Root \in 1..len /\ Root # d /\ Root \in 1..d
      /\ d \in 2..d /\ d \notin 1..len /\ d \in 1..d
      /\ \A m \in 2..len : m \in 1..len /\ m # Root /\ m \in 2..d
      /\ \A m \in 1..len : m \in 1..d /\ (m = Root \/ m \in 2..len)
      /\ \A m \in 1..d : m = Root \/ m \in 2..len \/ m = d
      /\ \A m \in 2..d : m \in 2..len \/ m = d
      /\ \A m \in 1..d : m \in 1..len \/ m = d
  BY <1>1, <1>2, <1>3 DEF Root
<1>6. c \in t.nodes[Root].children /\ t.nodes[c].hash = h /\ c \in 2..len
  BY <1>1, <1>2, <1>5 DEF ChildOf
<1>7. \A m \in 1..len : t.nodes[m].children \subseteq 2..len /\ d \notin t.nodes[m].children
  BY <1>1, <1>2, <1>5
<1>8. Objects(u, Hashes)
  <2>1. u.nodes[Root].hash = "root"
    BY <1>1, <1>4, <1>5 DEF Objects
  <2>2. ASSUME NEW m \in 2..d PROVE u.nodes[m].hash \in Hashes
    <3>1. CASE m = d
      BY <1>4, <3>1
    <3>2. CASE m \in 2..len
      BY <1>1, <1>2, <1>4, <1>5, <3>2
    <3> QED
      BY <1>5, <3>1, <3>2
  <2>3. ASSUME NEW m \in 1..d PROVE u.nodes[m].children \subseteq 2..d
    <3>1. 2..len \subseteq 2..d
      BY <1>5
    <3>2. CASE m = d
      BY <1>4, <1>5, <1>6, <3>2
    <3>3. CASE m = Root
      BY <1>4, <1>5, <1>7, <3>1, <3>3
    <3>4. CASE m \in 2..len
      BY <1>4, <1>5, <1>7, <3>1, <3>4
    <3> QED
      BY <1>5, <3>2, <3>3, <3>4
  <2>4. d >= 1
    BY <1>3
  <2> QED
    BY <1>4, <2>1, <2>2, <2>3, <2>4 DEF Objects
<1>9. NamesFit(u)
  <2> SUFFICES ASSUME NEW k \in DOMAIN u.blocks
               PROVE  u.blocks[k] \in 2..Size(u) /\ u.nodes[u.blocks[k]].hash = k
    BY DEF NamesFit
  <2>1. CASE k = parent
    BY <1>4, <1>5, <2>1
  <2>2. CASE k # parent
    <3>1. k \in DOMAIN t.blocks /\ u.blocks[k] = t.blocks[k]
      BY <1>4, <2>2
    <3>2. t.blocks[k] \in 2..len /\ t.nodes[t.blocks[k]].hash = k
      BY <1>1, <1>2, <3>1 DEF NamesFit
    <3> QED
      BY <1>4, <1>5, <3>1, <3>2
  <2> QED
    BY <2>1, <2>2
<1>10. AllNamed(u)
  <2> SUFFICES ASSUME NEW m \in 2..d PROVE u.nodes[m].hash \in DOMAIN u.blocks
    BY <1>4 DEF AllNamed
  <2>1. CASE m = d
    BY <1>4, <2>1
  <2>2. CASE m \in 2..len
    <3>1. t.nodes[m].hash \in DOMAIN t.blocks
      BY <1>1, <1>2, <2>2 DEF AllNamed
    <3> QED
      BY <1>4, <1>5, <2>2, <3>1
  <2> QED
    BY <1>5, <2>1, <2>2
<1>11. ASSUME NEW m \in 1..d, NEW x \in u.nodes[m].children
       PROVE  /\ x = d => m = Root
              /\ x = c => m = d
              /\ x # d /\ x # c => m \in 1..len /\ x \in t.nodes[m].children
  <2>1. CASE m = d
    <3>1. x = c /\ c # d
      BY <1>4, <1>5, <1>6, <1>11, <2>1
    <3> QED
      BY <2>1, <3>1
  <2>2. CASE m = Root
    <3>1. x \in (t.nodes[Root].children \ {c}) \cup {d}
      BY <1>4, <1>11, <2>2
    <3>2. c # d
      BY <1>5, <1>6
    <3> QED
      BY <1>5, <2>2, <3>1, <3>2
  <2>3. CASE m \in 2..len
    <3>1. x \in t.nodes[m].children /\ m \in 1..len
      BY <1>4, <1>5, <1>11, <2>3
    <3>2. x # d
      BY <1>7, <3>1
    <3>3. x # c
      <4> SUFFICES ASSUME x = c PROVE FALSE
        OBVIOUS
      <4>1. m = Root
        BY <1>1, <1>2, <1>5, <1>6, <3>1 DEF UniqueParents
      <4> QED
        BY <1>5, <2>3, <4>1
    <3> QED
      BY <3>1, <3>2, <3>3
  <2> QED
    BY <1>5, <2>1, <2>2, <2>3
<1>12. UniqueParents(u)
  <2> SUFFICES ASSUME NEW m \in 1..d, NEW n \in 1..d,
                      NEW x \in u.nodes[m].children, x \in u.nodes[n].children
               PROVE  m = n
    BY <1>4 DEF UniqueParents
  <2>1. CASE x = d \/ x = c
    BY <1>11, <2>1
  <2>2. CASE x # d /\ x # c
    <3>1. m \in 1..len /\ x \in t.nodes[m].children /\ n \in 1..len /\ x \in t.nodes[n].children
      BY <1>11, <2>2
    <3> QED
      BY <1>1, <1>2, <3>1 DEF UniqueParents
  <2> QED
    BY <2>1, <2>2
<1>13. Connected(u)
  <2> SUFFICES ASSUME NEW S \in SUBSET (1..d), HoldsChildren(u, S) PROVE S = 1..d
    BY <1>4 DEF Connected
  <2>1. Root \in S /\ \A m \in S : u.nodes[m].children \subseteq S
    BY DEF HoldsChildren
  <2>2. d \in S /\ c \in S
    <3>1. d \in S
      BY <1>4, <2>1
    <3> QED
      BY <1>4, <2>1, <3>1
  <2>3. PICK R : R = S \ {d}
    OBVIOUS
  <2>4. R \in SUBSET (1..len)
    BY <1>5, <2>3
  <2>5. HoldsChildren(t, R)
    <3>1. Root \in R
      BY <1>5, <2>1, <2>3
    <3>2. ASSUME NEW m \in R PROVE t.nodes[m].children \subseteq R
      <4>1. m \in 1..len /\ m \in S
        BY <2>3, <2>4
      <4>2. t.nodes[m].children \subseteq u.nodes[m].children \cup {c}
        BY <1>4, <1>5, <4>1
      <4>3. t.nodes[m].children \subseteq S
        BY <2>1, <2>2, <4>1, <4>2
      <4> QED
        BY <1>7, <2>3, <4>1, <4>3
    <3> QED
      BY <3>1, <3>2 DEF HoldsChildren
  <2>6. R = 1..len
    BY <1>1, <1>2, <2>4, <2>5 DEF Connected
  <2> QED
    BY <1>5, <2>2, <2>3, <2>6
<1>14. TreeTrie(u, Hashes)
  BY <1>8, <1>9, <1>10, <1>12, <1>13 DEF TreeTrie, Trie
<1>15. \A m \in 1..len : t.nodes[m].hash = "root" => m = Root
  <2>1. \A m \in 2..len : t.nodes[m].hash # "root"
    BY <1>1, <1>2, HashesAre
  <2> QED
    BY <1>5, <2>1
<1>16. ASSUME NEW a, NEW b, a # "root"
       PROVE  <<a, b>> \in Edges(u) <=> <<a, b>> \in Edges(t) \/ (a = parent /\ b = h)
  <2>1. ASSUME <<a, b>> \in Edges(u) PROVE <<a, b>> \in Edges(t) \/ (a = parent /\ b = h)
    <3>1. PICK m \in 1..d : \E x \in u.nodes[m].children : a = u.nodes[m].hash /\ b = u.nodes[x].hash
      BY <1>4, <1>8, <2>1, EdgesAre
    <3>2. PICK x \in u.nodes[m].children : a = u.nodes[m].hash /\ b = u.nodes[x].hash
      BY <3>1
    <3>3. m # Root
      BY <1>8, <1>16, <3>2 DEF Objects
    <3>4. CASE m = d
      <4>1. x = c /\ a = parent
        BY <1>4, <3>2, <3>4
      <4>2. u.nodes[c].hash = h
        BY <1>4, <1>5, <1>6
      <4> QED
        BY <3>2, <4>1, <4>2
    <3>5. CASE m \in 2..len
      <4>1. x \in t.nodes[m].children /\ m \in 1..len
        BY <1>4, <1>5, <3>5
      <4>2. x \in 1..len
        BY <1>5, <1>7, <4>1
      <4>3. a = t.nodes[m].hash /\ b = t.nodes[x].hash
        BY <1>4, <3>2, <4>1, <4>2
      <4> QED
        BY <1>1, <1>2, <4>1, <4>3, EdgesAre
    <3> QED
      BY <1>5, <3>3, <3>4, <3>5
  <2>2. ASSUME <<a, b>> \in Edges(t) PROVE <<a, b>> \in Edges(u)
    <3>1. PICK m \in 1..len : \E x \in t.nodes[m].children : a = t.nodes[m].hash /\ b = t.nodes[x].hash
      BY <1>1, <1>2, <2>2, EdgesAre
    <3>2. PICK x \in t.nodes[m].children : a = t.nodes[m].hash /\ b = t.nodes[x].hash
      BY <3>1
    <3>3. m # Root
      BY <1>1, <1>16, <3>2 DEF Objects
    <3>4. m \in 2..len /\ m \in 1..d /\ x \in u.nodes[m].children
      BY <1>4, <1>5, <3>3
    <3>5. x \in 1..len
      BY <1>5, <1>7
    <3>6. a = u.nodes[m].hash /\ b = u.nodes[x].hash
      BY <1>4, <3>2, <3>5
    <3> QED
      BY <1>4, <1>8, <3>4, <3>6, EdgesAre
  <2>3. <<parent, h>> \in Edges(u)
    <3>1. d \in 1..d /\ c \in u.nodes[d].children /\ parent = u.nodes[d].hash /\ h = u.nodes[c].hash
      BY <1>4, <1>5, <1>6
    <3> QED
      BY <1>4, <1>8, <3>1, EdgesAre
  <2> QED
    BY <2>1, <2>2, <2>3
<1>17. Linked(u) = Linked(t) \cup {<<parent, h>>}
  <2>1. (\A e \in Edges(t) : e = <<e[1], e[2]>>) /\ (\A e \in Edges(u) : e = <<e[1], e[2]>>)
    BY <1>1, <1>8, EdgesAre
  <2>2. parent # "root"
    BY HashesAre
  <2>3. ASSUME NEW e \in Linked(u) PROVE e \in Linked(t) \cup {<<parent, h>>}
    <3>1. e \in Edges(u) /\ e[1] # "root" /\ e = <<e[1], e[2]>>
      BY <2>1 DEF Linked
    <3>2. <<e[1], e[2]>> \in Edges(t) \/ (e[1] = parent /\ e[2] = h)
      BY <1>16, <3>1
    <3> QED
      BY <3>1, <3>2 DEF Linked
  <2>4. ASSUME NEW e \in Linked(t) PROVE e \in Linked(u)
    <3>1. e \in Edges(t) /\ e[1] # "root" /\ e = <<e[1], e[2]>>
      BY <2>1 DEF Linked
    <3>2. <<e[1], e[2]>> \in Edges(u)
      BY <1>16, <3>1
    <3> QED
      BY <3>1, <3>2 DEF Linked
  <2>5. <<parent, h>> \in Edges(u)
    BY <1>16, <2>2
  <2>6. <<parent, h>> \in Linked(u)
    BY <2>2, <2>5 DEF Linked
  <2> QED
    BY <2>3, <2>4, <2>6
<1>18. ASSUME NEW k, k # h, NEW x \in ChildOf(t, Root, k) PROVE x \in ChildOf(u, Root, k)
  <2>1. x \in t.nodes[Root].children /\ t.nodes[x].hash = k
    BY <1>18 DEF ChildOf
  <2>2. x # c /\ x \in 1..len
    BY <1>5, <1>6, <1>7, <1>18, <2>1
  <2>3. x \in u.nodes[Root].children /\ u.nodes[x].hash = k
    BY <1>4, <2>1, <2>2
  <2> QED
    BY <2>3 DEF ChildOf
<1>19. d \in ChildOf(u, Root, parent)
  BY <1>4 DEF ChildOf
<1> QED
  BY <1>14, <1>17, <1>18, <1>19

\* insertLink where only the child is known: its parent comes between the root
\* and it.
LEMMA LinkAbove ==
  ASSUME NEW S \in SUBSET Hash, NEW t, TrieOf(t, S), NEW h \in Hash, NEW p \in Peer,
         ~Known(t, Parent[h]), Known(t, h)
  PROVE  TrieOf(insertLink(t, Parent[h], h, p), S \cup {h})
<1>1. TreeTrie(t, Hashes) /\ h \in Hashes /\ Parent[h] \in Hashes /\ t.raised = FALSE
  BY HashesAre DEF TrieOf
<1>2. ChildOf(t, Root, h) # {}
  BY DEF TrieOf, Known
<1>3. PICK u : u = SpliceParent(t, Parent[h], h)
  OBVIOUS
<1>4. PICK c \in ChildOf(t, Root, h) : Spliced(t, u, Parent[h], c)
  BY <1>1, <1>2, <1>3, SpliceParentSplices
<1>5. /\ TreeTrie(u, Hashes) /\ Linked(u) = Linked(t) \cup {<<Parent[h], h>>}
      /\ \A k : k # h => ChildOf(t, Root, k) \subseteq ChildOf(u, Root, k)
      /\ ChildOf(u, Root, Parent[h]) # {}
  BY <1>1, <1>4, SplicedTree
<1>6. DOMAIN u.blocks = DOMAIN t.blocks \cup {Parent[h], h}
  BY <1>4 DEF Spliced, Known
<1>7. u.raised = FALSE
  BY <1>1, <1>4 DEF Spliced
<1>8. TrieOf(u, S \cup {h})
  BY <1>5, <1>6, <1>7, TrieOfMore
<1>9. insertLink(t, Parent[h], h, p) = u
  BY <1>3 DEF insertLink
<1> QED
  BY <1>8, <1>9

\* Each entry's link is put into the trie of the links before it.
LEMMA LinkInserted ==
  ASSUME NEW S \in SUBSET Hash, NEW t, TrieOf(t, S), NEW h \in Hash, NEW p \in Peer
  PROVE  TrieOf(insertLink(t, Parent[h], h, p), S \cup {h})
<1>1. CASE Known(t, Parent[h])
  BY <1>1, LinkBelow
<1>2. CASE ~Known(t, Parent[h]) /\ Known(t, h)
  BY <1>2, LinkAbove
<1>3. CASE ~Known(t, Parent[h]) /\ ~Known(t, h)
  BY <1>3, LinkNew
<1> QED
  BY <1>1, <1>2, <1>3

\* The trie of no links, and of no chains.
LEMMA EmptyTrieIs ==
  ASSUME NEW H
  PROVE  /\ TreeTrie(EmptyTrie, H) /\ EmptyTrie.raised = FALSE
         /\ DOMAIN EmptyTrie.blocks = {} /\ Edges(EmptyTrie) = {} /\ LabelEdges(EmptyTrie) = {}
<1>1. PICK t : t = EmptyTrie
  OBVIOUS
<1>2. PICK b : b = Block("root")
  OBVIOUS
<1>3. b \in TrieNode(H) /\ b.hash = "root" /\ b.children = {} /\ b.labels = {}
  BY <1>2 DEF Block, TrieNode
<1>4. t.nodes = <<b>> /\ t.blocks = [h \in {} |-> Root] /\ t.raised = FALSE
  BY <1>1, <1>2 DEF EmptyTrie
<1>5. t \in Tries(H)
  <2>1. PICK q : q = <<b>>
    OBVIOUS
  <2>2. q \in Seq(TrieNode(H))
    BY <1>3, <2>1
  <2>3. PICK f : f = [h \in {} |-> Root]
    OBVIOUS
  <2>4. f \in [{} -> Nat] /\ {} \in SUBSET H
    BY <2>3
  <2>5. f \in UNION {[D -> Nat] : D \in SUBSET H}
    BY <2>4
  <2>6. t = [nodes |-> q, blocks |-> f, raised |-> FALSE]
    BY <1>1, <1>2, <2>1, <2>3 DEF EmptyTrie
  <2> QED
    BY <2>2, <2>5, <2>6 DEF Tries
<1>6. Size(t) = 1 /\ t.nodes[1] = b
  BY <1>4 DEF Size
<1>7. Objects(t, H)
  BY <1>3, <1>5, <1>6 DEF Objects, Root
<1>8. DOMAIN t.blocks = {}
  BY <1>4
<1>9. NamesFit(t)
  BY <1>8 DEF NamesFit
<1>10. AllNamed(t)
  BY <1>6 DEF AllNamed
<1>11. UniqueParents(t)
  BY <1>6 DEF UniqueParents
<1>12. Connected(t)
  <2>1. 1..1 = {1}
    OBVIOUS
  <2>2. \A S \in SUBSET {1} : 1 \in S => S = {1}
    OBVIOUS
  <2> QED
    BY <1>6, <2>1, <2>2 DEF Connected, HoldsChildren, Root
<1>13. Edges(t) = {}
  <2>1. \A a, d : <<a, d>> \notin Edges(t)
    <3>1. \A n \in 1..Size(t) : t.nodes[n].children = {}
      BY <1>3, <1>6
    <3> QED
      BY <1>7, <3>1, EdgesAre
  <2>2. \A e \in Edges(t) : e = <<e[1], e[2]>>
    BY <1>7, EdgesAre
  <2> QED
    BY <2>1, <2>2
<1>14. LabelEdges(t) = {}
  <2>1. \A a, d : <<a, d>> \notin LabelEdges(t)
    <3>1. \A n \in 1..Size(t) : t.nodes[n].labels = {}
      BY <1>3, <1>6
    <3> QED
      BY <1>7, <3>1, EdgesAre
  <2>2. \A e \in LabelEdges(t) : e = <<e[1], e[2]>>
    BY <1>7, EdgesAre
  <2> QED
    BY <2>1, <2>2
<1> QED
  BY <1>1, <1>4, <1>7, <1>8, <1>9, <1>10, <1>11, <1>12, <1>13, <1>14 DEF TreeTrie, Trie

-----------------------------------------------------------------------------
(* visualize_gossip_net: the logs and the edges drawn of them. *)

\* The entries that are used, of those read.
Read(es) == {es[i] : i \in {j \in DOMAIN es : es[j].usable /\ j # max_entries}}
OfKind(R, h, k) == {e \in R : e.hash = h /\ e.kind = k}

\* The logs hold the entries of R of one kind, by their hash.
LogFits(logs, R, k) ==
  /\ DOMAIN logs = {h \in Hash : OfKind(R, h, k) # {}}
  /\ \A h \in DOMAIN logs :
       logs[h] \in Seq(Entry) /\ {logs[h][i] : i \in 1..Len(logs[h])} = OfKind(R, h, k)

UsableEntry ==
  [kind : {"Received", "Rebroadcasting"}, hash : Gossiped, peer : Peer, sender : Peer,
   time : Times, usable : {TRUE}]

\* The entries that are used have every field.
LEMMA EntriesAre ==
  \A e \in Entry : (e.usable => e \in UsableEntry) /\ (e \in UsableEntry => e.usable)
<1> SUFFICES ASSUME NEW e \in Entry
             PROVE  (e.usable => e \in UsableEntry) /\ (e \in UsableEntry => e.usable)
  OBVIOUS
<1>1. Entry = UsableEntry \cup {[usable |-> FALSE]}
  BY DEF Entry, UsableEntry
<1>2. CASE e \in UsableEntry
  <2>1. e.usable = TRUE
    BY <1>2 DEF UsableEntry
  <2> QED
    BY <1>2, <2>1
<1>3. CASE e = [usable |-> FALSE]
  <2>1. e.usable = FALSE
    BY <1>3
  <2>2. e \notin UsableEntry
    <3>1. \A x \in UsableEntry : x.usable = TRUE
      BY DEF UsableEntry
    <3> QED
      BY <2>1, <3>1
  <2> QED
    BY <2>1, <2>2
<1> QED
  BY <1>1, <1>2, <1>3

\* One entry more is used, or is not.
LEMMA ReadGrows ==
  ASSUME NEW es \in Seq(Entry), NEW e \in Entry
  PROVE  Read(Append(es, e)) =
           IF e.usable /\ Len(es) + 1 # max_entries THEN Read(es) \cup {e} ELSE Read(es)
<1>1. PICK n \in Nat : n = Len(es)
  OBVIOUS
<1>2. PICK fs : fs = Append(es, e)
  OBVIOUS
<1>3. DOMAIN fs = 1..(n + 1) /\ fs[n + 1] = e /\ \A i \in 1..n : fs[i] = es[i]
  BY <1>1, <1>2
<1>4. DOMAIN es = 1..n
  BY <1>1
<1>5. \A x : x \in Read(fs) <=> \E i \in 1..(n + 1) : fs[i].usable /\ i # max_entries /\ x = fs[i]
  BY <1>3 DEF Read
<1>6. \A x : x \in Read(es) <=> \E i \in 1..n : es[i].usable /\ i # max_entries /\ x = es[i]
  BY <1>4 DEF Read
<1>7. \A x : x \in Read(fs) <=> x \in Read(es) \/ (e.usable /\ n + 1 # max_entries /\ x = e)
  <2>1. ASSUME NEW x, x \in Read(fs) PROVE x \in Read(es) \/ (e.usable /\ n + 1 # max_entries /\ x = e)
    <3>1. PICK i \in 1..(n + 1) : fs[i].usable /\ i # max_entries /\ x = fs[i]
      BY <1>5, <2>1
    <3>2. CASE i = n + 1
      BY <1>3, <3>1, <3>2
    <3>3. CASE i # n + 1
      <4>1. i \in 1..n
        BY <3>3
      <4>2. fs[i] = es[i]
        BY <1>3, <4>1
      <4> QED
        BY <1>6, <3>1, <4>1, <4>2, Zenon
    <3> QED
      BY <3>2, <3>3
  <2>2. ASSUME NEW x \in Read(es) PROVE x \in Read(fs)
    <3>1. PICK i \in 1..n : es[i].usable /\ i # max_entries /\ x = es[i]
      BY <1>6
    <3>2. fs[i] = es[i] /\ i \in 1..(n + 1)
      BY <1>3
    <3> QED
      BY <1>5, <3>1, <3>2, Zenon
  <2>3. ASSUME e.usable, n + 1 # max_entries PROVE e \in Read(fs)
    <3>1. n + 1 \in 1..(n + 1)
      OBVIOUS
    <3> QED
      BY <1>3, <1>5, <2>3, <3>1, Zenon
  <2> QED
    BY <2>1, <2>2, <2>3
<1> QED
  BY <1>1, <1>2, <1>7

\* The entry is put behind those of its hash.
LEMMA LoggedFits ==
  ASSUME NEW logs, NEW R, NEW k, LogFits(logs, R, k),
         NEW e \in UsableEntry, e \in Entry, e.kind = k
  PROVE  LogFits(Logged(logs, e), R \cup {e}, k)
<1>1. PICK g : g = e.hash
  OBVIOUS
<1>2. g \in Hash
  BY <1>1, BlockVisualizerAssumption DEF UsableEntry, Hash
<1>3. PICK D : D = {h \in Hash : OfKind(R, h, k) # {}}
  OBVIOUS
<1>4. DOMAIN logs = D
  BY <1>3 DEF LogFits
<1>5. /\ \A h : h # g => OfKind(R \cup {e}, h, k) = OfKind(R, h, k)
      /\ OfKind(R \cup {e}, g, k) = OfKind(R, g, k) \cup {e}
  BY <1>1 DEF OfKind
<1>6. {h \in Hash : OfKind(R \cup {e}, h, k) # {}} = D \cup {g}
  BY <1>2, <1>3, <1>5
<1>7. PICK l : l = Logged(logs, e)
  OBVIOUS
<1>8. CASE g \in D
  <2>1. l = [logs EXCEPT ![g] = Append(logs[g], e)]
    BY <1>1, <1>4, <1>7, <1>8 DEF Logged
  <2>2. DOMAIN l = D \cup {g} /\ \A h \in D : l[h] = IF h = g THEN Append(logs[g], e) ELSE logs[h]
    BY <1>4, <1>8, <2>1
  <2>3. ASSUME NEW h \in D
        PROVE  l[h] \in Seq(Entry) /\ {l[h][i] : i \in 1..Len(l[h])} = OfKind(R \cup {e}, h, k)
    <3>1. logs[h] \in Seq(Entry) /\ {logs[h][i] : i \in 1..Len(logs[h])} = OfKind(R, h, k)
      BY <1>4 DEF LogFits
    <3>2. CASE h # g
      BY <1>5, <2>2, <3>1, <3>2
    <3>3. CASE h = g
      <4>1. PICK s : s = logs[g]
        OBVIOUS
      <4>2. PICK n \in Nat : n = Len(s)
        BY <3>1, <3>3, <4>1
      <4>3. PICK q : q = Append(s, e)
        OBVIOUS
      <4>4. q \in Seq(Entry) /\ Len(q) = n + 1 /\ q[n + 1] = e /\ \A i \in 1..n : q[i] = s[i]
        BY <3>1, <3>3, <4>1, <4>2, <4>3
      <4>5. {q[i] : i \in 1..(n + 1)} = {s[i] : i \in 1..n} \cup {e}
        BY <4>4
      <4>6. l[h] = q
        BY <2>2, <3>3, <4>1, <4>3
      <4>7. {s[i] : i \in 1..n} = OfKind(R, h, k)
        BY <3>1, <3>3, <4>1, <4>2, Zenon
      <4>8. {q[i] : i \in 1..Len(q)} = OfKind(R \cup {e}, h, k)
        BY <1>5, <3>3, <4>4, <4>5, <4>7, Zenon
      <4> QED
        BY <4>4, <4>6, <4>8, Zenon
    <3> QED
      BY <3>2, <3>3
  <2>4. D \cup {g} = D
    BY <1>8
  <2> QED
    BY <1>6, <1>7, <2>2, <2>3, <2>4 DEF LogFits
<1>9. CASE g \notin D
  <2>1. l = [h \in DOMAIN logs \cup {g} |-> IF h = g THEN <<e>> ELSE logs[h]]
    BY <1>1, <1>4, <1>7, <1>9 DEF Logged
  <2>2. DOMAIN l = D \cup {g} /\ \A h \in D \cup {g} : l[h] = IF h = g THEN <<e>> ELSE logs[h]
    BY <1>4, <2>1
  <2>3. ASSUME NEW h \in D \cup {g}
        PROVE  l[h] \in Seq(Entry) /\ {l[h][i] : i \in 1..Len(l[h])} = OfKind(R \cup {e}, h, k)
    <3>1. CASE h # g
      <4>1. logs[h] \in Seq(Entry) /\ {logs[h][i] : i \in 1..Len(logs[h])} = OfKind(R, h, k)
        BY <1>4, <3>1 DEF LogFits
      <4> QED
        BY <1>5, <2>2, <3>1, <4>1
    <3>2. CASE h = g
      <4>1. OfKind(R, g, k) = {}
        BY <1>2, <1>3, <1>9
      <4>2. PICK q : q = <<e>>
        OBVIOUS
      <4>3. q \in Seq(Entry) /\ Len(q) = 1 /\ {q[i] : i \in 1..1} = {e}
        BY <4>2
      <4>4. {q[i] : i \in 1..Len(q)} = {e}
        BY <4>3, Zenon
      <4>5. OfKind(R \cup {e}, h, k) = {e}
        BY <1>5, <3>2, <4>1
      <4>6. l[h] = q
        BY <2>2, <3>2, <4>2
      <4> QED
        BY <4>3, <4>4, <4>5, <4>6, Zenon
    <3> QED
      BY <3>1, <3>2
  <2> QED
    BY <1>6, <1>7, <2>2, <2>3 DEF LogFits
<1> QED
  BY <1>7, <1>8, <1>9

\* An entry of another kind changes nothing.
LEMMA OtherKindFits ==
  ASSUME NEW logs, NEW R, NEW k, LogFits(logs, R, k), NEW e, e.kind # k
  PROVE  LogFits(logs, R \cup {e}, k)
<1>1. \A h : OfKind(R \cup {e}, h, k) = OfKind(R, h, k)
  BY DEF OfKind
<1> QED
  BY <1>1 DEF LogFits

\* retrieve_log finds an entry of the peer if there is one, and no other.
LEMMA RetrievesLog ==
  ASSUME NEW logs \in Seq(Entry), NEW peer
  PROVE  /\ (retrieve_log(logs, peer) # {}) = (\E e \in {logs[i] : i \in 1..Len(logs)} : e.peer = peer)
         /\ retrieve_log(logs, peer) \subseteq {logs[i] : i \in 1..Len(logs)}
<1>1. PICK n \in Nat : n = Len(logs)
  OBVIOUS
<1>2. DOMAIN logs = 1..n
  BY <1>1
<1>3. PICK of : of = {i \in 1..n : logs[i].peer = peer}
  OBVIOUS
<1>4. retrieve_log(logs, peer) = {logs[i] : i \in {j \in of : \A k \in of : j <= k}}
  BY <1>2, <1>3 DEF retrieve_log
<1>5. retrieve_log(logs, peer) \subseteq {logs[i] : i \in 1..n}
  BY <1>3, <1>4
<1>6. ASSUME of # {} PROVE retrieve_log(logs, peer) # {}
  <2>1. of \in SUBSET Nat
    BY <1>3
  <2>2. PICK x \in of : \A y \in of : x <= y
    BY <1>6, <2>1, NatLeast
  <2> QED
    BY <1>4, <2>2
<1>7. ASSUME retrieve_log(logs, peer) # {} PROVE of # {}
  BY <1>4, <1>7
<1>8. of # {} <=> \E e \in {logs[i] : i \in 1..n} : e.peer = peer
  BY <1>3
<1> QED
  BY <1>1, <1>5, <1>6, <1>7, <1>8

\* The edge of an entry has a weight exactly if an entry of its sender is there.
LEMMA EdgeOfIs ==
  ASSUME NEW R, R \subseteq UsableEntry, LogFits(rebroadcasting, R, "Rebroadcasting"),
         NEW h \in DOMAIN rebroadcasting, NEW e \in UsableEntry
  PROVE  /\ EdgeOf(h, e).sender = e.sender /\ EdgeOf(h, e).receiver = e.peer
         /\ (EdgeOf(h, e).weight # NoWeight)
              = (\E l \in OfKind(R, h, "Rebroadcasting") : l.peer = e.sender)
<1>1. PICK logs : logs = rebroadcasting[h]
  OBVIOUS
<1>2. logs \in Seq(Entry) /\ {logs[i] : i \in 1..Len(logs)} = OfKind(R, h, "Rebroadcasting")
  BY <1>1 DEF LogFits
<1>3. PICK sent : sent = retrieve_log(logs, e.sender)
  OBVIOUS
<1>4. /\ (sent # {}) = (\E l \in OfKind(R, h, "Rebroadcasting") : l.peer = e.sender)
      /\ sent \subseteq OfKind(R, h, "Rebroadcasting")
  BY <1>2, <1>3, RetrievesLog
<1>5. PICK w : w = IF sent = {} THEN NoWeight ELSE Milliseconds(e.time, (CHOOSE l \in sent : TRUE).time)
  OBVIOUS
<1>6. EdgeOf(h, e) = [sender |-> e.sender, receiver |-> e.peer, weight |-> w]
  BY <1>1, <1>3, <1>5 DEF EdgeOf
<1>7. (w # NoWeight) = (sent # {})
  <2>1. CASE sent = {}
    BY <1>5, <2>1
  <2>2. CASE sent # {}
    <3>1. PICK l : l = CHOOSE x \in sent : TRUE
      OBVIOUS
    <3>2. l \in sent
      BY <2>2, <3>1
    <3>3. l \in UsableEntry
      BY <1>4, <3>2 DEF OfKind
    <3>4. l.time \in Times /\ e.time \in Times
      BY <3>3 DEF UsableEntry
    <3>5. l.time \in Nat /\ e.time \in Nat /\ Second \in Nat \ {0}
      BY <3>4, BlockVisualizerAssumption
    <3>6. PICK x \in Int : x = e.time - l.time
      BY <3>5
    <3>7. x % Second \in 0..(Second - 1)
      BY <3>5
    <3>8. w = x % Second
      BY <1>5, <2>2, <3>1, <3>6 DEF Milliseconds
    <3>9. w # NoWeight
      BY <3>5, <3>7, <3>8 DEF NoWeight
    <3> QED
      BY <2>2, <3>9
  <2> QED
    BY <2>1, <2>2
<1>8. EdgeOf(h, e).sender = e.sender /\ EdgeOf(h, e).receiver = e.peer /\ EdgeOf(h, e).weight = w
  BY <1>6
<1>9. (EdgeOf(h, e).weight # NoWeight) = (\E l \in OfKind(R, h, "Rebroadcasting") : l.peer = e.sender)
  BY <1>4, <1>7, <1>8, Zenon
<1> QED
  BY <1>8, <1>9, Zenon

\* The graph of a block.
Graph(h) ==
  LET es == [i \in DOMAIN received[h] |-> EdgeOf(h, received[h][i])]
  IN  {es[i] : i \in {j \in DOMAIN es : \A k \in DOMAIN es :
         k > j => es[k].sender # es[j].sender \/ es[k].receiver # es[j].receiver}}

\* It has an edge for every pair of which an entry was read.
LEMMA GraphIs ==
  ASSUME NEW R, R \subseteq UsableEntry,
         LogFits(received, R, "Received"), LogFits(rebroadcasting, R, "Rebroadcasting"),
         NEW h \in DOMAIN rebroadcasting, h \in DOMAIN received
  PROVE  /\ {<<g.sender, g.receiver>> : g \in Graph(h)}
              = {<<e.sender, e.peer>> : e \in OfKind(R, h, "Received")}
         /\ \A g \in Graph(h) :
              (g.weight # NoWeight) = (\E e \in OfKind(R, h, "Rebroadcasting") : e.peer = g.sender)
<1>1. PICK logs : logs = received[h]
  OBVIOUS
<1>2. logs \in Seq(Entry) /\ {logs[i] : i \in 1..Len(logs)} = OfKind(R, h, "Received")
  BY <1>1 DEF LogFits
<1>3. PICK n \in Nat : n = Len(logs)
  BY <1>2
<1>4. DOMAIN logs = 1..n
  BY <1>2, <1>3
<1>5. PICK es : es = [i \in 1..n |-> EdgeOf(h, logs[i])]
  BY Zenon
<1>6. PICK last : last = {j \in 1..n : \A k \in 1..n :
         k > j => es[k].sender # es[j].sender \/ es[k].receiver # es[j].receiver}
  OBVIOUS
<1>7. Graph(h) = {es[i] : i \in last}
  <2>1. es = [i \in DOMAIN received[h] |-> EdgeOf(h, received[h][i])]
    BY <1>1, <1>4, <1>5
  <2>2. DOMAIN es = 1..n
    BY <1>5
  <2>3. last = {j \in DOMAIN es : \A k \in DOMAIN es :
         k > j => es[k].sender # es[j].sender \/ es[k].receiver # es[j].receiver}
    BY <1>6, <2>2
  <2> QED
    BY <2>1, <2>3 DEF Graph
<1>8. \A i \in 1..n : logs[i] \in UsableEntry /\ logs[i] \in OfKind(R, h, "Received")
  <2>1. \A i \in 1..n : logs[i] \in OfKind(R, h, "Received")
    BY <1>2, <1>3
  <2> QED
    BY <2>1 DEF OfKind
<1>9. \A i \in 1..n :
        /\ es[i].sender = logs[i].sender /\ es[i].receiver = logs[i].peer
        /\ (es[i].weight # NoWeight)
             = (\E l \in OfKind(R, h, "Rebroadcasting") : l.peer = logs[i].sender)
  <2> SUFFICES ASSUME NEW i \in 1..n
        PROVE  /\ es[i].sender = logs[i].sender /\ es[i].receiver = logs[i].peer
               /\ (es[i].weight # NoWeight)
                    = (\E l \in OfKind(R, h, "Rebroadcasting") : l.peer = logs[i].sender)
    OBVIOUS
  <2>1. es[i] = EdgeOf(h, logs[i])
    BY <1>5
  <2>2. logs[i] \in UsableEntry
    BY <1>8
  <2>3. /\ EdgeOf(h, logs[i]).sender = logs[i].sender /\ EdgeOf(h, logs[i]).receiver = logs[i].peer
        /\ (EdgeOf(h, logs[i]).weight # NoWeight)
             = (\E l \in OfKind(R, h, "Rebroadcasting") : l.peer = logs[i].sender)
    BY <2>2, EdgeOfIs, Zenon
  <2> QED
    BY <2>1, <2>3, Zenon
<1>10. ASSUME NEW i \in 1..n
       PROVE  \E j \in last : es[j].sender = es[i].sender /\ es[j].receiver = es[i].receiver
  <2>1. PICK S : S = {j \in 1..n : es[j].sender = es[i].sender /\ es[j].receiver = es[i].receiver}
    OBVIOUS
  <2>2. S \in SUBSET (0..n) /\ i \in S
    BY <2>1
  <2>3. PICK j \in S : \A k \in S : k <= j
    BY <2>2, NatGreatest
  <2>4. j \in 1..n /\ es[j].sender = es[i].sender /\ es[j].receiver = es[i].receiver
    BY <2>1
  <2>5. ASSUME NEW k \in 1..n, k > j
        PROVE  es[k].sender # es[j].sender \/ es[k].receiver # es[j].receiver
    <3>1. k \notin S
      BY <2>3, <2>4, <2>5
    <3> QED
      BY <2>1, <2>4, <3>1
  <2>6. j \in last
    BY <1>6, <2>4, <2>5
  <2> QED
    BY <2>4, <2>6
<1>11. last \subseteq 1..n
  BY <1>6
<1>12. {<<g.sender, g.receiver>> : g \in Graph(h)} \subseteq {<<e.sender, e.peer>> : e \in OfKind(R, h, "Received")}
  <2> SUFFICES ASSUME NEW g \in Graph(h)
               PROVE  <<g.sender, g.receiver>> \in {<<e.sender, e.peer>> : e \in OfKind(R, h, "Received")}
    OBVIOUS
  <2>0. PICK i \in last : g = es[i]
    BY <1>7
  <2>1. i \in 1..n
    BY <1>11
  <2>2. logs[i] \in OfKind(R, h, "Received") /\ es[i].sender = logs[i].sender /\ es[i].receiver = logs[i].peer
    BY <1>8, <1>9, <2>1
  <2> QED
    BY <2>0, <2>2
<1>13. {<<e.sender, e.peer>> : e \in OfKind(R, h, "Received")} \subseteq {<<g.sender, g.receiver>> : g \in Graph(h)}
  <2> SUFFICES ASSUME NEW e \in OfKind(R, h, "Received")
               PROVE  <<e.sender, e.peer>> \in {<<g.sender, g.receiver>> : g \in Graph(h)}
    OBVIOUS
  <2>0. PICK i \in 1..n : e = logs[i]
    BY <1>2, <1>3
  <2>1. PICK j \in last : es[j].sender = es[i].sender /\ es[j].receiver = es[i].receiver
    BY <1>10
  <2>2. es[j] \in Graph(h) /\ es[j].sender = logs[i].sender /\ es[j].receiver = logs[i].peer
    BY <1>7, <1>9, <2>1
  <2> QED
    BY <2>0, <2>2
<1>14. ASSUME NEW g \in Graph(h)
       PROVE  (g.weight # NoWeight) = (\E e \in OfKind(R, h, "Rebroadcasting") : e.peer = g.sender)
  <2>1. PICK i \in last : g = es[i]
    BY <1>7
  <2>2. i \in 1..n
    BY <1>11
  <2> QED
    BY <1>9, <2>1, <2>2, Zenon
<1> QED
  BY <1>12, <1>13, <1>14

-----------------------------------------------------------------------------
(* The visualizer, step by step. *)

\* What holds between the entries: the trie is that of the links, or the logs
\* are those of the entries.
VisualizerInv ==
  /\ vis_pc \in {"blockchain", "gossip", "draw", "done"}
  /\ vis_pc = "blockchain" => /\ entries \in Seq([hash : Hash, peer : Peer])
                              /\ TrieOf(block_trie, Seen)
  /\ vis_pc # "blockchain" =>
       /\ entries \in Seq(Entry) /\ block_trie = EmptyTrie
       /\ LogFits(received, Read(entries), "Received")
       /\ LogFits(rebroadcasting, Read(entries), "Rebroadcasting")
  /\ EdgesAreLogged

\* EdgesAreLogged of a state.
GraphsFit(pc, es, gs) ==
  pc = "done" =>
    /\ DOMAIN gs = {h \in Hash : OfKind(Read(es), h, "Rebroadcasting") # {}}
    /\ \A h \in DOMAIN gs :
         /\ {<<g.sender, g.receiver>> : g \in gs[h]}
              = {<<e.sender, e.peer>> : e \in OfKind(Read(es), h, "Received")}
         /\ \A g \in gs[h] :
              (g.weight # NoWeight) = (\E e \in OfKind(Read(es), h, "Rebroadcasting") : e.peer = g.sender)

\* Only usable entries are read.
LEMMA ReadIsUsable ==
  ASSUME NEW es \in Seq(Entry) PROVE Read(es) \subseteq UsableEntry
<1> SUFFICES ASSUME NEW e \in Read(es) PROVE e \in UsableEntry
  OBVIOUS
<1>1. PICK i \in DOMAIN es : es[i].usable /\ e = es[i]
  BY DEF Read
<1>2. e \in Entry /\ e.usable
  BY <1>1
<1> QED
  BY <1>2, EntriesAre

\* It holds at the start.
LEMMA VisualizerInitInv == VisualizerInit => VisualizerInv
<1> SUFFICES ASSUME VisualizerInit PROVE VisualizerInv
  OBVIOUS
<1>1. /\ vis_pc \in {"blockchain", "gossip"} /\ entries = <<>> /\ block_trie = EmptyTrie
      /\ received = [h \in {} |-> <<>>] /\ rebroadcasting = [h \in {} |-> <<>>]
  BY DEF VisualizerInit
<1>2. entries \in Seq([hash : Hash, peer : Peer]) /\ entries \in Seq(Entry) /\ DOMAIN entries = {}
  BY <1>1
<1>3. Seen = {} /\ Read(entries) = {}
  BY <1>2 DEF Seen, Read
<1>4. TrieOf(block_trie, Seen)
  <2>1. /\ TreeTrie(block_trie, Hashes) /\ block_trie.raised = FALSE
        /\ DOMAIN block_trie.blocks = {} /\ Edges(block_trie) = {}
    BY <1>1, EmptyTrieIs
  <2>2. Linked(block_trie) = {}
    BY <2>1 DEF Linked
  <2> QED
    BY <1>3, <2>1, <2>2 DEF TrieOf
<1>5. DOMAIN received = {} /\ DOMAIN rebroadcasting = {}
  BY <1>1
<1>6. \A k : LogFits(received, Read(entries), k) /\ LogFits(rebroadcasting, Read(entries), k)
  BY <1>3, <1>5 DEF LogFits, OfKind
<1>7. EdgesAreLogged
  BY <1>1 DEF EdgesAreLogged
<1> QED
  BY <1>1, <1>2, <1>4, <1>6, <1>7 DEF VisualizerInv

\* An entry of a block adds its hash to those seen.
LEMMA SeenGrows ==
  ASSUME NEW E, NEW es \in Seq(E), NEW e \in E
  PROVE  {Append(es, e)[i].hash : i \in DOMAIN Append(es, e)} = {es[i].hash : i \in DOMAIN es} \cup {e.hash}
<1>1. PICK n \in Nat : n = Len(es)
  OBVIOUS
<1>2. PICK fs : fs = Append(es, e)
  OBVIOUS
<1>3. DOMAIN fs = 1..(n + 1) /\ fs[n + 1] = e /\ \A i \in 1..n : fs[i] = es[i]
  BY <1>1, <1>2
<1>4. DOMAIN es = 1..n
  BY <1>1
<1>5. {fs[i].hash : i \in 1..(n + 1)} = {es[i].hash : i \in 1..n} \cup {e.hash}
  <2>1. ASSUME NEW i \in 1..(n + 1) PROVE fs[i].hash \in {es[j].hash : j \in 1..n} \cup {e.hash}
    <3>1. i = n + 1 \/ i \in 1..n
      OBVIOUS
    <3> QED
      BY <1>3, <3>1
  <2>2. ASSUME NEW i \in 1..n PROVE es[i].hash \in {fs[j].hash : j \in 1..(n + 1)}
    <3>1. i \in 1..(n + 1) /\ fs[i] = es[i]
      BY <1>3
    <3> QED
      BY <3>1
  <2>3. e.hash \in {fs[j].hash : j \in 1..(n + 1)}
    <3>1. n + 1 \in 1..(n + 1)
      OBVIOUS
    <3> QED
      BY <1>3, <3>1
  <2> QED
    BY <2>1, <2>2, <2>3
<1> QED
  BY <1>2, <1>3, <1>4, <1>5

\* Every step keeps it.
LEMMA VisualizerStep ==
  VisualizerInv /\ [VisualizerNext]_visualizerVars => VisualizerInv'
<1> SUFFICES ASSUME VisualizerInv, [VisualizerNext]_visualizerVars PROVE VisualizerInv'
  OBVIOUS
<1>1. CASE insert_entry
  <2>1. PICK h \in Hash : \E p \in Peer :
          /\ entries' = Append(entries, [hash |-> h, peer |-> p])
          /\ block_trie' = insertLink(block_trie, Parent[h], h, p)
    BY <1>1 DEF insert_entry
  <2>2. PICK p \in Peer :
          /\ entries' = Append(entries, [hash |-> h, peer |-> p])
          /\ block_trie' = insertLink(block_trie, Parent[h], h, p)
    BY <2>1
  <2>3. vis_pc = "blockchain" /\ vis_pc' = "blockchain"
    BY <1>1 DEF insert_entry
  <2>4. entries \in Seq([hash : Hash, peer : Peer]) /\ TrieOf(block_trie, Seen)
    BY <2>3 DEF VisualizerInv
  <2>5. PICK e : e = [hash |-> h, peer |-> p]
    OBVIOUS
  <2>6. e \in [hash : Hash, peer : Peer] /\ e.hash = h
    BY <2>5
  <2>7. entries' = Append(entries, e)
    BY <2>2, <2>5
  <2>8. entries' \in Seq([hash : Hash, peer : Peer])
    BY <2>4, <2>6, <2>7
  <2>9. Seen' = Seen \cup {h}
    BY <2>4, <2>6, <2>7, SeenGrows DEF Seen
  <2>10. Seen \in SUBSET Hash
    <3>1. PICK E : E = [hash : Hash, peer : Peer]
      OBVIOUS
    <3>2. entries \in Seq(E)
      BY <2>4, <3>1
    <3>3. \A i \in DOMAIN entries : entries[i] \in E
      BY <3>2
    <3>4. \A x \in E : x.hash \in Hash
      BY <3>1
    <3> QED
      BY <3>3, <3>4 DEF Seen
  <2>11. TrieOf(block_trie', Seen')
    BY <2>2, <2>4, <2>9, <2>10, LinkInserted
  <2>12. EdgesAreLogged'
    BY <2>3 DEF EdgesAreLogged
  <2>13. TrieOf(block_trie, Seen)'
    BY <2>11 DEF TrieOf, Linked, Edges
  <2> QED
    BY <2>3, <2>8, <2>12, <2>13 DEF VisualizerInv
<1>2. CASE sort_entry
  <2>1. PICK e \in Entry :
          /\ entries' = Append(entries, e)
          /\ vis_pc' = IF Len(entries') = max_entries THEN "draw" ELSE "gossip"
          /\ received' = IF (e.usable /\ vis_pc' = "gossip") /\ e.kind = "Received" THEN Logged(received, e) ELSE received
          /\ rebroadcasting' = IF (e.usable /\ vis_pc' = "gossip") /\ e.kind = "Rebroadcasting"
                               THEN Logged(rebroadcasting, e) ELSE rebroadcasting
    BY <1>2 DEF sort_entry
  <2>2. vis_pc = "gossip" /\ block_trie' = block_trie
    BY <1>2 DEF sort_entry
  <2>3. /\ entries \in Seq(Entry) /\ block_trie = EmptyTrie
        /\ LogFits(received, Read(entries), "Received")
        /\ LogFits(rebroadcasting, Read(entries), "Rebroadcasting")
    BY <2>2 DEF VisualizerInv
  <2>4. entries' \in Seq(Entry) /\ Len(entries') = Len(entries) + 1
    BY <2>1, <2>3
  <2>5. vis_pc' = IF Len(entries) + 1 = max_entries THEN "draw" ELSE "gossip"
    BY <2>1, <2>4
  <2>6. Read(entries') = IF e.usable /\ Len(entries) + 1 # max_entries THEN Read(entries) \cup {e} ELSE Read(entries)
    BY <2>1, <2>3, ReadGrows
  <2>7. /\ LogFits(received', Read(entries'), "Received")
        /\ LogFits(rebroadcasting', Read(entries'), "Rebroadcasting")
    <3>1. CASE e.usable /\ Len(entries) + 1 # max_entries
      <4>1. vis_pc' = "gossip"
        BY <2>5, <3>1
      <4>2. Read(entries') = Read(entries) \cup {e}
        BY <2>6, <3>1
      <4>3. e \in UsableEntry
        BY <3>1, EntriesAre
      <4>4. e.kind \in {"Received", "Rebroadcasting"}
        BY <4>3 DEF UsableEntry
      <4>5. CASE e.kind = "Received"
        <5>1. received' = Logged(received, e) /\ rebroadcasting' = rebroadcasting
          BY <2>1, <3>1, <4>1, <4>5
        <5>2. LogFits(Logged(received, e), Read(entries) \cup {e}, "Received")
          BY <2>3, <4>3, <4>5, LoggedFits
        <5>3. LogFits(rebroadcasting, Read(entries) \cup {e}, "Rebroadcasting")
          <6>1. e.kind # "Rebroadcasting"
            BY <4>5
          <6> QED
            BY <2>3, <6>1, OtherKindFits
        <5> QED
          BY <4>2, <5>1, <5>2, <5>3
      <4>6. CASE e.kind = "Rebroadcasting"
        <5>1. received' = received /\ rebroadcasting' = Logged(rebroadcasting, e)
          BY <2>1, <3>1, <4>1, <4>6
        <5>2. LogFits(Logged(rebroadcasting, e), Read(entries) \cup {e}, "Rebroadcasting")
          BY <2>3, <4>3, <4>6, LoggedFits
        <5>3. LogFits(received, Read(entries) \cup {e}, "Received")
          <6>1. e.kind # "Received"
            BY <4>6
          <6> QED
            BY <2>3, <6>1, OtherKindFits
        <5> QED
          BY <4>2, <5>1, <5>2, <5>3
      <4> QED
        BY <4>4, <4>5, <4>6
    <3>2. CASE ~(e.usable /\ Len(entries) + 1 # max_entries)
      <4>1. Read(entries') = Read(entries)
        BY <2>6, <3>2
      <4>2. ~(e.usable /\ vis_pc' = "gossip")
        BY <2>5, <3>2
      <4>3. received' = received /\ rebroadcasting' = rebroadcasting
        BY <2>1, <4>2
      <4> QED
        BY <2>3, <4>1, <4>3
    <3> QED
      BY <3>1, <3>2
  <2>8. vis_pc' # "blockchain" /\ vis_pc' # "done" /\ vis_pc' \in {"blockchain", "gossip", "draw", "done"}
    BY <2>5
  <2>9. EdgesAreLogged'
    BY <2>8 DEF EdgesAreLogged
  <2>10. LogFits(received, Read(entries), "Received")' /\ LogFits(rebroadcasting, Read(entries), "Rebroadcasting")'
    BY <2>7 DEF LogFits, Read
  <2> QED
    BY <2>2, <2>3, <2>4, <2>8, <2>9, <2>10 DEF VisualizerInv
<1>3. CASE entries_end
  <2>1. vis_pc = "gossip" /\ vis_pc' = "draw"
    BY <1>3 DEF entries_end
  <2>2. UNCHANGED <<entries, block_trie, received, rebroadcasting, graphs>>
    BY <1>3 DEF entries_end
  <2>3. EdgesAreLogged'
    BY <2>1 DEF EdgesAreLogged
  <2>4. LogFits(received, Read(entries), "Received")' /\ LogFits(rebroadcasting, Read(entries), "Rebroadcasting")'
    <3>1. LogFits(received, Read(entries), "Received") /\ LogFits(rebroadcasting, Read(entries), "Rebroadcasting")
      BY <2>1 DEF VisualizerInv
    <3>2. LogFits(received', Read(entries'), "Received") /\ LogFits(rebroadcasting', Read(entries'), "Rebroadcasting")
      BY <2>2, <3>1
    <3> QED
      BY <3>2 DEF LogFits, Read
  <2> QED
    BY <2>1, <2>2, <2>3, <2>4 DEF VisualizerInv
<1>4. CASE draw
  <2>1. vis_pc = "draw" /\ vis_pc' = "done"
    BY <1>4 DEF draw
  <2>2. UNCHANGED <<entries, block_trie, received, rebroadcasting>>
    BY <1>4 DEF draw
  <2>3. graphs' = [h \in DOMAIN rebroadcasting |-> IF h \notin DOMAIN received THEN {} ELSE Graph(h)]
    BY <1>4 DEF draw, Graph
  <2>4. /\ entries \in Seq(Entry) /\ block_trie = EmptyTrie
        /\ LogFits(received, Read(entries), "Received")
        /\ LogFits(rebroadcasting, Read(entries), "Rebroadcasting")
    BY <2>1 DEF VisualizerInv
  <2>5. PICK R : R = Read(entries)
    OBVIOUS
  <2>6. R \subseteq UsableEntry
    BY <2>4, <2>5, ReadIsUsable
  <2>7. DOMAIN graphs' = {h \in Hash : OfKind(R, h, "Rebroadcasting") # {}}
    BY <2>3, <2>4, <2>5 DEF LogFits
  <2>8. ASSUME NEW h \in DOMAIN graphs'
        PROVE  /\ {<<g.sender, g.receiver>> : g \in graphs'[h]}
                    = {<<e.sender, e.peer>> : e \in OfKind(R, h, "Received")}
               /\ \A g \in graphs'[h] :
                    (g.weight # NoWeight) = (\E e \in OfKind(R, h, "Rebroadcasting") : e.peer = g.sender)
    <3>1. h \in DOMAIN rebroadcasting /\ h \in Hash
      BY <2>3, <2>7
    <3>2. CASE h \in DOMAIN received
      <4>1. graphs'[h] = Graph(h)
        BY <2>3, <3>1, <3>2
      <4>2. /\ {<<g.sender, g.receiver>> : g \in Graph(h)}
                 = {<<e.sender, e.peer>> : e \in OfKind(R, h, "Received")}
            /\ \A g \in Graph(h) :
                 (g.weight # NoWeight) = (\E e \in OfKind(R, h, "Rebroadcasting") : e.peer = g.sender)
        BY <2>4, <2>5, <2>6, <3>1, <3>2, GraphIs, Zenon
      <4> QED
        BY <4>1, <4>2, Zenon
    <3>3. CASE h \notin DOMAIN received
      <4>1. graphs'[h] = {}
        BY <2>3, <3>1, <3>3
      <4>2. OfKind(R, h, "Received") = {}
        BY <2>4, <2>5, <3>1, <3>3 DEF LogFits
      <4> QED
        BY <4>1, <4>2
    <3> QED
      BY <3>2, <3>3
  <2>9. EdgesAreLogged'
    <3>1. R = {entries'[i] : i \in {j \in DOMAIN entries' : entries'[j].usable /\ j # max_entries}}
      BY <2>2, <2>5 DEF Read
    <3> QED
      BY <2>7, <2>8, <3>1, Zenon DEF EdgesAreLogged, OfKind
  <2>10. LogFits(received, Read(entries), "Received")' /\ LogFits(rebroadcasting, Read(entries), "Rebroadcasting")'
    <3>1. LogFits(received', Read(entries'), "Received") /\ LogFits(rebroadcasting', Read(entries'), "Rebroadcasting")
      BY <2>2, <2>4
    <3> QED
      BY <3>1 DEF LogFits, Read
  <2> QED
    BY <2>1, <2>2, <2>4, <2>9, <2>10 DEF VisualizerInv
<1>5. CASE UNCHANGED visualizerVars
  <2>1. /\ vis_pc' = vis_pc /\ entries' = entries /\ block_trie' = block_trie /\ received' = received
        /\ rebroadcasting' = rebroadcasting /\ graphs' = graphs
    BY <1>5 DEF visualizerVars
  <2>2. Seen' = Seen
    BY <2>1 DEF Seen
  <2>3. TrieOf(block_trie, Seen) => TrieOf(block_trie, Seen)'
    <3>1. TrieOf(block_trie, Seen) => TrieOf(block_trie', Seen')
      BY <2>1, <2>2
    <3> QED
      BY <3>1 DEF TrieOf, Linked, Edges
  <2>4. /\ LogFits(received, Read(entries), "Received") => LogFits(received, Read(entries), "Received")'
        /\ LogFits(rebroadcasting, Read(entries), "Rebroadcasting") => LogFits(rebroadcasting, Read(entries), "Rebroadcasting")'
    <3>1. /\ LogFits(received, Read(entries), "Received") => LogFits(received', Read(entries'), "Received")
          /\ LogFits(rebroadcasting, Read(entries), "Rebroadcasting") => LogFits(rebroadcasting', Read(entries'), "Rebroadcasting")
      BY <2>1
    <3> QED
      BY <3>1 DEF LogFits, Read
  <2>5. EdgesAreLogged => EdgesAreLogged'
    <3>1. EdgesAreLogged <=> GraphsFit(vis_pc, entries, graphs)
      BY Zenon DEF EdgesAreLogged, GraphsFit, Read, OfKind
    <3>2. EdgesAreLogged' <=> GraphsFit(vis_pc', entries', graphs')
      BY Zenon DEF EdgesAreLogged, GraphsFit, Read, OfKind
    <3> QED
      BY <2>1, <3>1, <3>2
  <2> QED
    BY <2>1, <2>3, <2>4, <2>5 DEF VisualizerInv
<1> QED
  BY <1>1, <1>2, <1>3, <1>4, <1>5 DEF VisualizerNext

\* The graphs of the logs are right, and the objects of the blocks are a tree.
VisualizerIsRight == LinksAreDrawn /\ NoKeyError /\ TrieIsTree /\ EdgesAreLogged

\* It follows from the invariant.
LEMMA VisualizerInvIsRight == VisualizerInv => VisualizerIsRight
<1> SUFFICES ASSUME VisualizerInv PROVE VisualizerIsRight
  OBVIOUS
<1>1. TreeTrie(block_trie, Hashes) /\ block_trie.raised = FALSE
  <2>1. CASE vis_pc = "blockchain"
    BY <2>1 DEF VisualizerInv, TrieOf
  <2>2. CASE vis_pc # "blockchain"
    BY <2>2, EmptyTrieIs DEF VisualizerInv
  <2> QED
    BY <2>1, <2>2
<1>2. TrieIsTree
  BY <1>1, TreeTrieIsTree DEF TrieIsTree
<1>3. NoKeyError
  BY <1>1 DEF NoKeyError
<1>4. LinksAreDrawn
  BY DEF VisualizerInv, LinksAreDrawn, TrieOf, Linked, Edges
<1> QED
  BY <1>2, <1>3, <1>4 DEF VisualizerInv, VisualizerIsRight

\* Whatever the order and number of the log entries, the graph of the blocks has
\* the link of every entry and no other, the objects of the trie are a tree, and
\* the gossip graphs have the edges of the entries read.
THEOREM LogDrawingsAreRight == VisualizerSpec => []VisualizerIsRight
<1>1. VisualizerSpec => []VisualizerInv
  BY VisualizerInitInv, VisualizerStep, PTL DEF VisualizerSpec
<1> QED
  BY <1>1, VisualizerInvIsRight, PTL

-----------------------------------------------------------------------------
(* compare_best_tip: the chains in the trie. *)

\* The hashes of chains, and the link that leads to each.
ChainHashes(C) == UNION {{d[j] : j \in 1..Len(d)} : d \in C}
Prev(c, j) == IF j = 1 THEN "root" ELSE c[j - 1]
LinksTo(c, k) == {<<Prev(c, j), c[j]>> : j \in 1..k}

\* The edges without the loops.
Proper(t) == Edges(t) \ SelfLoops(Edges(t))

\* The trie has the objects and links of the chains C.
Holds(t, C) ==
  DOMAIN t.blocks = ChainHashes(C) /\ Proper(t) = UNION {LinksTo(c, Len(c)) : c \in C}

\* Chains that begin at the same block.
SameHead(C) == \A c, d \in C : Head(c) = Head(d)

\* What is assumed of each chain.
LEMMA ChainsAre ==
  /\ \A c \in Chains :
       /\ c \in Seq(ChainHashes(Chains)) /\ c # <<>> /\ Len(c) \in Nat /\ Len(c) >= 1 /\ DOMAIN c = 1..Len(c)
       /\ Head(c) = c[1] /\ Last(c) = c[Len(c)]
       /\ \A i, j \in 1..Len(c) : c[i] = c[j] => i = j
       /\ \A i \in 1..Len(c) : c[i] # "root"
  /\ \A c, d \in Chains : \A i \in 2..Len(c) : \A j \in 2..Len(d) :
       c[i] = d[j] => c[i - 1] = d[j - 1]
<1>1. ASSUME NEW c \in Chains
      PROVE  /\ c \in Seq(ChainHashes(Chains)) /\ c # <<>> /\ Len(c) \in Nat /\ Len(c) >= 1 /\ DOMAIN c = 1..Len(c)
             /\ Head(c) = c[1] /\ Last(c) = c[Len(c)]
             /\ \A i, j \in 1..Len(c) : c[i] = c[j] => i = j
             /\ \A i \in 1..Len(c) : c[i] # "root"
  <2>1. /\ c \in Seq(STRING) /\ c # <<>>
        /\ \A i, j \in DOMAIN c : c[i] = c[j] => i = j
        /\ \A i \in DOMAIN c : c[i] # "root"
    BY ChainsAssumption
  <2>2. Len(c) \in Nat /\ Len(c) >= 1 /\ DOMAIN c = 1..Len(c) /\ Head(c) = c[1]
    BY <2>1
  <2>3. \A i \in 1..Len(c) : c[i] \in ChainHashes(Chains)
    BY DEF ChainHashes
  <2>4. c \in Seq(ChainHashes(Chains))
    BY <2>1, <2>2, <2>3
  <2>5. Last(c) = c[Len(c)]
    BY DEF Last
  <2>6. /\ \A i, j \in 1..Len(c) : c[i] = c[j] => i = j
        /\ \A i \in 1..Len(c) : c[i] # "root"
    BY <2>1, <2>2
  <2> QED
    BY <2>1, <2>2, <2>4, <2>5, <2>6
<1>2. ASSUME NEW c \in Chains, NEW d \in Chains, NEW i \in 2..Len(c), NEW j \in 2..Len(d), c[i] = d[j]
      PROVE  c[i - 1] = d[j - 1]
  <2>1. i \in DOMAIN c \ {1} /\ j \in DOMAIN d \ {1}
    <3>1. DOMAIN c = 1..Len(c) /\ DOMAIN d = 1..Len(d) /\ Len(c) \in Nat /\ Len(d) \in Nat
      BY <1>1
    <3> QED
      BY <3>1
  <2> QED
    BY <1>2, <2>1, ChainsAssumption
<1> QED
  BY <1>1, <1>2

\* The links of a chain that hangs at the root.
LEMMA LinksAre ==
  ASSUME NEW c \in Chains
  PROVE  Links(<<"root">> \o c) = LinksTo(c, Len(c))
<1>1. PICK n \in Nat : n = Len(c)
  BY ChainsAre
<1>2. PICK d : d = <<"root">> \o c
  OBVIOUS
<1>3. c \in Seq(ChainHashes(Chains) \cup {"root"})
  BY ChainsAre
<1>4. Len(d) = n + 1 /\ d[1] = "root" /\ \A k \in 2..(n + 1) : d[k] = c[k - 1]
  BY <1>1, <1>2, <1>3
<1>5. Links(d) = {<<d[k], d[k + 1]>> : k \in 1..n}
  <2>1. Len(d) - 1 = n
    BY <1>4
  <2> QED
    BY <2>1 DEF Links
<1>6. \A k \in 1..n : d[k + 1] = c[k] /\ d[k] = Prev(c, k)
  <2> SUFFICES ASSUME NEW k \in 1..n PROVE d[k + 1] = c[k] /\ d[k] = Prev(c, k)
    OBVIOUS
  <2>1. k + 1 \in 2..(n + 1) /\ k + 1 - 1 = k
    OBVIOUS
  <2>2. d[k + 1] = c[k]
    BY <1>4, <2>1
  <2>3. CASE k = 1
    BY <1>4, <2>2, <2>3 DEF Prev
  <2>4. CASE k # 1
    <3>1. k \in 2..(n + 1)
      BY <2>4
    <3> QED
      BY <1>4, <2>2, <2>4, <3>1 DEF Prev
  <2> QED
    BY <2>3, <2>4
<1> QED
  BY <1>1, <1>2, <1>5, <1>6 DEF LinksTo

\* A block that is known hangs where the chain says, when the chains begin at the
\* same block.
LEMMA KnownHangsThere ==
  ASSUME NEW C \in SUBSET Chains, NEW c \in Chains, SameHead(C \cup {c}),
         NEW k \in 1..Len(c), c[k] \in ChainHashes(C)
  PROVE  <<Prev(c, k), c[k]>> \in UNION {LinksTo(d, Len(d)) : d \in C}
<1>1. PICK d \in C : \E j \in 1..Len(d) : c[k] = d[j]
  BY DEF ChainHashes
<1>2. PICK j \in 1..Len(d) : c[k] = d[j]
  BY <1>1
<1>3. d \in Chains /\ c[1] = d[1] /\ Len(c) \in Nat /\ Len(d) \in Nat /\ 1 \in 1..Len(c) /\ 1 \in 1..Len(d)
  <2>1. d \in Chains /\ Head(c) = Head(d)
    BY DEF SameHead
  <2>2. Head(c) = c[1] /\ Head(d) = d[1] /\ Len(c) \in Nat /\ Len(d) \in Nat /\ Len(c) >= 1 /\ Len(d) >= 1
    BY <2>1, ChainsAre
  <2> QED
    BY <2>1, <2>2
<1>4. Prev(c, k) = Prev(d, j)
  <2>1. CASE k = 1
    <3>1. d[j] = d[1]
      BY <1>2, <1>3, <2>1
    <3>2. j = 1
      BY <1>3, <3>1, ChainsAre
    <3> QED
      BY <2>1, <3>2 DEF Prev
  <2>2. CASE k # 1
    <3>1. j # 1
      <4> SUFFICES ASSUME j = 1 PROVE FALSE
        OBVIOUS
      <4>1. c[k] = c[1]
        BY <1>2, <1>3
      <4>2. k = 1
        BY <1>3, <4>1, ChainsAre
      <4> QED
        BY <2>2, <4>2
    <3>2. k \in 2..Len(c) /\ j \in 2..Len(d)
      BY <1>3, <2>2, <3>1
    <3>3. c[k - 1] = d[j - 1]
      BY <1>2, <1>3, <3>2, ChainsAre
    <3> QED
      BY <2>2, <3>1, <3>3 DEF Prev
  <2> QED
    BY <2>1, <2>2
<1>5. <<Prev(d, j), d[j]>> \in LinksTo(d, Len(d))
  BY DEF LinksTo
<1> QED
  BY <1>2, <1>4, <1>5

\* One edge more, or a loop.
OneEdgeMore(t, u, x, y) == Edges(u) = Edges(t) \cup {<<x, y>>}

\* What that does to the edges without the loops.
LEMMA ProperGrows ==
  ASSUME NEW t, NEW u, NEW x, NEW y, OneEdgeMore(t, u, x, y)
  PROVE  Proper(u) = IF x = y THEN Proper(t) ELSE Proper(t) \cup {<<x, y>>}
<1>1. <<x, y>>[1] = x /\ <<x, y>>[2] = y
  OBVIOUS
<1>2. \A e : e \in Proper(t) <=> e \in Edges(t) /\ e[1] # e[2]
  BY DEF Proper, SelfLoops
<1>3. \A e : e \in Proper(u) <=> e \in Edges(u) /\ e[1] # e[2]
  BY DEF Proper, SelfLoops
<1>4. \A e : e \in Edges(u) <=> e \in Edges(t) \/ e = <<x, y>>
  BY DEF OneEdgeMore
<1>5. \A e : e \in Proper(u) <=> e \in Proper(t) \/ (e = <<x, y>> /\ x # y)
  BY <1>1, <1>2, <1>3, <1>4
<1> QED
  BY <1>5

\* What insert has reached after k parts of the chain c.
AfterParts(a, t, c, k) ==
  /\ DOMAIN a.trie.blocks = DOMAIN t.blocks \cup {c[j] : j \in 1..k}
  /\ LabelEdges(a.trie) = LabelEdges(t)
  /\ Proper(a.trie) = Proper(t) \cup LinksTo(c, k)
  /\ k >= 1 => a.trie.nodes[a.node].hash = c[k]
  /\ k = 0 => a.trie = t /\ a.node = IF Known(t, Last(c)) THEN t.blocks[Last(c)] ELSE Root

\* One part more.
LEMMA PartFollows ==
  ASSUME NEW C \in SUBSET Chains, NEW c \in Chains, SameHead(C \cup {c}),
         NEW t, TreeTrie(t, ChainHashes(Chains)), Holds(t, C),
         NEW k \in Nat, k + 1 <= Len(c),
         NEW a \in Reached(ChainHashes(Chains)), AfterParts(a, t, c, k)
  PROVE  AfterParts(InsertPart(a, c[k + 1]), t, c, k + 1)
<1>1. PICK n \in Nat : n = Len(c)
  BY ChainsAre
<1>2. PICK h : h = c[k + 1]
  OBVIOUS
<1>3. PICK b : b = InsertPart(a, h)
  OBVIOUS
<1>4. k + 1 \in 1..n /\ n \in 1..n /\ 1 \in 1..n
  BY <1>1
<1>5. h \in ChainHashes(Chains)
  <2>1. h \in {c[j] : j \in 1..Len(c)}
    BY <1>1, <1>2, <1>4
  <2> QED
    BY <2>1 DEF ChainHashes
<1>6. PartDone(a, b, h)
  BY <1>3, <1>5, PartIs
<1>7. \A j \in 1..k : c[j] # h
  <2> SUFFICES ASSUME NEW j \in 1..k, c[j] = h PROVE FALSE
    OBVIOUS
  <2>1. j \in 1..n /\ j # k + 1
    BY <1>1
  <2> QED
    BY <1>1, <1>2, <1>4, <2>1, ChainsAre
<1>8. PICK x : x = IF h \in DOMAIN a.trie.blocks THEN h ELSE a.trie.nodes[a.node].hash
  OBVIOUS
<1>9. Edges(b.trie) = Edges(a.trie) \cup {<<x, h>>}
  BY <1>6, <1>8 DEF PartDone
<1>10. Proper(b.trie) = IF x = h THEN Proper(a.trie) ELSE Proper(a.trie) \cup {<<x, h>>}
  <2>1. PICK v, w : v = a.trie /\ w = b.trie
    OBVIOUS
  <2>2. OneEdgeMore(v, w, x, h)
    BY <1>9, <2>1 DEF OneEdgeMore
  <2>3. Proper(w) = IF x = h THEN Proper(v) ELSE Proper(v) \cup {<<x, h>>}
    BY <2>2, ProperGrows
  <2> QED
    BY <2>1, <2>3
<1>11. LinksTo(c, k + 1) = LinksTo(c, k) \cup {<<Prev(c, k + 1), h>>}
  <2>1. 1..(k + 1) = 1..k \cup {k + 1}
    OBVIOUS
  <2> QED
    BY <1>2, <2>1 DEF LinksTo
<1>12. Proper(b.trie) = Proper(t) \cup LinksTo(c, k + 1)
  <2>1. Proper(a.trie) = Proper(t) \cup LinksTo(c, k)
    BY DEF AfterParts
  <2>2. CASE h \in DOMAIN a.trie.blocks
    <3>1. Proper(b.trie) = Proper(a.trie)
      BY <1>8, <1>10, <2>2
    <3>2. h \in ChainHashes(C)
      BY <1>7, <2>2 DEF AfterParts, Holds
    <3>3. <<Prev(c, k + 1), h>> \in Proper(t)
      BY <1>1, <1>2, <1>4, <3>2, KnownHangsThere DEF Holds
    <3> QED
      BY <1>11, <2>1, <3>1, <3>3
  <2>3. CASE h \notin DOMAIN a.trie.blocks
    <3>1. a.trie.nodes[a.node].hash = Prev(c, k + 1)
      <4>1. CASE k >= 1
        <5>1. a.trie.nodes[a.node].hash = c[k]
          BY <4>1 DEF AfterParts
        <5>2. k + 1 # 1 /\ k + 1 - 1 = k
          BY <4>1
        <5>3. Prev(c, k + 1) = c[k]
          BY <5>2 DEF Prev
        <5> QED
          BY <5>1, <5>3
      <4>2. CASE k = 0
        <5>1. a.trie = t /\ a.node = IF Known(t, Last(c)) THEN t.blocks[Last(c)] ELSE Root
          BY <4>2 DEF AfterParts
        <5>2. ~Known(t, Last(c))
          <6> SUFFICES ASSUME Last(c) \in ChainHashes(C) PROVE FALSE
            BY DEF Known, Holds
          <6>1. PICK d \in C : TRUE
            BY DEF ChainHashes
          <6>2. d \in Chains /\ Head(d) = Head(c)
            BY DEF SameHead
          <6>3. Head(d) = d[1] /\ Len(d) \in Nat /\ Len(d) >= 1 /\ Head(c) = c[1]
            BY <6>2, ChainsAre
          <6>4. 1 \in 1..Len(d) /\ c[1] = d[1]
            BY <6>2, <6>3
          <6>5. c[1] \in ChainHashes(C)
            BY <6>4 DEF ChainHashes
          <6>6. h = c[1]
            BY <1>2, <4>2
          <6> QED
            BY <2>3, <5>1, <6>5, <6>6 DEF Holds
        <5>3. a.trie.nodes[a.node].hash = "root"
          BY <5>1, <5>2 DEF TreeTrie, Trie, Objects
        <5> QED
          BY <4>2, <5>3 DEF Prev
      <4> QED
        BY <4>1, <4>2
    <3>2. x = Prev(c, k + 1)
      BY <1>8, <2>3, <3>1
    <3>3. x # h
      <4>1. CASE k = 0
        BY <1>1, <1>2, <1>4, <3>2, <4>1, ChainsAre DEF Prev
      <4>2. CASE k # 0
        <5>1. k + 1 # 1 /\ k + 1 - 1 = k /\ k \in 1..k
          BY <4>2
        <5>2. Prev(c, k + 1) = c[k]
          BY <5>1 DEF Prev
        <5> QED
          BY <1>7, <3>2, <5>1, <5>2
      <4> QED
        BY <4>1, <4>2
    <3> QED
      BY <1>10, <1>11, <2>1, <3>2, <3>3
  <2> QED
    BY <2>2, <2>3
<1>13. DOMAIN b.trie.blocks = DOMAIN t.blocks \cup {c[j] : j \in 1..(k + 1)}
  <2>1. 1..(k + 1) = 1..k \cup {k + 1}
    OBVIOUS
  <2>2. {c[j] : j \in 1..(k + 1)} = {c[j] : j \in 1..k} \cup {h}
    BY <1>2, <2>1
  <2>3. DOMAIN b.trie.blocks = DOMAIN a.trie.blocks \cup {h}
    BY <1>6 DEF PartDone
  <2>4. DOMAIN a.trie.blocks = DOMAIN t.blocks \cup {c[j] : j \in 1..k}
    BY DEF AfterParts
  <2> QED
    BY <2>2, <2>3, <2>4
<1>14. LabelEdges(b.trie) = LabelEdges(t)
  BY <1>6 DEF PartDone, AfterParts
<1>15. b.trie.nodes[b.node].hash = c[k + 1]
  BY <1>2, <1>6 DEF PartDone
<1>16. k + 1 # 0
  OBVIOUS
<1>17. AfterParts(b, t, c, k + 1)
  BY <1>12, <1>13, <1>14, <1>15, <1>16 DEF AfterParts
<1> QED
  BY <1>2, <1>3, <1>17

\* insert keeps the objects a tree, whatever the chains.
LEMMA InsertTree ==
  ASSUME NEW t, TreeTrie(t, ChainHashes(Chains)), NEW c \in Chains, NEW l \in Nat
  PROVE  TreeTrie(insert(t, c, l), ChainHashes(Chains))
<1>1. c \in Seq(ChainHashes(Chains)) /\ c # <<>> /\ l \in Nat \cup Peer /\ Len(c) \in Nat
  BY ChainsAre
<1>2. PICK a \in [0..Len(c) -> Reached(ChainHashes(Chains))] : Runs(t, c, l, a, insert(t, c, l))
  BY <1>1, InsertRuns
<1>3. a[Len(c)] \in Reached(ChainHashes(Chains))
  BY <1>1
<1>4. PICK b : b = a[Len(c)]
  OBVIOUS
<1>5. TreeTrie(b.trie, ChainHashes(Chains)) /\ b.node \in 1..Size(b.trie)
  BY <1>3, <1>4 DEF Reached
<1>6. insert(t, c, l) = WithLabel(b.trie, b.node, l)
  BY <1>2, <1>4 DEF Runs
<1> QED
  BY <1>1, <1>5, <1>6, LabelIs

\* A chain is put into the trie of the chains before it.
LEMMA ChainInserted ==
  ASSUME NEW C \in SUBSET Chains, NEW c \in Chains, SameHead(C \cup {c}),
         NEW t, TreeTrie(t, ChainHashes(Chains)), Holds(t, C), NEW l \in Nat
  PROVE  LET u == insert(t, c, l)
         IN  Holds(u, C \cup {c}) /\ LabelEdges(u) = LabelEdges(t) \cup {<<l, Last(c)>>}
<1>1. c \in Seq(ChainHashes(Chains)) /\ c # <<>> /\ l \in Nat \cup Peer /\ Len(c) \in Nat /\ Len(c) >= 1
      /\ Last(c) = c[Len(c)]
  BY ChainsAre
<1>2. PICK u : u = insert(t, c, l)
  OBVIOUS
<1>3. PICK a \in [0..Len(c) -> Reached(ChainHashes(Chains))] : Runs(t, c, l, a, u)
  BY <1>1, <1>2, InsertRuns
<1>4. PICK n \in Nat : n = Len(c)
  BY <1>1
<1>5. PICK P : P = {k \in Nat : k <= n => AfterParts(a[k], t, c, k)}
  OBVIOUS
<1>6. 0 \in P
  <2>1. a[0].trie = t /\ a[0].node = IF Known(t, Last(c)) THEN t.blocks[Last(c)] ELSE Root
    BY <1>3 DEF Runs
  <2>2. {c[j] : j \in 1..0} = {} /\ LinksTo(c, 0) = {}
    BY DEF LinksTo
  <2>3. AfterParts(a[0], t, c, 0)
    BY <2>1, <2>2 DEF AfterParts
  <2> QED
    BY <1>5, <2>3
<1>7. ASSUME NEW k \in Nat, k \in P PROVE k + 1 \in P
  <2> SUFFICES ASSUME k + 1 <= n PROVE AfterParts(a[k + 1], t, c, k + 1)
    BY <1>5
  <2>1. AfterParts(a[k], t, c, k)
    BY <1>5, <1>7
  <2>2. k \in 0..Len(c) /\ k + 1 \in 1..Len(c) /\ k + 1 - 1 = k /\ k + 1 <= Len(c)
    BY <1>4
  <2>3. a[k] \in Reached(ChainHashes(Chains))
    BY <2>2
  <2>4. a[k + 1] = InsertPart(a[k], c[k + 1])
    BY <1>3, <2>2 DEF Runs
  <2> QED
    BY <2>1, <2>2, <2>3, <2>4, PartFollows
<1>8. AfterParts(a[n], t, c, n)
  <2>1. Nat \subseteq P
    BY <1>6, <1>7, NatAll
  <2> QED
    BY <1>5, <2>1
<1>9. PICK b : b = a[n]
  OBVIOUS
<1>10. b \in Reached(ChainHashes(Chains))
  BY <1>4, <1>9
<1>11. TreeTrie(b.trie, ChainHashes(Chains)) /\ b.node \in 1..Size(b.trie)
  BY <1>10 DEF Reached
<1>12. u = WithLabel(b.trie, b.node, l)
  BY <1>3, <1>4, <1>9 DEF Runs
<1>13. /\ Edges(u) = Edges(b.trie)
       /\ LabelEdges(u) = LabelEdges(b.trie) \cup {<<l, b.trie.nodes[b.node].hash>>}
       /\ u.blocks = b.trie.blocks
  <2>1. PICK v, m : v = b.trie /\ m = b.node
    OBVIOUS
  <2>2. TreeTrie(v, ChainHashes(Chains)) /\ m \in 1..Size(v) /\ u = WithLabel(v, m, l)
    BY <1>11, <1>12, <2>1
  <2>3. /\ Edges(u) = Edges(v)
        /\ LabelEdges(u) = LabelEdges(v) \cup {<<l, v.nodes[m].hash>>}
        /\ u.blocks = v.blocks
    BY <1>1, <2>2, LabelIs
  <2> QED
    BY <2>1, <2>3
<1>14. /\ DOMAIN b.trie.blocks = DOMAIN t.blocks \cup {c[j] : j \in 1..n}
       /\ LabelEdges(b.trie) = LabelEdges(t)
       /\ Proper(b.trie) = Proper(t) \cup LinksTo(c, n)
       /\ b.trie.nodes[b.node].hash = c[n]
  BY <1>1, <1>4, <1>8, <1>9 DEF AfterParts
<1>15. DOMAIN u.blocks = ChainHashes(C \cup {c})
  <2>1. ChainHashes(C \cup {c}) = ChainHashes(C) \cup {c[j] : j \in 1..n}
    BY <1>4 DEF ChainHashes
  <2> QED
    BY <1>13, <1>14, <2>1 DEF Holds
<1>16. Proper(u) = UNION {LinksTo(d, Len(d)) : d \in C \cup {c}}
  <2>1. Proper(u) = Proper(b.trie)
    BY <1>13 DEF Proper
  <2>2. UNION {LinksTo(d, Len(d)) : d \in C \cup {c}} = UNION {LinksTo(d, Len(d)) : d \in C} \cup LinksTo(c, n)
    BY <1>4
  <2> QED
    BY <1>14, <2>1, <2>2 DEF Holds
<1>17. LabelEdges(u) = LabelEdges(t) \cup {<<l, Last(c)>>}
  BY <1>1, <1>4, <1>13, <1>14
<1>18. Holds(u, C \cup {c})
  BY <1>15, <1>16 DEF Holds
<1> HIDE DEF Holds, LabelEdges
<1> QED
  BY <1>2, <1>17, <1>18, Zenon

-----------------------------------------------------------------------------
(* The comparison, step by step. *)

\* The chains in the trie.
Answers == {answer[i] : i \in Inserted}

\* The trie is that of the chains, if they begin at the same block.
TrieOfChains ==
  SameHead(Answers) =>
    Holds(trie, Answers) /\ LabelEdges(trie) = {<<i, Last(answer[i])>> : i \in Inserted}

\* A port-forward whose call is under way, or was left with an exception.
Carried(i) ==
  pod[i] \in {"query", "close"} \/ (pod[i] = "done" /\ answer[i] = NameError)

\* What holds between the steps: the answers that were used do not change.
CompareInv ==
  /\ pod \in [PodIds -> {"queued", "query", "close", "retry", "done"}]
  /\ answer \in [PodIds -> Chains \cup {NoAnswer, Timeout, Refused, NameError}]
  /\ forwards \subseteq PodIds /\ ForwardsAreClosed
  /\ inserted \in 0..MaxPods /\ \A i \in 1..inserted : pod[i] = "done"
  /\ TreeTrie(trie, ChainHashes(Chains)) /\ TrieOfChains

\* It holds at the start.
LEMMA CompareInitInv == CompareInit => CompareInv
<1> SUFFICES ASSUME CompareInit PROVE CompareInv
  OBVIOUS
<1>1. /\ pod = [i \in PodIds |-> "queued"] /\ answer = [i \in PodIds |-> NoAnswer]
      /\ forwards = {} /\ trie = EmptyTrie /\ inserted = 0
  BY DEF CompareInit
<1>2. Inserted = {} /\ Answers = {}
  BY <1>1 DEF Inserted, Answers
<1>3. /\ TreeTrie(trie, ChainHashes(Chains))
      /\ DOMAIN trie.blocks = {} /\ Edges(trie) = {} /\ LabelEdges(trie) = {}
  BY <1>1, EmptyTrieIs
<1>4. Holds(trie, {})
  <2>1. ChainHashes({}) = {} /\ Proper(trie) = {}
    BY <1>3 DEF ChainHashes, Proper
  <2>2. UNION {LinksTo(c, Len(c)) : c \in {}} = {}
    OBVIOUS
  <2> QED
    BY <1>3, <2>1, <2>2 DEF Holds
<1>5. TrieOfChains
  <2>1. {<<i, Last(answer[i])>> : i \in Inserted} = {}
    BY <1>2
  <2> QED
    BY <1>2, <1>3, <1>4, <2>1 DEF TrieOfChains
<1>6. ForwardsAreClosed
  BY <1>1 DEF ForwardsAreClosed
<1>7. pod \in [PodIds -> {"queued", "query", "close", "retry", "done"}]
  BY <1>1
<1>8. answer \in [PodIds -> Chains \cup {NoAnswer, Timeout, Refused, NameError}]
  <2>1. NoAnswer \in Chains \cup {NoAnswer, Timeout, Refused, NameError}
    OBVIOUS
  <2> QED
    BY <1>1, <2>1
<1>9. inserted \in 0..MaxPods /\ \A i \in 1..inserted : pod[i] = "done"
  BY <1>1, CompareBestTipAssumption
<1> QED
  BY <1>1, <1>3, <1>5, <1>6, <1>7, <1>8, <1>9 DEF CompareInv

\* The trie stays right while no answer that was used changes.
LEMMA TrieStays ==
  ASSUME TrieOfChains, trie' = trie, inserted' = inserted, \A i \in 1..inserted : answer'[i] = answer[i]
  PROVE  TrieOfChains'
<1>1. Inserted' = Inserted
  BY DEF Inserted
<1>2. \A i \in Inserted : answer'[i] = answer[i]
  BY DEF Inserted
<1>3. Answers' = Answers
  BY <1>1, <1>2 DEF Answers
<1>4. {<<i, Last(answer'[i])>> : i \in Inserted'} = {<<i, Last(answer[i])>> : i \in Inserted}
  BY <1>1, <1>2
<1>5. SameHead(Answers') =>
        Holds(trie', Answers') /\ LabelEdges(trie') = {<<i, Last(answer'[i])>> : i \in Inserted'}
  BY <1>3, <1>4 DEF TrieOfChains
<1> QED
  BY <1>5 DEF TrieOfChains, SameHead, Holds, LabelEdges, Proper, Edges

\* A thread's step touches its own pod only, which is not done before it.
LEMMA ThreadStays ==
  ASSUME CompareInv, NEW i \in PodIds, pod[i] # "done",
         NEW p \in {"queued", "query", "close", "retry", "done"}, pod' = [pod EXCEPT ![i] = p],
         NEW x \in Chains \cup {NoAnswer, Timeout, Refused, NameError},
         answer' = [answer EXCEPT ![i] = x],
         trie' = trie, inserted' = inserted,
         forwards' \subseteq PodIds, \A j \in forwards' : Carried(j)'
  PROVE  CompareInv'
<1>1. pod' \in [PodIds -> {"queued", "query", "close", "retry", "done"}]
  BY DEF CompareInv
<1>2. answer' \in [PodIds -> Chains \cup {NoAnswer, Timeout, Refused, NameError}]
  BY DEF CompareInv
<1>3. \A j \in 1..inserted : j \in PodIds /\ j # i /\ answer'[j] = answer[j] /\ pod'[j] = pod[j]
  <2> SUFFICES ASSUME NEW j \in 1..inserted PROVE j \in PodIds /\ j # i /\ answer'[j] = answer[j] /\ pod'[j] = pod[j]
    OBVIOUS
  <2>1. pod[j] = "done"
    BY DEF CompareInv
  <2>2. j \in PodIds
    BY CompareBestTipAssumption DEF CompareInv, PodIds
  <2>3. j # i
    BY <2>1
  <2>4. pod \in [PodIds -> {"queued", "query", "close", "retry", "done"}] /\ DOMAIN answer = PodIds
    BY DEF CompareInv
  <2> QED
    BY <2>2, <2>3, <2>4
<1>4. TrieOfChains'
  BY <1>3, TrieStays DEF CompareInv
<1>5. inserted' \in 0..MaxPods /\ \A j \in 1..inserted' : pod'[j] = "done"
  BY <1>3 DEF CompareInv
<1>6. TreeTrie(trie, ChainHashes(Chains))'
  <2>1. TreeTrie(trie', ChainHashes(Chains))
    BY DEF CompareInv
  <2> QED
    BY <2>1 DEF TreeTrie, Trie, Objects, NamesFit, AllNamed, UniqueParents, Connected, HoldsChildren, Size
<1>7. ForwardsAreClosed'
  BY DEF ForwardsAreClosed, Carried
<1> QED
  BY <1>1, <1>2, <1>4, <1>5, <1>6, <1>7 DEF CompareInv

\* A result that is used.
LEMMA ResultInserted ==
  ASSUME CompareInv, insert_result
  PROVE  CompareInv'
<1>1. PICK i \in Nat : i = inserted + 1
  BY DEF CompareInv
<1>2. /\ inserted < MaxPods /\ pod[i] = "done" /\ inserted' = i
      /\ trie' = IF answer[i] \in Chains THEN insert(trie, answer[i], i) ELSE trie
      /\ pod' = pod /\ answer' = answer /\ forwards' = forwards
  BY <1>1 DEF insert_result
<1>3. /\ inserted \in 0..MaxPods /\ MaxPods \in Nat /\ \A j \in 1..inserted : pod[j] = "done"
      /\ TreeTrie(trie, ChainHashes(Chains)) /\ TrieOfChains
  BY CompareBestTipAssumption DEF CompareInv
<1>4. 1..i = 1..inserted \cup {i} /\ i \in 0..MaxPods
  BY <1>1, <1>2, <1>3
<1>5. inserted' \in 0..MaxPods /\ \A j \in 1..inserted' : pod'[j] = "done"
  BY <1>2, <1>3, <1>4
<1>6. TreeTrie(trie', ChainHashes(Chains)) /\ TrieOfChains'
  <2>1. CASE answer[i] \in Chains
    <3>1. trie' = insert(trie, answer[i], i)
      BY <1>2, <2>1
    <3>2. TreeTrie(trie', ChainHashes(Chains))
      BY <1>3, <2>1, <3>1, InsertTree
    <3>3. Inserted' = Inserted \cup {i}
      BY <1>2, <1>4, <2>1 DEF Inserted
    <3>4. Answers' = Answers \cup {answer[i]}
      BY <1>2, <3>3 DEF Answers
    <3>5. Answers \in SUBSET Chains
      BY DEF Answers, Inserted
    <3>6. ASSUME SameHead(Answers')
          PROVE  /\ Holds(trie', Answers')
                 /\ LabelEdges(trie') = {<<j, Last(answer'[j])>> : j \in Inserted'}
      <4>1. SameHead(Answers \cup {answer[i]})
        BY <3>4, <3>6
      <4>2. SameHead(Answers)
        BY <4>1 DEF SameHead
      <4>3. Holds(trie, Answers) /\ LabelEdges(trie) = {<<j, Last(answer[j])>> : j \in Inserted}
        BY <1>3, <4>2 DEF TrieOfChains
      <4>4. PICK C : C = Answers
        OBVIOUS
      <4>5. PICK c : c = answer[i]
        OBVIOUS
      <4>6. PICK t : t = trie
        OBVIOUS
      <4>7. /\ C \in SUBSET Chains /\ c \in Chains /\ SameHead(C \cup {c})
            /\ TreeTrie(t, ChainHashes(Chains)) /\ Holds(t, C)
        BY <1>3, <2>1, <3>5, <4>1, <4>3, <4>4, <4>5, <4>6
      <4>8. Holds(insert(t, c, i), C \cup {c}) /\ LabelEdges(insert(t, c, i)) = LabelEdges(t) \cup {<<i, Last(c)>>}
        <5>1. i \in Nat
          BY <1>1, <1>3
        <5>2. PICK u : u = insert(t, c, i)
          OBVIOUS
        <5>3. Holds(u, C \cup {c}) /\ LabelEdges(u) = LabelEdges(t) \cup {<<i, Last(c)>>}
          BY <4>7, <5>1, <5>2, ChainInserted
        <5> QED
          BY <5>2, <5>3, Zenon
      <4>9. Holds(trie', Answers')
        BY <3>1, <3>4, <4>4, <4>5, <4>6, <4>8
      <4>10. LabelEdges(trie') = {<<j, Last(answer[j])>> : j \in Inserted} \cup {<<i, Last(answer[i])>>}
        BY <3>1, <4>3, <4>5, <4>6, <4>8
      <4>11. {<<j, Last(answer'[j])>> : j \in Inserted'}
               = {<<j, Last(answer[j])>> : j \in Inserted} \cup {<<i, Last(answer[i])>>}
        BY <1>2, <3>3
      <4> QED
        BY <4>9, <4>10, <4>11
    <3>7. TrieOfChains'
      BY <3>6 DEF TrieOfChains, SameHead, Holds, LabelEdges, Proper, Edges
    <3> QED
      BY <3>2, <3>7
  <2>2. CASE answer[i] \notin Chains
    <3>1. trie' = trie
      BY <1>2, <2>2
    <3>2. Inserted' = Inserted /\ answer' = answer
      BY <1>2, <1>4, <2>2 DEF Inserted
    <3>3. Answers' = Answers
      BY <3>2 DEF Answers
    <3>4. {<<j, Last(answer'[j])>> : j \in Inserted'} = {<<j, Last(answer[j])>> : j \in Inserted}
      BY <3>2
    <3>5. SameHead(Answers') =>
            Holds(trie', Answers') /\ LabelEdges(trie') = {<<j, Last(answer'[j])>> : j \in Inserted'}
      BY <1>3, <3>1, <3>3, <3>4 DEF TrieOfChains
    <3>6. TrieOfChains'
      BY <3>5 DEF TrieOfChains, SameHead, Holds, LabelEdges, Proper, Edges
    <3>7. TreeTrie(trie', ChainHashes(Chains))
      BY <1>3, <3>1
    <3> QED
      BY <3>6, <3>7
  <2> QED
    BY <2>1, <2>2
<1>7. TreeTrie(trie, ChainHashes(Chains))'
  BY <1>6 DEF TreeTrie, Trie, Objects, NamesFit, AllNamed, UniqueParents, Connected, HoldsChildren, Size
<1>8. forwards' \subseteq PodIds /\ ForwardsAreClosed'
  BY <1>2 DEF CompareInv, ForwardsAreClosed
<1>9. /\ pod' \in [PodIds -> {"queued", "query", "close", "retry", "done"}]
      /\ answer' \in [PodIds -> Chains \cup {NoAnswer, Timeout, Refused, NameError}]
  BY <1>2 DEF CompareInv
<1> QED
  BY <1>5, <1>6, <1>7, <1>8, <1>9 DEF CompareInv

\* A step that changes no more than the port-forwards.
LEMMA ForwardsStay ==
  ASSUME CompareInv, pod' = pod, answer' = answer, trie' = trie, inserted' = inserted,
         forwards' \subseteq PodIds, \A j \in forwards' : Carried(j)'
  PROVE  CompareInv'
<1>1. TrieOfChains'
  BY TrieStays DEF CompareInv
<1>2. TreeTrie(trie, ChainHashes(Chains))'
  <2>1. TreeTrie(trie', ChainHashes(Chains))
    BY DEF CompareInv
  <2> QED
    BY <2>1 DEF TreeTrie, Trie, Objects, NamesFit, AllNamed, UniqueParents, Connected, HoldsChildren, Size
<1>3. ForwardsAreClosed'
  BY DEF ForwardsAreClosed, Carried
<1> QED
  BY <1>1, <1>2, <1>3 DEF CompareInv

\* Every step keeps the invariant.
LEMMA CompareStep ==
  CompareInv /\ [CompareNext]_compareVars => CompareInv'
<1> SUFFICES ASSUME CompareInv, [CompareNext]_compareVars PROVE CompareInv'
  OBVIOUS
<1>0. /\ pod \in [PodIds -> {"queued", "query", "close", "retry", "done"}]
      /\ answer \in [PodIds -> Chains \cup {NoAnswer, Timeout, Refused, NameError}]
      /\ forwards \subseteq PodIds /\ \A j \in forwards : Carried(j)
  BY DEF CompareInv, ForwardsAreClosed, Carried
<1>a. PICK A : A = Chains \cup {NoAnswer, Timeout, Refused, NameError}
  OBVIOUS
<1>b. answer \in [PodIds -> A] /\ NameError \in A /\ Chains \cup {NoAnswer, Timeout, Refused} \subseteq A
  BY <1>0, <1>a
<1>1. ASSUME NEW i \in PodIds, process_pod(i) PROVE CompareInv'
  <2>1. PICK p \in {"queued", "query", "close", "retry", "done"} : p = IF kind[i] = "daemon" THEN "retry" ELSE "done"
    OBVIOUS
  <2>2. /\ pod[i] = "queued" /\ pod' = [pod EXCEPT ![i] = p] /\ answer' = answer /\ forwards' = forwards
        /\ trie' = trie /\ inserted' = inserted
    BY <1>1, <2>1 DEF process_pod
  <2>3. answer' = [answer EXCEPT ![i] = answer[i]] /\ answer[i] \in A
    BY <1>b, <2>2
  <2>4. \A j \in forwards' : Carried(j)'
    BY <1>0, <2>2 DEF Carried
  <2> QED
    BY <1>0, <1>a, <2>2, <2>3, <2>4, ThreadStays
<1>2. ASSUME NEW i \in PodIds, doit(i) PROVE CompareInv'
  <2>1. /\ pod[i] = "retry" /\ pod' = [pod EXCEPT ![i] = "query"] /\ answer' = answer /\ forwards' = forwards \cup {i}
        /\ trie' = trie /\ inserted' = inserted
    BY <1>2 DEF doit
  <2>2. answer' = [answer EXCEPT ![i] = answer[i]] /\ answer[i] \in A
    BY <1>b, <2>1
  <2>3. forwards' \subseteq PodIds /\ \A j \in forwards' : Carried(j)'
    BY <1>0, <2>1 DEF Carried
  <2> QED
    BY <1>a, <2>1, <2>2, <2>3, ThreadStays
<1>3. ASSUME NEW i \in PodIds, get_best_chain(i) PROVE CompareInv'
  <2>1. PICK x \in Chains \cup {NoAnswer, Timeout, Refused} :
          /\ answer' = [answer EXCEPT ![i] = x]
          /\ pod' = [pod EXCEPT ![i] =
                    IF x \in {Timeout, Refused} /\ tries[i].get_best_chain + 1 < QueryTries
                    THEN "query" ELSE "close"]
    BY <1>3 DEF get_best_chain
  <2>2. pod[i] = "query" /\ forwards' = forwards /\ trie' = trie /\ inserted' = inserted
    BY <1>3 DEF get_best_chain
  <2>3. PICK p \in {"query", "close"} : pod' = [pod EXCEPT ![i] = p]
    BY <2>1
  <2>4. \A j \in forwards' : Carried(j)'
    BY <1>0, <2>1, <2>2, <2>3 DEF Carried
  <2>5. p \in {"queued", "query", "close", "retry", "done"} /\ x \in A
    BY <1>b, <2>1, <2>3
  <2> QED
    BY <1>0, <1>a, <2>1, <2>2, <2>3, <2>4, <2>5, ThreadStays
<1>4. ASSUME NEW i \in PodIds, terminate_process(i) PROVE CompareInv'
  <2>1. PICK p \in {"queued", "query", "close", "retry", "done"} : p = AfterDoit(i)
    BY DEF AfterDoit
  <2>2. /\ pod[i] = "close" /\ pod' = [pod EXCEPT ![i] = p] /\ answer' = answer /\ forwards' = forwards \ {i}
        /\ trie' = trie /\ inserted' = inserted
    BY <1>4, <2>1 DEF terminate_process
  <2>3. answer' = [answer EXCEPT ![i] = answer[i]] /\ answer[i] \in A
    BY <1>b, <2>2
  <2>4. forwards' \subseteq PodIds /\ \A j \in forwards' : Carried(j)'
    BY <1>0, <2>2 DEF Carried
  <2> QED
    BY <1>a, <2>2, <2>3, <2>4, ThreadStays
<1>5. ASSUME NEW i \in PodIds, terminate_process_late(i) PROVE CompareInv'
  <2>1. PICK x : x = NameError
    OBVIOUS
  <2>2. /\ pod[i] = "close" /\ pod' = [pod EXCEPT ![i] = "done"] /\ answer' = [answer EXCEPT ![i] = x]
        /\ forwards' = forwards /\ trie' = trie /\ inserted' = inserted
    BY <1>5, <2>1 DEF terminate_process_late
  <2>3. forwards' \subseteq PodIds /\ \A j \in forwards' : Carried(j)'
    BY <1>0, <1>b, <2>1, <2>2 DEF Carried
  <2>4. x \in A
    BY <1>b, <2>1
  <2> QED
    BY <1>a, <2>2, <2>3, <2>4, ThreadStays
<1>5a. ASSUME NEW i \in PodIds, ForwardEnds(i) PROVE CompareInv'
  <2>1. /\ forwards' = forwards \ {i} /\ pod' = pod /\ answer' = answer
        /\ trie' = trie /\ inserted' = inserted
    BY <1>5a DEF ForwardEnds
  <2>2. forwards' \subseteq PodIds /\ \A j \in forwards' : Carried(j)'
    BY <1>0, <2>1 DEF Carried
  <2> QED
    BY <2>1, <2>2, ForwardsStay
<1>6. CASE insert_result
  BY <1>6, ResultInserted
<1>7. ASSUME UNCHANGED <<pod, answer, forwards, trie, inserted>> PROVE CompareInv'
  <2>1. pod' = pod /\ answer' = answer /\ forwards' = forwards /\ trie' = trie /\ inserted' = inserted
    BY <1>7
  <2>2. forwards' \subseteq PodIds /\ \A j \in forwards' : Carried(j)'
    BY <1>0, <2>1 DEF Carried
  <2> QED
    BY <2>1, <2>2, ForwardsStay
<1>8. CASE result_raises
  BY <1>7, <1>8 DEF result_raises
<1>9. CASE UNCHANGED compareVars
  BY <1>7, <1>9 DEF compareVars
<1> QED
  BY <1>1, <1>2, <1>3, <1>4, <1>5, <1>5a, <1>6, <1>8, <1>9 DEF CompareNext, Thread

\* The graph is that of the answers, and no call leaves a port-forward unnoticed.
LEMMA CompareInvIsRight == CompareInv => GraphIsOfTheChains /\ ForwardsAreClosed
<1> SUFFICES ASSUME CompareInv PROVE GraphIsOfTheChains
  BY DEF CompareInv
<1> SUFFICES ASSUME \A i, j \in Inserted : Head(answer[i]) = Head(answer[j])
             PROVE  LET g == render_fork(trie)
                    IN  /\ g.edges \ SelfLoops(g.edges)
                             = UNION {Links(<<"root">> \o answer[i]) : i \in Inserted}
                        /\ g.labels = {<<i, Last(answer[i])>> : i \in Inserted}
  BY DEF GraphIsOfTheChains
<1>1. SameHead(Answers)
  BY DEF SameHead, Answers
<1>2. Holds(trie, Answers) /\ LabelEdges(trie) = {<<i, Last(answer[i])>> : i \in Inserted}
  BY <1>1 DEF CompareInv, TrieOfChains
<1>3. \A i \in Inserted : Links(<<"root">> \o answer[i]) = LinksTo(answer[i], Len(answer[i]))
  <2> SUFFICES ASSUME NEW i \in Inserted PROVE Links(<<"root">> \o answer[i]) = LinksTo(answer[i], Len(answer[i]))
    OBVIOUS
  <2>1. PICK c \in Chains : c = answer[i]
    BY DEF Inserted
  <2>2. Links(<<"root">> \o c) = LinksTo(c, Len(c))
    BY LinksAre
  <2> QED
    BY <2>1, <2>2
<1>4. UNION {Links(<<"root">> \o answer[i]) : i \in Inserted} = UNION {LinksTo(c, Len(c)) : c \in Answers}
  BY <1>3 DEF Answers
<1>5. Proper(trie) = UNION {Links(<<"root">> \o answer[i]) : i \in Inserted}
  BY <1>2, <1>4 DEF Holds
<1> QED
  BY <1>2, <1>5 DEF Proper, Edges, LabelEdges

\* Whatever the pods answer, in whatever order their threads run and however
\* often they are asked, the graph is that of the chains that begin at the same
\* block, with a label for each pod at its tip, and a port-forward outlives the
\* call that started it only if that call ends with an exception.
THEOREM TipDrawingsAreRight == CompareSpec => [](GraphIsOfTheChains /\ ForwardsAreClosed)
<1>1. CompareSpec => []CompareInv
  BY CompareInitInv, CompareStep, PTL DEF CompareSpec
<1> QED
  BY <1>1, CompareInvIsRight, PTL

\* The drawings of best tips and of logs match their inputs.
THEOREM DrawingsAreRight == DrawingsSpec => []DrawingsMatchInputs
<1>1. GraphIsOfTheChains /\ ForwardsAreClosed /\ VisualizerIsRight => DrawingsMatchInputs
  BY DEF DrawingsMatchInputs, VisualizerIsRight
<1> QED
  BY <1>1, TipDrawingsAreRight, LogDrawingsAreRight, PTL DEF DrawingsSpec
=============================================================================
