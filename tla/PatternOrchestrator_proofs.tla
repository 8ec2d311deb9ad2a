--------------------- MODULE PatternOrchestrator_proofs ---------------------
(***************************************************************************)
(* Proofs about what an orchestrator is made of (PatternComposition), for  *)
(* any slugs, dependencies, categories and conflicts, and then about its   *)
(* runs (PatternOrchestrator), for any plugins with any hooks, any number  *)
(* of iterations and any place a run starts at.                            *)
(***************************************************************************)
EXTENDS PatternOrchestrator, PatternComposition, TLAPS

-----------------------------------------------------------------------------
(* The inductive invariant of the composition.                             *)

\* The calls in progress and what each has seen of its dependencies.
Calling == {stack[i] : i \in 1..Len(stack)}
Seen(s) == {graph[s][k] : k \in 1..next[s] - 1}

OneCallEach == \A i, j \in 1..Len(stack) : stack[i] = stack[j] => i = j

\* A call in progress was visited, or is grey.
Nested ==
  /\ OneCallEach
  /\ stage \notin {"resolve", "make", "failed", "built"} =>
        \A s \in Slugs : s \notin Calling => next[s] = 1
  /\ stage \notin {"check", "search", "climb", "collect", "lookup"} => stack = <<>>
  /\ stage \in {"check", "collect", "lookup"} => Calling \subseteq visited
  /\ stage \in {"created", "search", "climb", "validated"} => visited = {}
  /\ stage \in {"search", "climb"} => Calling = {s \in Selected : colour[s] = "grey"}
  /\ stage \in {"created", "check"} =>
        \A s \in Selected : colour[s] = "white" /\ parent[s] = None
  /\ stage = "climb" => cycle # <<>>

Met(s, d) == d \in Selected \/ SameCategory(s, d)
AllMet == \A s \in Selected : \A d \in ToSet(graph[s]) : Met(s, d)

\* What the absence of errors means, so far and when a configuration is valid.
Checking ==
  /\ stage \in {"created", "check", "search", "climb", "lookup", "returned"} => ~valid
  /\ stage \in {"check", "search", "climb"} =>
        input.slugs # <<>> /\ Selected \subseteq input.registry
  /\ stage = "check" /\ ~unmet =>
        /\ \A s \in Selected \ todo : s \in Calling \/ \A d \in ToSet(graph[s]) : Met(s, d)
        /\ \A s \in Calling : \A d \in Seen(s) : Met(s, d)
  /\ stage \in {"search", "climb"} /\ ~unmet => AllMet
  /\ valid /\ input.slugs # <<>> =>
        ~detect_conflicts /\ Selected \subseteq input.registry /\ AllMet

\* The stack is a path, what its calls have seen is black or the next call,
\* and the black patterns, closed under dependency, have no cycle.
Black == {s \in Selected : colour[s] = "black"}
Settled == \A S \in SUBSET Black : S # {} => \E s \in S : S \cap ToSet(graph[s]) = {}
Searching ==
  stage \in {"search", "climb"} =>
     /\ \A s \in Selected : colour[s] = "white" => parent[s] = None
     /\ stack # <<>> => parent[stack[1]] = None
     /\ \A i \in 1..Len(stack) - 1 :
           parent[stack[i + 1]] = stack[i] /\ stack[i + 1] \in ToSet(graph[stack[i]])
     /\ \A i \in 1..Len(stack) : \A d \in Seen(stack[i]) \cap Selected :
           d \in Black \/ (i < Len(stack) /\ d = stack[i + 1])
     /\ \A s \in Black : ToSet(graph[s]) \cap Selected \subseteq Black
     /\ Settled

\* The cycle so far is the top of the stack, read downwards.
Climbing ==
  stage = "climb" =>
     /\ Len(cycle) \in 2..Len(stack) + 1
     /\ \A j \in 2..Len(cycle) : cycle[j] = stack[Len(stack) + 2 - j]
     /\ above = IF Len(cycle) = Len(stack) + 1 THEN None
                ELSE stack[Len(stack) + 1 - Len(cycle)]
     /\ cycle[1] \in Calling /\ cycle[1] \in ToSet(graph[stack[Len(stack)]])
     /\ \A j \in 3..Len(cycle) : cycle[j] # cycle[1]

\* What is missing is needed, and what a finished call needs is there or missing.
Held(s, d) == Met(s, d) \/ d \in missing
Lacking == /\ missing \cap Selected = {}
           /\ \A M \in SUBSET Slugs : Needed(M) \subseteq M => missing \subseteq M
Walked ==
  /\ missing \subseteq visited /\ visited \subseteq Selected \cup missing
  /\ \A s \in Calling : Selected \subseteq scope[s] /\ scope[s] \subseteq Selected \cup missing
  /\ \A s \in Calling : \A d \in Seen(s) : Held(s, d)
  /\ \A s \in visited \ Calling : \A d \in ToSet(graph[s]) : Held(s, d)
Gathering ==
  /\ stage \in {"created", "check", "search", "climb", "validated"} => missing = {}
  /\ Lacking
  /\ Collecting => Walked
  /\ stage \in {"resolve", "returned", "make", "built", "failed"} =>
        \A s \in Selected \cup missing : \A d \in ToSet(graph[s]) : Held(s, d)

\* What was added is alone in its category, and the dependencies gone through
\* are there.
Had(s, d) == d \in There \/ SameCategory(s, d)
Resolving ==
  /\ stage \notin {"resolve", "make", "built", "failed"} =>
        at = 1 /\ added = <<>> /\ plugins = <<>> /\ ~unresolved
  /\ \A d \in ToSet(added) : /\ d \in input.registry
                             /\ \A t \in There : t # d => ~SameCategory(t, d)
  /\ stage = "resolve" =>
        /\ plugins = <<>> /\ at <= Len(Chosen) + 1
        /\ \A s \in Slugs : at > Len(Chosen) \/ s # Chosen[at] => next[s] = 1
        /\ ~unresolved => \A i \in 1..Len(Chosen) :
              /\ i < at => \A d \in ToSet(graph[Chosen[i]]) : Had(Chosen[i], d)
              /\ i = at => \A d \in Seen(Chosen[i]) : Had(Chosen[i], d)
  /\ stage \in {"make", "built"} =>
        \A s \in Selected : \A d \in ToSet(graph[s]) : Had(s, d)

\* The plugins made are the known ones of the slugs gone through.
Making ==
  /\ stage = "make" =>
        /\ at <= Len(Chosen \o added) + 1
        /\ ToSet(plugins) = {(Chosen \o added)[i] : i \in 1..at - 1} \cap input.registry
  /\ stage = "built" => ToSet(plugins) = There \cap input.registry

\* A valid configuration lacks nothing, so that its plugins are made as listed.
Faithful ==
  valid /\ input.slugs # <<>> =>
     /\ missing = {} /\ added = <<>> /\ ~unresolved /\ stage # "failed"
     /\ stage = "make" => Len(plugins) = at - 1 /\ \A i \in 1..at - 1 : plugins[i] = Chosen[i]
     /\ stage = "built" => plugins = Chosen

CompositionInv ==
  /\ CompositionTypeOK /\ Nested /\ Checking /\ Searching /\ Climbing /\ CycleFound
  /\ Gathering /\ Resolving /\ Making /\ Faithful

-----------------------------------------------------------------------------
(* Types of the composition, and that its steps keep its invariant.        *)

LEMMA ChosenTyped ==
  ASSUME CompositionTypeOK
  PROVE  /\ Chosen \in Seq(Slugs) /\ Len(Chosen) \in Nat \ {0}
         /\ Selected = {Chosen[i] : i \in 1..Len(Chosen)} /\ Selected \subseteq Slugs
<1>1. input.slugs \in Seq(Slugs)
  BY CompositionAssumption DEF CompositionTypeOK
<1>2. Chosen \in Seq(Slugs) /\ Len(Chosen) \in Nat \ {0}
  BY <1>1, CompositionAssumption DEF Chosen
<1>3. Selected = {Chosen[i] : i \in 1..Len(Chosen)}
  BY <1>2 DEF Selected, ToSet
<1> QED BY <1>2, <1>3

LEMMA DepsTyped ==
  ASSUME CompositionTypeOK PROVE \A s \in Slugs : DepsOf(s) \in Seq(Slugs)
BY CompositionAssumption DEF CompositionTypeOK, DepsOf

LEMMA GraphTyped ==
  ASSUME CompositionTypeOK
  PROVE  /\ graph \in [Slugs -> Seq(Slugs)]
         /\ \A s \in Selected : graph[s] = DepsOf(s)
<1>1. CASE graph = dep_graph
  BY <1>1, ChosenTyped, DepsTyped DEF dep_graph
<1>2. CASE graph = AllDeps
  BY <1>2, ChosenTyped, DepsTyped DEF AllDeps
<1> QED BY <1>1, <1>2 DEF CompositionTypeOK

\* The call in progress and the dependency it is at.
LEMMA TopTyped ==
  ASSUME CompositionTypeOK, stack # <<>>
  PROVE  /\ Len(stack) \in Nat \ {0} /\ Top \in Slugs /\ Top = stack[Len(stack)]
         /\ next[Top] \in Nat \ {0}
         /\ AtDep => Dep \in Slugs /\ Dep \in ToSet(graph[Top]) /\ Dep = graph[Top][next[Top]]
<1>1. Len(stack) \in Nat \ {0} /\ Top \in Slugs /\ Top = stack[Len(stack)]
  BY DEF CompositionTypeOK, Top
<1>2. next[Top] \in Nat \ {0}
  BY <1>1 DEF CompositionTypeOK
<1>3. graph[Top] \in Seq(Slugs)
  BY <1>1, GraphTyped
<1>4. AtDep => next[Top] \in 1..Len(graph[Top])
  BY <1>2, <1>3 DEF AtDep
<1>5. AtDep => Dep \in Slugs
  BY <1>3, <1>4 DEF Dep
<1>6. ToSet(graph[Top]) = {graph[Top][k] : k \in 1..Len(graph[Top])}
  BY <1>3 DEF ToSet
<1> QED BY <1>1, <1>2, <1>4, <1>5, <1>6 DEF Dep

\* The input is fixed, and so is what is computed from it.
LEMMA InputFixed ==
  ASSUME UNCHANGED input
  PROVE  /\ Chosen' = Chosen /\ Selected' = Selected /\ dep_graph' = dep_graph
         /\ AllDeps' = AllDeps /\ detect_conflicts' = detect_conflicts
         /\ \A s : DepsOf(s)' = DepsOf(s)
         /\ \A s, t : SameCategory(s, t)' = SameCategory(s, t)
<1>1. Chosen' = Chosen BY DEF Chosen
<1>2. Selected' = Selected BY <1>1 DEF Selected
<1>3. \A s : DepsOf(s)' = DepsOf(s) BY DEF DepsOf
<1>4. \A s, t : SameCategory(s, t)' = SameCategory(s, t) BY DEF SameCategory
<1>5. dep_graph' = dep_graph /\ AllDeps' = AllDeps BY <1>2, <1>3 DEF dep_graph, AllDeps
<1>6. detect_conflicts' = detect_conflicts BY <1>1, <1>2, <1>4 DEF detect_conflicts
<1> QED BY <1>1, <1>2, <1>3, <1>4, <1>5, <1>6

LEMMA TypeInit == CompositionInit => CompositionTypeOK
<1> SUFFICES ASSUME CompositionInit PROVE CompositionTypeOK
  OBVIOUS
<1>1. /\ input.slugs \in SlugLists /\ input.registry \in Registries
      /\ input.deps \in [input.registry -> DepLists]
      /\ input.category \in CategoryMaps /\ input.foes \in Conflicts
  BY DEF CompositionInit
<1>2. stage \in Stages /\ valid \in BOOLEAN /\ graph \in {dep_graph, AllDeps}
  BY DEF CompositionInit, Stages
<1>3. stack \in Seq(Slugs) /\ next \in [Slugs -> Nat \ {0}]
  BY DEF CompositionInit
<1>4. todo \subseteq Selected /\ visited \subseteq Slugs /\ unmet \in BOOLEAN
  BY DEF CompositionInit
<1>5. colour \in [Selected -> {"white", "grey", "black"}]
  BY DEF CompositionInit
<1>6. parent \in [Selected -> Selected \cup {None}]
  BY DEF CompositionInit
<1>7. cycle \in Seq(Slugs) /\ above \in Selected \cup {None}
  BY DEF CompositionInit
<1>8. missing \subseteq Slugs /\ scope \in [Slugs -> SUBSET Slugs]
  BY DEF CompositionInit
<1>9. at \in Nat \ {0}
  BY DEF CompositionInit
<1>11. unresolved \in BOOLEAN
  BY DEF CompositionInit
<1>10. added \in Seq(Slugs) /\ plugins \in Seq(Slugs)
  BY DEF CompositionInit
<1> QED BY <1>1, <1>2, <1>3, <1>4, <1>5, <1>6, <1>7, <1>8, <1>9, <1>10, <1>11
     DEF CompositionTypeOK

\* What a move of the walk does to the calls.
LEMMA MovesTyped ==
  ASSUME CompositionTypeOK
  PROVE  /\ \A s \in Slugs : CallRoot(s) => stack' \in Seq(Slugs) /\ next' = next
         /\ AtDep /\ Skip => stack' \in Seq(Slugs) /\ next' \in [Slugs -> Nat \ {0}]
         /\ \A s \in Slugs : AtDep /\ Call(s) =>
               stack' \in Seq(Slugs) /\ next' \in [Slugs -> Nat \ {0}]
         /\ ReturnFromCall => stack' \in Seq(Slugs) /\ next' \in [Slugs -> Nat \ {0}]
<1>1. stack \in Seq(Slugs) /\ next \in [Slugs -> Nat \ {0}]
  BY DEF CompositionTypeOK
<1>2. AtDep /\ Advance => next' \in [Slugs -> Nat \ {0}]
  <2> SUFFICES ASSUME AtDep, Advance PROVE next' \in [Slugs -> Nat \ {0}]
    OBVIOUS
  <2>1. Top \in Slugs /\ next[Top] \in Nat
    BY TopTyped DEF AtDep
  <2> QED BY <1>1, <2>1 DEF Advance
<1>3. ReturnFromCall => stack' \in Seq(Slugs) /\ next' \in [Slugs -> Nat \ {0}]
  <2> SUFFICES ASSUME ReturnFromCall PROVE stack' \in Seq(Slugs) /\ next' \in [Slugs -> Nat \ {0}]
    OBVIOUS
  <2>1. Top \in Slugs /\ stack # <<>> /\ Len(stack) \in Nat \ {0}
    BY TopTyped DEF ReturnFromCall, LoopDone
  <2>2. stack' \in Seq(Slugs)
    BY <1>1, <2>1 DEF ReturnFromCall, UnwindTo, Front
  <2> QED BY <1>1, <2>1, <2>2 DEF ReturnFromCall, UnwindTo
<1>4. \A s \in Slugs : <<s>> \in Seq(Slugs) /\ Append(stack, s) \in Seq(Slugs)
  BY <1>1
<1>5. \A s \in Slugs : CallRoot(s) => stack' \in Seq(Slugs) /\ next' = next
  BY <1>4 DEF CallRoot
<1>6. AtDep /\ Skip => stack' \in Seq(Slugs) /\ next' \in [Slugs -> Nat \ {0}]
  BY <1>1, <1>2 DEF Skip
<1>7. \A s \in Slugs : AtDep /\ Call(s) =>
         stack' \in Seq(Slugs) /\ next' \in [Slugs -> Nat \ {0}]
  BY <1>2, <1>4 DEF Call
<1> QED BY <1>3, <1>5, <1>6, <1>7

LEMMA ReportTyped ==
  ASSUME CompositionTypeOK, UNCHANGED input, NEW path \in Seq(Slugs), Report(path)
  PROVE  CompositionTypeOK'
<1>1. /\ Selected' = Selected /\ dep_graph' = dep_graph /\ AllDeps' = AllDeps
      /\ Chosen' = Chosen
  BY InputFixed
<1>2. colour' \in [Selected -> {"white", "grey", "black"}]
  BY DEF Report
<1>3. parent' \in [Selected -> Selected \cup {None}]
  BY DEF Report
<1>4. stack' \in Seq(Slugs) /\ next' \in [Slugs -> Nat \ {0}]
  BY DEF Report
<1>5. valid' \in BOOLEAN
  BY DEF Report
<1> QED
  BY <1>1, <1>2, <1>3, <1>4, <1>5
     DEF CompositionTypeOK, Report, Stages, config, lookup, making

LEMMA ReportedTyped ==
  ASSUME CompositionTypeOK, cycle # <<>> PROVE Reverse(Append(cycle, cycle[1])) \in Seq(Slugs)
<1>1. cycle \in Seq(Slugs) /\ cycle[1] \in Slugs
  BY DEF CompositionTypeOK
<1> DEFINE path == Append(cycle, cycle[1])
<1>2. path \in Seq(Slugs)
  BY <1>1
<1> DEFINE back == [i \in 1..Len(path) |-> path[Len(path) - i + 1]]
<1> HIDE DEF path
<1>3. Len(path) \in Nat /\ back \in [1..Len(path) -> Slugs]
  BY <1>2
<1> HIDE DEF back
<1>4. back \in Seq(Slugs)
  BY <1>3
<1> QED BY <1>4 DEF Reverse, back, path

LEMMA InputKept == ASSUME [CompositionNext]_compositionVars PROVE UNCHANGED input
BY DEF config, CompositionNext, compositionVars, validate_pattern_config, CheckRoot, CheckDep, CheckReturn,
     Checked, SearchRoot, SearchSkip, SearchDep, SearchReturn, NoCycle, CycleCloses, Climb,
     CycleReported, Report, collect_missing_dependencies, from_pattern_config, CollectRoot,
     CollectDep, CollectReturn, Collected, ResolveDep, ResolveNext, Resolved, MakePlugin, Made

LEMMA TypeStep ==
  ASSUME CompositionTypeOK, Nested, [CompositionNext]_compositionVars PROVE CompositionTypeOK'
<1> USE DEF config, calls, checks, search, lookup, making
<1>1. UNCHANGED input
  BY InputKept
<1>2. /\ Selected' = Selected /\ dep_graph' = dep_graph /\ AllDeps' = AllDeps
      /\ Chosen' = Chosen
  BY <1>1, InputFixed
<1>3. Selected \subseteq Slugs BY ChosenTyped
<1>a. CASE validate_pattern_config
  BY <1>a, <1>1, <1>2 DEF CompositionTypeOK, validate_pattern_config, Stages
<1>b. CASE CheckRoot
  BY <1>b, <1>1, <1>2, <1>3, MovesTyped DEF CompositionTypeOK, CheckRoot
<1>c. CASE CheckDep
  <2>1. Dep \in Slugs /\ stack' \in Seq(Slugs) /\ next' \in [Slugs -> Nat \ {0}]
    BY <1>c, TopTyped, MovesTyped DEF CheckDep, AtDep
  <2> QED BY <1>c, <1>1, <1>2, <2>1 DEF CompositionTypeOK, CheckDep
<1>d. CASE CheckReturn
  BY <1>d, <1>1, <1>2, <1>3, MovesTyped DEF CompositionTypeOK, CheckReturn
<1>e. CASE Checked
  BY <1>e, <1>1, <1>2, <1>3 DEF CompositionTypeOK, Checked, Stages
<1>f. CASE SearchRoot
  BY <1>f, <1>1, <1>2, <1>3, MovesTyped DEF CompositionTypeOK, SearchRoot
<1>g. CASE SearchSkip
  BY <1>g, <1>1, <1>2, <1>3, MovesTyped DEF CompositionTypeOK, SearchSkip
<1>h. CASE SearchDep
  <2>1. Dep \in Slugs /\ stack' \in Seq(Slugs) /\ next' \in [Slugs -> Nat \ {0}]
    BY <1>h, TopTyped, MovesTyped DEF SearchDep, AtDep
  <2>2. Top \in Selected
    BY <1>h, TopTyped DEF SearchDep, AtDep, Nested, Calling
  <2>3. colour' \in [Selected -> {"white", "grey", "black"}]
    BY <1>h DEF SearchDep, CompositionTypeOK
  <2>4. parent' \in [Selected -> Selected \cup {None}]
    BY <1>h, <2>2 DEF SearchDep, CompositionTypeOK
  <2> QED BY <1>h, <1>1, <1>2, <2>1, <2>3, <2>4 DEF CompositionTypeOK, SearchDep
<1>i. CASE SearchReturn
  <2>1. colour' \in [Selected -> {"white", "grey", "black"}]
    BY <1>i DEF SearchReturn, CompositionTypeOK
  <2> QED BY <1>i, <1>1, <1>2, <2>1, MovesTyped DEF CompositionTypeOK, SearchReturn
<1>j. CASE NoCycle
  <2>1. NoCycle /\ <<>> \in Seq(Slugs)
    BY <1>j
  <2> QED BY <2>1, <1>1, <1>2, ReportTyped DEF NoCycle
<1>k. CASE CycleCloses
  <2>1. Dep \in Slugs /\ Top \in Slugs
    BY <1>k, TopTyped DEF CycleCloses, AtDep
  <2>2. Top \in Selected
    BY <1>k, TopTyped DEF CycleCloses, AtDep, Nested, Calling
  <2>3. <<Dep, Top>> \in Seq(Slugs)
    BY <2>1
  <2>4. parent[Top] \in Selected \cup {None}
    BY <2>2 DEF CompositionTypeOK
  <2> QED BY <1>k, <1>1, <1>2, <2>3, <2>4 DEF CompositionTypeOK, CycleCloses, Stages
<1>l. CASE Climb
  <2>1. above \in Selected
    BY <1>l DEF Climb, CompositionTypeOK
  <2>2. parent[above] \in Selected \cup {None} /\ Append(cycle, above) \in Seq(Slugs)
    BY <2>1, <1>3 DEF CompositionTypeOK
  <2> QED BY <1>l, <1>1, <1>2, <2>2 DEF CompositionTypeOK, Climb
<1>m. CASE CycleReported
  <2>1. Reverse(Append(cycle, cycle[1])) \in Seq(Slugs)
    BY <1>m, ReportedTyped DEF CycleReported, Nested, Calling
  <2> QED BY <1>m, <2>1, <1>1, <1>2, ReportTyped DEF CycleReported
<1>n. CASE collect_missing_dependencies
  BY <1>n, <1>1, <1>2, <1>3 DEF CompositionTypeOK, collect_missing_dependencies, Stages
<1>o. CASE from_pattern_config
  BY <1>o, <1>1, <1>2, <1>3 DEF CompositionTypeOK, from_pattern_config, Stages
<1>p. CASE CollectRoot
  BY <1>p, <1>1, <1>2, <1>3, MovesTyped DEF CompositionTypeOK, CollectRoot
<1>q. CASE CollectDep
  <2>1. Dep \in Slugs /\ Top \in Slugs /\ AtDep
    BY <1>q, TopTyped DEF CollectDep, AtDep
  <2>2. missing' \subseteq Slugs /\ scope[Top] \subseteq Slugs
    BY <1>q, <2>1 DEF CollectDep, CompositionTypeOK
  <2>3. \A given \in SUBSET Slugs : _collect_transitive(Dep, given) =>
           /\ stack' \in Seq(Slugs) /\ next' \in [Slugs -> Nat \ {0}]
           /\ visited' \subseteq Slugs /\ scope' \in [Slugs -> SUBSET Slugs]
    BY <2>1, MovesTyped DEF _collect_transitive, CompositionTypeOK
  <2>4. Skip => stack' \in Seq(Slugs) /\ next' \in [Slugs -> Nat \ {0}]
    BY <2>1, MovesTyped
  <2>5. /\ stack' \in Seq(Slugs) /\ next' \in [Slugs -> Nat \ {0}]
        /\ visited' \subseteq Slugs /\ scope' \in [Slugs -> SUBSET Slugs]
    BY <1>q, <2>2, <2>3, <2>4 DEF CollectDep, CompositionTypeOK
  <2> QED BY <1>q, <1>1, <1>2, <2>2, <2>5 DEF CompositionTypeOK, CollectDep
<1>r. CASE CollectReturn
  BY <1>r, <1>1, <1>2, <1>3, MovesTyped DEF CompositionTypeOK, CollectReturn
<1>s. CASE Collected
  BY <1>s, <1>1, <1>2, <1>3 DEF CompositionTypeOK, Collected, Stages
<1>t. CASE ResolveDep
  <2> DEFINE s == Chosen[at]
             dep == graph[s][next[s]]
  <2>1. at \in 1..Len(Chosen) /\ s \in Slugs
    BY <1>t, ChosenTyped DEF ResolveDep, CompositionTypeOK
  <2>2. graph[s] \in Seq(Slugs) /\ next[s] \in Nat \ {0} /\ next[s] <= Len(graph[s])
    BY <1>t, <2>1, GraphTyped DEF ResolveDep, CompositionTypeOK
  <2>3. dep \in Slugs
    BY <2>2
  <2>4. /\ added' \in {added, Append(added, dep)} /\ unresolved' \in {unresolved, TRUE}
        /\ next' = [next EXCEPT ![s] = next[s] + 1]
    BY <1>t DEF ResolveDep
  <2> HIDE DEF s, dep
  <2>5. next' \in [Slugs -> Nat \ {0}]
    BY <2>1, <2>2, <2>4 DEF CompositionTypeOK
  <2>6. added \in Seq(Slugs) /\ Append(added, dep) \in Seq(Slugs)
    BY <2>3 DEF CompositionTypeOK
  <2>7. unresolved' \in BOOLEAN
    BY <2>4 DEF CompositionTypeOK
  <2>8. added' \in Seq(Slugs)
    BY <2>4, <2>6
  <2> QED BY <1>t, <1>1, <1>2, <2>5, <2>7, <2>8 DEF CompositionTypeOK, ResolveDep
<1>u. CASE ResolveNext
  <2>1. at \in 1..Len(Chosen) /\ at \in Nat \ {0}
    BY <1>u DEF ResolveNext, CompositionTypeOK
  <2>2. at + 1 \in Nat \ {0} /\ Chosen[at] \in Slugs
    BY <2>1, ChosenTyped
  <2>3. at' = at + 1 /\ next' = [next EXCEPT ![Chosen[at]] = 1]
    BY <1>u DEF ResolveNext
  <2>4. at' \in Nat \ {0} /\ next' \in [Slugs -> Nat \ {0}]
    BY <2>2, <2>3 DEF CompositionTypeOK
  <2> QED
    BY <1>u, <1>1, <1>2, <2>4 DEF CompositionTypeOK, ResolveNext
<1>v. CASE Resolved
  BY <1>v, <1>1, <1>2, <1>3 DEF CompositionTypeOK, Resolved, Stages
<1>w. CASE MakePlugin
  <2> DEFINE all == Chosen \o added
  <2>1. all \in Seq(Slugs)
    BY ChosenTyped DEF CompositionTypeOK
  <2>2. at \in 1..Len(all)
    BY <1>w, <2>1 DEF MakePlugin, CompositionTypeOK
  <2>3. all[at] \in Slugs
    BY <2>1, <2>2
  <2>4. plugins' \in Seq(Slugs) /\ at' \in Nat \ {0}
    BY <1>w, <2>3 DEF MakePlugin, CompositionTypeOK
  <2> QED BY <1>w, <1>1, <1>2, <2>4 DEF CompositionTypeOK, MakePlugin
<1>x. CASE Made
  BY <1>x, <1>1, <1>2, <1>3 DEF CompositionTypeOK, Made, Stages
<1>y. CASE UNCHANGED compositionVars
  BY <1>y, <1>1, <1>2, <1>3 DEF CompositionTypeOK, compositionVars
<1> QED
  BY <1>a, <1>b, <1>c, <1>d, <1>e, <1>f, <1>g, <1>h, <1>i, <1>j, <1>k, <1>l, <1>m, <1>n, <1>o,
     <1>p, <1>q, <1>r, <1>s, <1>t, <1>u, <1>v, <1>w, <1>x, <1>y DEF CompositionNext

-----------------------------------------------------------------------------
(* The calls in progress and what each has seen of its dependencies.       *)

LEMMA RootMove ==
  ASSUME CompositionTypeOK, UNCHANGED graph, stack = <<>>, NEW s \in Slugs, CallRoot(s)
  PROVE  /\ Calling = {} /\ Calling' = {s} /\ OneCallEach'
         /\ Len(stack') = 1 /\ stack'[1] = s /\ next' = next
         /\ \A t \in Slugs : Seen(t)' = Seen(t)
BY DEF CallRoot, Calling, OneCallEach, Seen

LEMMA SeenAdvances ==
  ASSUME CompositionTypeOK, UNCHANGED graph, AtDep, Advance
  PROVE  \A t \in Slugs : /\ t # Top => next'[t] = next[t] /\ Seen(t)' = Seen(t)
                          /\ t = Top => Seen(t)' = Seen(t) \cup {Dep}
<1>1. Top \in Slugs /\ next[Top] \in Nat \ {0} /\ Dep = graph[Top][next[Top]]
  BY TopTyped DEF AtDep
<1>2. \A t \in Slugs \ {Top} : next'[t] = next[t]
  BY <1>1 DEF Advance, CompositionTypeOK
<1>3. next'[Top] = next[Top] + 1
  BY <1>1 DEF Advance, CompositionTypeOK
<1>4. 1..next[Top] + 1 - 1 = (1..next[Top] - 1) \cup {next[Top]}
  BY <1>1
<1>5. \A t \in Slugs : t = Top => Seen(t)' = Seen(t) \cup {Dep}
  BY <1>1, <1>3, <1>4 DEF Seen
<1> QED BY <1>2, <1>3, <1>5 DEF Seen

LEMMA SkipMove ==
  ASSUME CompositionTypeOK, UNCHANGED graph, AtDep, Skip
  PROVE  /\ stack' = stack /\ Calling' = Calling /\ (OneCallEach => OneCallEach') /\ Top \in Calling
         /\ \A t \in Slugs : /\ t # Top => next'[t] = next[t] /\ Seen(t)' = Seen(t)
                             /\ t = Top => Seen(t)' = Seen(t) \cup {Dep}
BY SeenAdvances, TopTyped DEF Skip, Calling, OneCallEach, AtDep

LEMMA CallMove ==
  ASSUME CompositionTypeOK, UNCHANGED graph, AtDep, OneCallEach, NEW s \in Slugs \ Calling, Call(s)
  PROVE  /\ Calling' = Calling \cup {s} /\ OneCallEach' /\ Top \in Calling
         /\ Len(stack') = Len(stack) + 1 /\ stack'[Len(stack) + 1] = s
         /\ \A i \in 1..Len(stack) : stack'[i] = stack[i]
         /\ \A t \in Slugs : /\ t # Top => next'[t] = next[t] /\ Seen(t)' = Seen(t)
                             /\ t = Top => Seen(t)' = Seen(t) \cup {Dep}
<1>1. stack \in Seq(Slugs) /\ Len(stack) \in Nat \ {0} /\ Top = stack[Len(stack)]
  BY TopTyped DEF AtDep, CompositionTypeOK
<1>2. /\ Len(stack') = Len(stack) + 1 /\ stack'[Len(stack) + 1] = s
      /\ \A i \in 1..Len(stack) : stack'[i] = stack[i]
  BY <1>1 DEF Call
<1> DEFINE n == Len(stack)
<1>3. n \in Nat /\ 1..n + 1 = (1..n) \cup {n + 1} /\ n + 1 \notin 1..n /\ (n # 0 => n \in 1..n)
  BY <1>1
<1>4. Calling' = Calling \cup {s} /\ Top \in Calling
  BY <1>1, <1>2, <1>3 DEF Calling
<1>5. OneCallEach'
  BY <1>2, <1>3 DEF OneCallEach, Calling
<1> QED BY <1>2, <1>4, <1>5, SeenAdvances DEF Call

LEMMA FrontMeans ==
  ASSUME NEW q \in Seq(Slugs), q # <<>>
  PROVE  Len(Front(q)) = Len(q) - 1 /\ \A i \in 1..Len(q) - 1 : Front(q)[i] = q[i]
<1> DEFINE n == Len(q) - 1
           f == SubSeq(q, 1, n)
<1>1. n \in Nat /\ n <= Len(q) /\ \A i \in 1..n : q[i] \in Slugs
  OBVIOUS
<1> HIDE DEF n
<1>2. Len(f) = n
  <2>1. CASE n = 0
    <3>1. f = <<>>
      BY <2>1
    <3> QED BY <2>1, <3>1
  <2>2. CASE n # 0
    BY <1>1, <2>2
  <2> QED BY <2>1, <2>2
<1>3. \A i \in 1..n : f[i] = q[i]
  BY <1>1
<1> QED BY <1>2, <1>3 DEF Front, n

LEMMA ReturnMove ==
  ASSUME CompositionTypeOK, UNCHANGED graph, OneCallEach, ReturnFromCall
  PROVE  /\ Calling' = Calling \ {Top} /\ OneCallEach' /\ Top \in Calling
         /\ Len(stack') = Len(stack) - 1 /\ Len(stack) \in Nat \ {0}
         /\ \A i \in 1..Len(stack) - 1 : stack'[i] = stack[i]
         /\ \A t \in Slugs : /\ t # Top => next'[t] = next[t] /\ Seen(t)' = Seen(t)
                             /\ t = Top => next'[t] = 1 /\ Seen(t)' = {}
         /\ ToSet(graph[Top]) \subseteq Seen(Top)
<1>1. /\ stack \in Seq(Slugs) /\ Len(stack) \in Nat \ {0} /\ Top = stack[Len(stack)]
      /\ Top \in Slugs /\ next[Top] \in Nat \ {0}
  BY TopTyped DEF ReturnFromCall, LoopDone, CompositionTypeOK
<1>2. /\ Len(stack') = Len(stack) - 1
      /\ \A i \in 1..Len(stack) - 1 : stack'[i] = stack[i]
  <2>1. stack' = Front(stack)
    BY DEF ReturnFromCall, UnwindTo
  <2> QED BY <1>1, <2>1, FrontMeans
<1> DEFINE n == Len(stack)
<1>3. n \in Nat /\ 1..n = (1..n - 1) \cup {n} /\ n \notin 1..n - 1 /\ n \in 1..n
  BY <1>1
<1>4. Calling' = Calling \ {Top} /\ Top \in Calling
  BY <1>1, <1>2, <1>3 DEF Calling, OneCallEach
<1>5. OneCallEach'
  BY <1>2, <1>3 DEF OneCallEach
<1>6. \A t \in Slugs \ {Top} : next'[t] = next[t]
  BY <1>1 DEF ReturnFromCall, UnwindTo, CompositionTypeOK
<1>7. next'[Top] = 1
  BY <1>1 DEF ReturnFromCall, UnwindTo, CompositionTypeOK
<1>8. \A t \in Slugs : t = Top => next'[t] = 1 /\ Seen(t)' = {}
  BY <1>7 DEF Seen
<1>9. ToSet(graph[Top]) \subseteq Seen(Top)
  <2>1. graph[Top] \in Seq(Slugs)
    BY <1>1, GraphTyped
  <2>2. ToSet(graph[Top]) = {graph[Top][k] : k \in 1..Len(graph[Top])}
    BY <2>1 DEF ToSet
  <2>3. Len(graph[Top]) \in Nat /\ Len(graph[Top]) < next[Top]
    BY <1>1, <2>1 DEF ReturnFromCall, LoopDone
  <2> QED BY <1>1, <2>2, <2>3 DEF Seen
<1> QED BY <1>1, <1>2, <1>4, <1>5, <1>6, <1>7, <1>8, <1>9 DEF Seen

-----------------------------------------------------------------------------
(* Each part of the invariant, step by step.                               *)

LEMMA NestedStep ==
  ASSUME CompositionTypeOK, Nested, CompositionNext PROVE Nested'
<1> USE DEF config, calls, checks, search, lookup, making
<1>1. UNCHANGED input /\ Selected' = Selected /\ Selected \subseteq Slugs
  BY InputKept, InputFixed, ChosenTyped
<1>2. stack = <<>> => Calling = {} /\ OneCallEach
  BY DEF Calling, OneCallEach
<1>3. UNCHANGED stack => Calling' = Calling /\ OneCallEach' = OneCallEach
  BY DEF Calling, OneCallEach
<1>4. colour \in [Selected -> {"white", "grey", "black"}] /\ next \in [Slugs -> Nat \ {0}]
  BY DEF CompositionTypeOK
<1>a. CASE validate_pattern_config
  BY <1>a, <1>1, <1>2, <1>3 DEF Nested, validate_pattern_config
<1>b. CASE CheckRoot
  <2>1. PICK s \in todo : CallRoot(s) /\ visited' = {s}
    BY <1>b DEF CheckRoot
  <2>2. s \in Slugs
    BY <1>1 DEF CompositionTypeOK
  <2>3. Calling' = {s} /\ OneCallEach' /\ next' = next /\ Calling = {}
    BY <1>b, <2>1, <2>2, RootMove DEF CheckRoot
  <2> QED BY <1>b, <1>1, <2>1, <2>3 DEF Nested, CheckRoot
<1>c. CASE CheckDep
  <2>1. /\ AtDep /\ UNCHANGED graph /\ Calling \subseteq visited /\ Dep \in Slugs
        /\ \/ Skip /\ UNCHANGED visited
           \/ Call(Dep) /\ Dep \notin Calling /\ visited' = visited \cup {Dep}
    BY <1>c, TopTyped DEF CheckDep, Nested, AtDep
  <2>2. CASE Skip /\ UNCHANGED visited
    <3>1. /\ Calling' = Calling /\ (OneCallEach => OneCallEach') /\ Top \in Calling
          /\ \A t \in Slugs : t # Top => next'[t] = next[t]
      BY <2>1, <2>2, SkipMove
    <3> QED BY <1>c, <1>1, <2>1, <2>2, <3>1 DEF Nested, CheckDep
  <2>3. CASE Call(Dep) /\ Dep \notin Calling /\ visited' = visited \cup {Dep}
    <3>1. /\ Calling' = Calling \cup {Dep} /\ OneCallEach' /\ Top \in Calling
          /\ \A t \in Slugs : t # Top => next'[t] = next[t]
      BY <2>1, <2>3, CallMove DEF Nested
    <3> QED BY <1>c, <1>1, <2>1, <2>3, <3>1 DEF Nested, CheckDep
  <2> QED BY <2>1, <2>2, <2>3
<1>d. CASE CheckReturn
  <2>1. /\ Calling' = Calling \ {Top} /\ OneCallEach' /\ Top \in Calling
        /\ \A t \in Slugs : (t # Top => next'[t] = next[t]) /\ (t = Top => next'[t] = 1)
    BY <1>d, ReturnMove DEF CheckReturn, Nested
  <2> QED BY <1>d, <1>1, <2>1 DEF Nested, CheckReturn
<1>e. CASE Checked
  <2>1. {s \in Selected : colour[s] = "grey"} = {}
    BY <1>e DEF Checked, Nested
  <2> QED BY <1>e, <1>1, <1>2, <1>3, <2>1 DEF Nested, Checked
<1>f. CASE SearchRoot
  <2>1. PICK s \in Selected : /\ colour[s] = "white" /\ CallRoot(s)
                              /\ colour' = [colour EXCEPT ![s] = "grey"]
    BY <1>f DEF SearchRoot
  <2>2. Calling' = {s} /\ OneCallEach' /\ next' = next /\ Calling = {}
    BY <1>f, <1>1, <2>1, RootMove DEF SearchRoot
  <2>3. {t \in Selected : colour'[t] = "grey"} = {s}
    BY <1>f, <1>4, <2>1, <2>2 DEF SearchRoot, Nested
  <2> QED BY <1>f, <1>1, <2>2, <2>3 DEF Nested, SearchRoot
<1>g. CASE SearchSkip
  <2>1. /\ Calling' = Calling /\ (OneCallEach => OneCallEach') /\ Top \in Calling
        /\ \A t \in Slugs : t # Top => next'[t] = next[t]
    BY <1>g, SkipMove DEF SearchSkip
  <2> QED BY <1>g, <1>1, <2>1 DEF Nested, SearchSkip
<1>h. CASE SearchDep
  <2>1. /\ AtDep /\ UNCHANGED graph /\ Dep \in Selected /\ Call(Dep) /\ Dep \notin Calling
        /\ colour[Dep] = "white" /\ colour' = [colour EXCEPT ![Dep] = "grey"]
    BY <1>h DEF SearchDep, Nested
  <2>2. /\ Calling' = Calling \cup {Dep} /\ OneCallEach' /\ Top \in Calling
        /\ \A t \in Slugs : t # Top => next'[t] = next[t]
    BY <1>1, <2>1, CallMove DEF Nested
  <2>3. {t \in Selected : colour'[t] = "grey"} = {t \in Selected : colour[t] = "grey"} \cup {Dep}
    BY <1>4, <2>1
  <2> QED BY <1>h, <1>1, <2>2, <2>3 DEF Nested, SearchDep
<1>i. CASE SearchReturn
  <2>1. /\ Calling' = Calling \ {Top} /\ OneCallEach' /\ Top \in Calling
        /\ \A t \in Slugs : (t # Top => next'[t] = next[t]) /\ (t = Top => next'[t] = 1)
    BY <1>i, ReturnMove DEF SearchReturn, Nested
  <2>2. {t \in Selected : colour'[t] = "grey"} = {t \in Selected : colour[t] = "grey"} \ {Top}
    BY <1>i, <1>4 DEF SearchReturn
  <2> QED BY <1>i, <1>1, <2>1, <2>2 DEF Nested, SearchReturn
<1>j. CASE NoCycle \/ CycleReported
  <2>1. /\ stage' = "validated" /\ stack' = <<>> /\ next' = [s \in Slugs |-> 1]
        /\ UNCHANGED visited /\ stage \in {"search", "climb"}
    BY <1>j DEF NoCycle, CycleReported, Report
  <2>2. OneCallEach'
    BY <2>1 DEF OneCallEach
  <2> QED BY <2>1, <2>2 DEF Nested
<1>k. CASE CycleCloses
  BY <1>k, <1>1, <1>3 DEF Nested, CycleCloses
<1>l. CASE Climb
  <2>1. cycle' # <<>>
    BY <1>l DEF Climb, CompositionTypeOK
  <2> QED BY <1>l, <1>1, <1>3, <2>1 DEF Nested, Climb
<1>n. CASE collect_missing_dependencies
  BY <1>n, <1>1, <1>2, <1>3 DEF Nested, collect_missing_dependencies
<1>o. CASE from_pattern_config
  BY <1>o, <1>1, <1>2, <1>3 DEF Nested, from_pattern_config
<1>p. CASE CollectRoot
  <2>1. PICK s \in Selected \ visited : CallRoot(s) /\ visited' = visited \cup {s}
    BY <1>p DEF CollectRoot
  <2>2. Calling' = {s} /\ OneCallEach' /\ next' = next /\ Calling = {}
    BY <1>p, <1>1, <2>1, RootMove DEF CollectRoot
  <2> QED BY <1>p, <1>1, <2>1, <2>2 DEF Nested, CollectRoot, Collecting
<1>q. CASE CollectDep
  <2>1. /\ AtDep /\ UNCHANGED graph /\ Calling \subseteq visited /\ Dep \in Slugs /\ UNCHANGED stage
        /\ Collecting
        /\ \/ Skip /\ UNCHANGED visited
           \/ Call(Dep) /\ Dep \notin Calling /\ visited' = visited \cup {Dep}
    BY <1>q, TopTyped DEF CollectDep, _collect_transitive, Nested, AtDep, Collecting
  <2>2. CASE Skip /\ UNCHANGED visited
    <3>1. /\ Calling' = Calling /\ (OneCallEach => OneCallEach') /\ Top \in Calling
          /\ \A t \in Slugs : t # Top => next'[t] = next[t]
      BY <2>1, <2>2, SkipMove
    <3> QED BY <1>1, <2>1, <2>2, <3>1 DEF Nested, Collecting
  <2>3. CASE Call(Dep) /\ Dep \notin Calling /\ visited' = visited \cup {Dep}
    <3>1. /\ Calling' = Calling \cup {Dep} /\ OneCallEach' /\ Top \in Calling
          /\ \A t \in Slugs : t # Top => next'[t] = next[t]
      BY <2>1, <2>3, CallMove DEF Nested
    <3> QED BY <1>1, <2>1, <2>3, <3>1 DEF Nested, Collecting
  <2> QED BY <2>1, <2>2, <2>3
<1>r. CASE CollectReturn
  <2>1. /\ Calling' = Calling \ {Top} /\ OneCallEach' /\ Top \in Calling
        /\ \A t \in Slugs : (t # Top => next'[t] = next[t]) /\ (t = Top => next'[t] = 1)
    BY <1>r, ReturnMove DEF CollectReturn, Nested
  <2> QED BY <1>r, <1>1, <2>1 DEF Nested, CollectReturn, Collecting
<1>s. CASE Collected
  BY <1>s, <1>1, <1>2, <1>3 DEF Nested, Collected, Collecting
<1>t. CASE ResolveDep
  BY <1>t, <1>1, <1>3 DEF Nested, ResolveDep
<1>u. CASE ResolveNext
  BY <1>u, <1>1, <1>3 DEF Nested, ResolveNext
<1>v. CASE Resolved
  BY <1>v, <1>1, <1>3 DEF Nested, Resolved
<1>w. CASE MakePlugin
  BY <1>w, <1>1, <1>3 DEF Nested, MakePlugin
<1>x. CASE Made
  BY <1>x, <1>1, <1>3 DEF Nested, Made
<1> QED
  BY <1>a, <1>b, <1>c, <1>d, <1>e, <1>f, <1>g, <1>h, <1>i, <1>j, <1>k, <1>l, <1>n, <1>o,
     <1>p, <1>q, <1>r, <1>s, <1>t, <1>u, <1>v, <1>w, <1>x DEF CompositionNext

LEMMA SeenNothing ==
  ASSUME CompositionTypeOK, Nested, stage \notin {"resolve", "make", "failed", "built"}
  PROVE  \A s \in Slugs : s \notin Calling => Seen(s) = {}
<1> TAKE s \in Slugs
<1> SUFFICES ASSUME s \notin Calling PROVE Seen(s) = {}
  OBVIOUS
<1>1. next[s] = 1
  BY DEF Nested
<1> QED BY <1>1 DEF Seen

LEMMA CheckingStep ==
  ASSUME CompositionTypeOK, Nested, Checking, CompositionNext PROVE Checking'
<1> USE DEF config, calls, checks, search, lookup, making
<1>1. /\ UNCHANGED input /\ Selected' = Selected /\ Selected \subseteq Slugs
      /\ detect_conflicts' = detect_conflicts /\ \A s, d : Met(s, d)' = Met(s, d)
  BY InputKept, InputFixed, ChosenTyped DEF Met
<1>2. UNCHANGED graph => AllMet' = AllMet
  BY <1>1 DEF AllMet
<1>a. CASE validate_pattern_config
  <2>1. Calling' = {} /\ UNCHANGED graph
    BY <1>a DEF validate_pattern_config, Nested, Calling
  <2> QED BY <1>a, <1>1, <1>2, <2>1 DEF Checking, validate_pattern_config
<1>b. CASE CheckRoot
  <2>1. PICK s \in todo : CallRoot(s) /\ todo' = todo \ {s}
    BY <1>b DEF CheckRoot
  <2>2. s \in Slugs
    BY <1>1 DEF CompositionTypeOK
  <2>3. Calling' = {s} /\ Calling = {} /\ \A t \in Slugs : Seen(t)' = Seen(t)
    BY <1>b, <2>1, <2>2, RootMove DEF CheckRoot
  <2>4. Seen(s) = {}
    BY <1>b, <2>2, <2>3, SeenNothing DEF CheckRoot
  <2> QED BY <1>b, <1>1, <1>2, <2>1, <2>2, <2>3, <2>4 DEF Checking, CheckRoot
<1>c. CASE CheckDep
  <2>0. AtDep /\ Calling \subseteq visited
    BY <1>c DEF CheckDep, Nested
  <2>1. /\ AtDep /\ UNCHANGED graph /\ Dep \in Slugs /\ Top \in Slugs /\ stage = "check"
        /\ UNCHANGED <<stage, todo, valid>>
    BY <1>c, <2>0, TopTyped DEF CheckDep, AtDep
  <2>4. \/ Skip /\ (~unmet' => ~unmet /\ Met(Top, Dep))
        \/ Call(Dep) /\ Dep \notin Calling /\ UNCHANGED unmet /\ Met(Top, Dep)
    <3>1. CASE Dep \notin Selected
      BY <1>c, <3>1, Zenon DEF CheckDep, Met
    <3>2. CASE Dep \in Selected
      BY <1>c, <2>0, <3>2 DEF CheckDep, Met
    <3> QED BY <3>1, <3>2
  <2>2. CASE Skip /\ (~unmet' => ~unmet /\ Met(Top, Dep))
    <3>1. /\ Calling' = Calling /\ Top \in Calling
          /\ \A t \in Slugs : /\ t # Top => Seen(t)' = Seen(t)
                              /\ t = Top => Seen(t)' = Seen(t) \cup {Dep}
      BY <2>1, <2>2, SkipMove
    <3>2. Calling \subseteq Slugs
      BY DEF Calling, CompositionTypeOK
    <3> QED BY <1>1, <1>2, <2>1, <2>2, <3>1, <3>2 DEF Checking
  <2>3. CASE Call(Dep) /\ Dep \notin Calling /\ UNCHANGED unmet /\ Met(Top, Dep)
    <3>1. /\ Calling' = Calling \cup {Dep} /\ Top \in Calling
          /\ \A t \in Slugs : /\ t # Top => Seen(t)' = Seen(t)
                              /\ t = Top => Seen(t)' = Seen(t) \cup {Dep}
      BY <2>1, <2>3, CallMove DEF Nested
    <3>2. Calling \subseteq Slugs
      BY DEF Calling, CompositionTypeOK
    <3>3. Seen(Dep) = {}
      BY <2>1, <2>3, SeenNothing
    <3> QED BY <1>1, <1>2, <2>1, <2>3, <3>1, <3>2, <3>3 DEF Checking
  <2> QED BY <2>2, <2>3, <2>4
<1>d. CASE CheckReturn
  <2>1. /\ Calling' = Calling \ {Top} /\ Top \in Calling
        /\ \A t \in Slugs : /\ t # Top => Seen(t)' = Seen(t)
                            /\ t = Top => Seen(t)' = {}
        /\ ToSet(graph[Top]) \subseteq Seen(Top)
    BY <1>d, ReturnMove DEF CheckReturn, Nested
  <2>2. Calling \subseteq Slugs
    BY DEF Calling, CompositionTypeOK
  <2> QED BY <1>d, <1>1, <1>2, <2>1, <2>2 DEF Checking, CheckReturn
<1>e. CASE Checked
  <2>1. Calling = {} /\ UNCHANGED graph
    BY <1>e DEF Checked, Calling
  <2>2. ~unmet => AllMet
    BY <1>e, <2>1 DEF Checked, Checking, AllMet
  <2> QED BY <1>e, <1>1, <1>2, <2>1, <2>2 DEF Checking, Checked
<1>f. CASE SearchRoot \/ SearchSkip \/ SearchDep \/ SearchReturn \/ CycleCloses \/ Climb
  <2>1. /\ UNCHANGED <<graph, unmet, valid>>
        /\ stage \in {"search", "climb"} /\ stage' \in {"search", "climb"}
    BY <1>f DEF SearchRoot, SearchSkip, SearchDep, SearchReturn, CycleCloses, Climb
  <2> QED BY <1>1, <1>2, <2>1 DEF Checking
<1>j. CASE NoCycle \/ CycleReported
  <2>1. /\ UNCHANGED graph /\ stage \in {"search", "climb"} /\ stage' = "validated"
        /\ valid' => ~detect_conflicts /\ ~unmet
    BY <1>j DEF NoCycle, CycleReported, Report
  <2> QED BY <1>1, <1>2, <2>1 DEF Checking
<1>n. CASE collect_missing_dependencies
  BY <1>n, <1>1 DEF Checking, collect_missing_dependencies
<1>o. CASE from_pattern_config \/ CollectRoot \/ CollectDep \/ CollectReturn \/ Collected
  <2>1. /\ UNCHANGED <<graph, valid>> /\ stage \in {"validated", "collect", "lookup"}
        /\ stage' \in {"collect", "lookup", "resolve", "returned"}
        /\ stage' \in {"lookup", "returned"} => stage = "lookup"
    BY <1>o DEF from_pattern_config, CollectRoot, CollectDep, CollectReturn, Collected, Collecting
  <2> QED BY <1>1, <1>2, <2>1 DEF Checking
<1>t. CASE ResolveDep \/ ResolveNext \/ Resolved \/ MakePlugin \/ Made
  <2>1. UNCHANGED <<graph, valid>> /\ stage' \in {"resolve", "failed", "make", "built"}
    BY <1>t DEF ResolveDep, ResolveNext, Resolved, MakePlugin, Made
  <2> QED BY <1>1, <1>2, <2>1 DEF Checking
<1> QED
  BY <1>a, <1>b, <1>c, <1>d, <1>e, <1>f, <1>j, <1>n, <1>o, <1>t DEF CompositionNext

\* A pattern whose dependencies are black closes no cycle among the black.
LEMMA BlackGrows ==
  ASSUME CompositionTypeOK, Settled, NEW v \in Selected \ Black,
         \A s \in Black \cup {v} : ToSet(graph[s]) \cap Selected \subseteq Black,
         Black' = Black \cup {v}, UNCHANGED graph
  PROVE  Settled'
<1> SUFFICES ASSUME NEW S \in SUBSET (Black \cup {v}), S # {}
             PROVE  \E s \in S : S \cap ToSet(graph[s]) = {}
  BY DEF Settled
<1>0. Black \subseteq Selected
  BY DEF Black
<1>1. \A s \in S : v \notin ToSet(graph[s])
  OBVIOUS
<1>2. CASE S \ {v} = {}
  BY <1>1, <1>2
<1>3. CASE S \ {v} # {}
  <2>1. PICK s \in S \ {v} : (S \ {v}) \cap ToSet(graph[s]) = {}
    BY <1>3 DEF Settled
  <2> QED BY <1>1, <2>1
<1> QED BY <1>2, <1>3

LEMMA SearchingStep ==
  ASSUME CompositionTypeOK, Nested, Searching, CompositionNext PROVE Searching'
<1> USE DEF config, calls, checks, search, lookup, making
<1>1. UNCHANGED input /\ Selected' = Selected /\ Selected \subseteq Slugs
  BY InputKept, InputFixed, ChosenTyped
<1>2. /\ colour \in [Selected -> {"white", "grey", "black"}] /\ stack \in Seq(Slugs)
      /\ parent \in [Selected -> Selected \cup {None}] /\ None \notin Selected
  BY <1>1, CompositionAssumption DEF CompositionTypeOK
<1>3. UNCHANGED colour => Black' = Black
  BY <1>1 DEF Black
<1>4. UNCHANGED graph /\ Black' = Black => Settled' = Settled
  BY DEF Settled
<1>a. CASE Checked
  <2>1. /\ UNCHANGED <<graph, colour, parent>> /\ stack' = <<>> /\ Black = {}
        /\ \A s \in Selected : parent[s] = None
    BY <1>a DEF Checked, Nested, Black
  <2>2. Settled'
    BY <1>3, <2>1 DEF Settled
  <2> QED BY <1>1, <1>3, <2>1, <2>2 DEF Searching
<1>b. CASE SearchRoot
  <2>1. PICK s \in Selected : /\ colour[s] = "white" /\ CallRoot(s)
                              /\ colour' = [colour EXCEPT ![s] = "grey"]
    BY <1>b DEF SearchRoot
  <2>2. /\ Calling = {} /\ Len(stack') = 1 /\ stack'[1] = s
        /\ \A t \in Slugs : Seen(t)' = Seen(t)
    BY <1>b, <1>1, <2>1, RootMove DEF SearchRoot
  <2>3. Seen(s) = {}
    BY <1>b, <1>1, <2>2, SeenNothing DEF SearchRoot
  <2>4. Black' = Black /\ UNCHANGED <<graph, parent, stage>> /\ stage = "search"
    BY <1>b, <1>1, <1>2, <2>1 DEF Black, SearchRoot
  <2>5. \A t \in Selected : colour'[t] = "white" => colour[t] = "white"
    BY <1>2, <2>1
  <2> QED BY <1>1, <1>4, <2>1, <2>2, <2>3, <2>4, <2>5 DEF Searching
<1>c. CASE SearchSkip
  <2>1. /\ UNCHANGED <<graph, stack, parent, colour, stage>> /\ stage = "search" /\ AtDep
        /\ Dep \in Selected => Dep \in Black
    BY <1>c DEF SearchSkip, Skip, Black
  <2>2. \A t \in Slugs : /\ t # Top => Seen(t)' = Seen(t)
                         /\ t = Top => Seen(t)' = Seen(t) \cup {Dep}
    BY <1>c, SkipMove DEF SearchSkip
  <2>3. \A i \in 1..Len(stack) : \A d \in Seen(stack[i])' \cap Selected :
           d \in Seen(stack[i]) \/ d \in Black
    BY <1>2, <2>1, <2>2
  <2> QED BY <1>1, <1>3, <1>4, <2>1, <2>3 DEF Searching
<1>d. CASE SearchDep
  <2> DEFINE n == Len(stack)
  <2>1. /\ AtDep /\ UNCHANGED graph /\ Dep \in Selected /\ Call(Dep) /\ Dep \notin Calling
        /\ colour[Dep] = "white" /\ colour' = [colour EXCEPT ![Dep] = "grey"]
        /\ parent' = [parent EXCEPT ![Dep] = Top] /\ stage = "search" /\ stage' = stage
    BY <1>d DEF SearchDep, Nested
  <2>2. /\ Len(stack') = n + 1 /\ stack'[n + 1] = Dep
        /\ \A i \in 1..n : stack'[i] = stack[i]
        /\ \A t \in Slugs : /\ t # Top => Seen(t)' = Seen(t)
                            /\ t = Top => Seen(t)' = Seen(t) \cup {Dep}
    BY <1>1, <2>1, CallMove DEF Nested
  <2>3. n \in Nat \ {0} /\ Top = stack[n] /\ Top \in Slugs /\ Dep \in ToSet(graph[Top])
    BY <2>1, TopTyped DEF AtDep
  <2>4. /\ \A i \in 1..n : stack[i] \in Selected /\ stack[i] # Dep
        /\ \A i \in 1..n - 1 : stack[i] # Top
    BY <2>1, <2>3 DEF Nested, Calling, OneCallEach
  <2>5. Black' = Black /\ \A t \in Selected \ {Dep} : colour'[t] = colour[t]
    BY <1>1, <1>2, <2>1 DEF Black
  <2>6. colour'[Dep] = "grey" /\ parent'[Dep] = Top /\ \A t \in Selected \ {Dep} : parent'[t] = parent[t]
    BY <1>2, <2>1
  <2>7. Seen(Dep) = {}
    BY <1>1, <2>1, SeenNothing
  <2> HIDE DEF n
  <2>8. stack # <<>>
    BY <2>1 DEF AtDep
  <2>9. parent'[stack'[1]] = None
    BY <2>1, <2>2, <2>3, <2>4, <2>6, <2>8 DEF Searching
  <2>10. \A i \in 1..n : /\ parent'[stack'[i + 1]] = stack'[i]
                         /\ stack'[i + 1] \in ToSet(graph'[stack'[i]])
    <3> TAKE i \in 1..n
    <3>1. CASE i = n
      BY <2>1, <2>2, <2>3, <2>6, <3>1
    <3>2. CASE i # n
      <4>1. i \in 1..n - 1 /\ i + 1 \in 1..n
        BY <2>3, <3>2
      <4>2. parent[stack[i + 1]] = stack[i] /\ stack[i + 1] \in ToSet(graph[stack[i]])
        BY <2>1, <4>1 DEF Searching, n
      <4> QED BY <2>1, <2>2, <2>4, <2>6, <4>1, <4>2
    <3> QED BY <3>1, <3>2
  <2>11. \A i \in 1..n + 1 : \A t \in Slugs : t = stack'[i] =>
            \A d \in Seen(t)' \cap Selected : d \in Black \/ (i < n + 1 /\ d = stack'[i + 1])
    <3> TAKE i \in 1..n + 1
    <3> TAKE t \in Slugs
    <3> SUFFICES ASSUME t = stack'[i], NEW d \in Seen(t)' \cap Selected
                 PROVE  d \in Black \/ (i < n + 1 /\ d = stack'[i + 1])
      OBVIOUS
    <3>1. CASE i = n + 1
      BY <2>2, <2>3, <2>7, <2>4, <3>1
    <3>2. CASE i = n
      <4>1. d = Dep \/ d \in Seen(stack[n])
        BY <2>2, <2>3, <3>2
      <4>2. d \in Seen(stack[n]) => d \in Black
        <5>1. n \in 1..n /\ ~(n < n)
          BY <2>3
        <5> QED BY <2>1, <5>1 DEF Searching, n
      <4> QED BY <2>2, <2>3, <3>2, <4>1, <4>2
    <3>3. CASE i \in 1..n - 1
      <4>1. d \in Seen(stack[i]) /\ i \in 1..n /\ i + 1 \in 1..n /\ i < n + 1
        BY <2>2, <2>3, <2>4, <3>3
      <4>2. d \in Black \/ d = stack[i + 1]
        BY <2>1, <4>1 DEF Searching, n
      <4> QED BY <2>2, <4>1, <4>2
    <3> QED BY <2>3, <3>1, <3>2, <3>3
  <2>12. \A i \in 1..n + 1 : stack'[i] \in Slugs
    BY <1>1, <2>1, <2>2, <2>3, <2>4
  <2>13. Len(stack') - 1 = n
    BY <2>2, <2>3
  <2>14. \A s \in Selected : colour'[s] = "white" => parent'[s] = None
    BY <2>1, <2>5, <2>6 DEF Searching
  <2>15. /\ \A s \in Black : ToSet(graph[s]) \cap Selected \subseteq Black
         /\ Settled'
    BY <1>4, <2>1, <2>5 DEF Searching
  <2>16. \A i \in 1..Len(stack') : \A d \in Seen(stack[i])' \cap Selected :
            d \in Black \/ (i < Len(stack') /\ d = stack'[i + 1])
    BY <2>2, <2>11, <2>12
  <2>17. \A i \in 1..Len(stack') - 1 : /\ parent'[stack'[i + 1]] = stack'[i]
                                       /\ stack'[i + 1] \in ToSet(graph'[stack'[i]])
    BY <2>10, <2>13
  <2> QED BY <1>1, <2>1, <2>5, <2>9, <2>14, <2>15, <2>16, <2>17 DEF Searching
<1>e. CASE SearchReturn
  <2> DEFINE n == Len(stack)
  <2>1. /\ ReturnFromCall /\ UNCHANGED <<graph, parent, stage>> /\ stage = "search"
        /\ colour' = [colour EXCEPT ![Top] = "black"]
    BY <1>e DEF SearchReturn
  <2>2. /\ Len(stack') = n - 1 /\ n \in Nat \ {0} /\ Top \in Calling
        /\ \A i \in 1..n - 1 : stack'[i] = stack[i]
        /\ \A t \in Slugs : t # Top => Seen(t)' = Seen(t)
        /\ ToSet(graph[Top]) \subseteq Seen(Top)
    BY <2>1, ReturnMove DEF Nested
  <2>3. /\ \A i \in 1..n : stack[i] \in Selected
        /\ \A i \in 1..n - 1 : stack[i] # Top
        /\ Top \in Selected \ Black /\ Top = stack[n] /\ stack # <<>>
    BY <2>1, <2>2, TopTyped DEF Nested, Calling, OneCallEach, Black, ReturnFromCall, LoopDone
  <2>4. Black' = Black \cup {Top} /\ \A t \in Selected \ {Top} : colour'[t] = colour[t]
    BY <1>1, <1>2, <2>1, <2>3 DEF Black
  <2>5. \A s \in Black \cup {Top} : ToSet(graph[s]) \cap Selected \subseteq Black
    BY <2>1, <2>2, <2>3 DEF Searching
  <2>6. Settled'
    BY <2>1, <2>3, <2>4, <2>5, BlackGrows DEF Searching
  <2> HIDE DEF n
  <2>7. stack' # <<>> => parent'[stack'[1]] = None
    <3> SUFFICES ASSUME stack' # <<>> PROVE parent'[stack'[1]] = None
      OBVIOUS
    <3>1. stack' \in Seq(Slugs)
      BY <2>1, MovesTyped
    <3>2. Len(stack') # 0
      BY <3>1
    <3>3. 1 \in 1..n - 1
      BY <2>2, <3>2
    <3> QED BY <2>1, <2>2, <2>3, <3>3 DEF Searching
  <2>8. \A i \in 1..n - 1 - 1 : /\ parent'[stack'[i + 1]] = stack'[i]
                                /\ stack'[i + 1] \in ToSet(graph'[stack'[i]])
    <3> TAKE i \in 1..n - 1 - 1
    <3>1. i \in 1..n - 1 /\ i + 1 \in 1..n - 1
      BY <2>2
    <3>2. parent[stack[i + 1]] = stack[i] /\ stack[i + 1] \in ToSet(graph[stack[i]])
      BY <2>1, <3>1 DEF Searching, n
    <3> QED BY <2>1, <2>2, <3>1, <3>2
  <2>9. \A i \in 1..n - 1 : \A t \in Slugs : t = stack'[i] =>
            \A d \in Seen(t)' \cap Selected : d \in Black' \/ (i < n - 1 /\ d = stack'[i + 1])
    <3> TAKE i \in 1..n - 1
    <3> TAKE t \in Slugs
    <3> SUFFICES ASSUME t = stack'[i], NEW d \in Seen(t)' \cap Selected
                 PROVE  d \in Black' \/ (i < n - 1 /\ d = stack'[i + 1])
      OBVIOUS
    <3>1. d \in Seen(stack[i]) /\ i \in 1..n /\ i < n
      BY <2>2, <2>3
    <3>2. d \in Black \/ d = stack[i + 1]
      BY <2>1, <3>1 DEF Searching, n
    <3>3. CASE i = n - 1
      BY <2>2, <2>3, <2>4, <3>2, <3>3
    <3>4. CASE i # n - 1
      <4>1. i < n - 1 /\ i + 1 \in 1..n - 1
        BY <2>2, <3>4
      <4> QED BY <2>2, <2>4, <3>2, <4>1
    <3> QED BY <3>3, <3>4
  <2>10. \A i \in 1..n - 1 : stack'[i] \in Slugs
    BY <1>1, <2>2, <2>3
  <2>11. \A s \in Selected : colour'[s] = "white" => parent'[s] = None
    BY <1>2, <2>1, <2>3, <2>4 DEF Searching
  <2>12. \A s \in Black' : ToSet(graph[s]) \cap Selected \subseteq Black'
    BY <2>4, <2>5
  <2> QED BY <1>1, <2>1, <2>2, <2>6, <2>7, <2>8, <2>9, <2>10, <2>11, <2>12 DEF Searching
<1>f. CASE CycleCloses \/ Climb
  <2>1. /\ UNCHANGED <<graph, stack, next, parent, colour>>
        /\ stage \in {"search", "climb"}
    BY <1>f DEF CycleCloses, Climb
  <2>2. \A t : Seen(t)' = Seen(t)
    BY <2>1 DEF Seen
  <2>3. \A i \in 1..Len(stack) : Seen(stack[i])' = Seen(stack[i])
    BY <2>1, <2>2
  <2> QED BY <1>1, <1>3, <1>4, <2>1, <2>3 DEF Searching
<1> QED
  <2>1. CASE stage' \notin {"search", "climb"}
    BY <2>1 DEF Searching
  <2>2. CASE stage' \in {"search", "climb"}
    BY <1>a, <1>b, <1>c, <1>d, <1>e, <1>f, <2>2
       DEF CompositionNext, validate_pattern_config, CheckRoot, CheckDep, CheckReturn, NoCycle,
           CycleReported, Report, collect_missing_dependencies, from_pattern_config, CollectRoot,
           CollectDep, CollectReturn, Collected, ResolveDep, ResolveNext, Resolved, MakePlugin,
           Made, Collecting
  <2> QED BY <2>1, <2>2

LEMMA ClimbingStep ==
  ASSUME CompositionTypeOK, Nested, Searching, Climbing, CompositionNext PROVE Climbing'
<1> USE DEF config, calls, checks, search, lookup, making
<1> DEFINE n == Len(stack)
           m == Len(cycle)
<1>1. UNCHANGED input /\ Selected' = Selected /\ n \in Nat /\ m \in Nat
  BY InputKept, InputFixed DEF CompositionTypeOK
<1>a. CASE CycleCloses
  <2>1. /\ cycle' = <<Dep, Top>> /\ above' = parent[Top] /\ UNCHANGED <<stack, graph>>
        /\ AtDep /\ stage = "search" /\ Dep \in Calling
    BY <1>a DEF CycleCloses, Nested
  <2>2. n \in Nat \ {0} /\ Top = stack[n] /\ Dep \in ToSet(graph[Top])
    BY <2>1, TopTyped DEF AtDep
  <2>3. Calling' = Calling /\ stack # <<>>
    BY <2>1 DEF Calling, AtDep
  <2>4. above' = IF 2 = n + 1 THEN None ELSE stack[n + 1 - 2]
    <3>1. CASE n = 1
      BY <2>1, <2>2, <2>3, <3>1 DEF Searching
    <3>2. CASE n # 1
      <4> HIDE DEF n
      <4>1. n - 1 \in 1..n - 1 /\ n - 1 + 1 = n /\ n + 1 - 2 = n - 1 /\ 2 # n + 1
        BY <2>2, <3>2
      <4>2. parent[stack[n - 1 + 1]] = stack[n - 1]
        BY <2>1, <4>1 DEF Searching, n
      <4> QED BY <2>1, <2>2, <4>1, <4>2
    <3> QED BY <3>1, <3>2
  <2>5. Len(cycle') = 2 /\ cycle'[1] = Dep /\ cycle'[2] = Top
    BY <2>1
  <2> HIDE DEF n
  <2>6. \A j \in 2..2 : cycle'[j] = stack[n + 2 - j]
    <3>1. n + 2 - 2 = n
      BY <2>2
    <3> QED BY <2>2, <2>5, <3>1
  <2>7. 2 \in 2..n + 1 /\ \A j \in 3..2 : cycle'[j] # cycle'[1]
    BY <2>2
  <2> QED BY <2>1, <2>2, <2>3, <2>4, <2>5, <2>6, <2>7 DEF Climbing, n
<1>b. CASE Climb
  <2>1. /\ cycle' = Append(cycle, above) /\ above' = parent[above] /\ UNCHANGED <<stack, graph>>
        /\ stage = "climb" /\ above \notin {None, cycle[1]} /\ cycle \in Seq(Slugs)
    BY <1>b DEF Climb, CompositionTypeOK
  <2>2. /\ m \in 2..n + 1 /\ m # n + 1 /\ above = stack[n + 1 - m]
        /\ \A j \in 2..m : cycle[j] = stack[n + 2 - j]
        /\ \A j \in 3..m : cycle[j] # cycle[1]
        /\ cycle[1] \in Calling /\ cycle[1] \in ToSet(graph[stack[n]])
    BY <2>1 DEF Climbing
  <2>3. Calling' = Calling
    BY <2>1 DEF Calling
  <2>4. /\ Len(cycle') = m + 1 /\ cycle'[m + 1] = above
        /\ \A j \in 1..m : cycle'[j] = cycle[j]
    BY <2>1
  <2> HIDE DEF n, m
  <2>5. m + 1 \in 2..n + 1 /\ n + 1 - m \in 1..n /\ n + 2 - (m + 1) = n + 1 - m
    BY <1>1, <2>2
  <2>6. above' = IF m + 1 = n + 1 THEN None ELSE stack[n + 1 - (m + 1)]
    <3>1. CASE m = n
      <4>1. n + 1 - m = 1 /\ stack # <<>>
        BY <1>1, <2>2, <3>1 DEF n
      <4> QED BY <2>1, <2>2, <3>1, <4>1 DEF Searching
    <3>2. CASE m # n
      <4>1. n - m \in 1..n - 1 /\ n - m + 1 = n + 1 - m /\ n + 1 - (m + 1) = n - m /\ m + 1 # n + 1
        BY <1>1, <2>2, <3>2
      <4>2. parent[stack[n - m + 1]] = stack[n - m]
        BY <2>1, <4>1 DEF Searching, n
      <4> QED BY <2>1, <2>2, <4>1, <4>2
    <3> QED BY <3>1, <3>2
  <2>7. \A j \in 2..m + 1 : cycle'[j] = stack[n + 2 - j]
    <3> TAKE j \in 2..m + 1
    <3>1. CASE j = m + 1
      BY <2>2, <2>4, <2>5, <3>1
    <3>2. CASE j # m + 1
      <4>1. j \in 2..m /\ j \in 1..m
        BY <1>1, <3>2
      <4> QED BY <2>2, <2>4, <4>1
    <3> QED BY <3>1, <3>2
  <2>8. \A j \in 3..m + 1 : cycle'[j] # cycle'[1]
    <3> TAKE j \in 3..m + 1
    <3>0. 1 \in 1..m
      BY <1>1, <2>2
    <3>1. CASE j = m + 1
      BY <2>1, <2>4, <3>0, <3>1
    <3>2. CASE j # m + 1
      <4>1. j \in 3..m /\ j \in 1..m
        BY <1>1, <3>2
      <4> QED BY <2>2, <2>4, <3>0, <4>1
    <3> QED BY <3>1, <3>2
  <2>9. cycle'[1] = cycle[1]
    BY <1>1, <2>2, <2>4
  <2> QED BY <2>1, <2>2, <2>3, <2>4, <2>5, <2>6, <2>7, <2>8, <2>9 DEF Climbing, n
<1>c. CASE stage' # "climb"
  BY <1>c DEF Climbing
<1> QED
  BY <1>a, <1>b, <1>c
     DEF CompositionNext, validate_pattern_config, CheckRoot, CheckDep, CheckReturn, Checked,
         SearchRoot, SearchSkip, SearchDep, SearchReturn, NoCycle, CycleReported, Report,
         collect_missing_dependencies, from_pattern_config, CollectRoot, CollectDep,
         CollectReturn, Collected, ResolveDep, ResolveNext, Resolved, MakePlugin, Made, Collecting

LEMMA ReverseMeans ==
  ASSUME NEW q \in Seq(Slugs)
  PROVE  Len(Reverse(q)) = Len(q) /\ \A i \in 1..Len(q) : Reverse(q)[i] = q[Len(q) - i + 1]
<1> DEFINE back == [i \in 1..Len(q) |-> q[Len(q) - i + 1]]
<1>1. Len(q) \in Nat /\ back \in [1..Len(q) -> Slugs]
  OBVIOUS
<1>2. \A i \in 1..Len(q) : back[i] = q[Len(q) - i + 1]
  OBVIOUS
<1> HIDE DEF back
<1>3. Len(back) = Len(q)
  BY <1>1
<1> QED BY <1>2, <1>3 DEF Reverse, back

\* The reported path: the top of the stack upwards, closed by its own start.
LEMMA ReportedPath ==
  ASSUME CompositionTypeOK, Nested, Searching, Climbing, CycleReported,
         NEW path, path = Reverse(Append(cycle, cycle[1]))
  PROVE  /\ path # <<>> /\ path[1] = path[Len(path)]
         /\ \/ path[Len(path) - 1] = path[1]
            \/ \A i \in 1..Len(path) - 1 : path[i + 1] \in ToSet(graph[path[i]])
         /\ \E S \in (SUBSET Selected) \ {{}} : \A s \in S : S \cap ToSet(graph[s]) # {}
         /\ \A i \in 1..Len(path) - 1 : path[i] \in Selected
<1> DEFINE n == Len(stack)
           m == Len(cycle)
           dep == cycle[1]
<1>1. /\ stage = "climb" /\ above \in {None, dep} /\ cycle \in Seq(Slugs) /\ n \in Nat
      /\ None \notin Selected /\ stack \in Seq(Slugs)
  BY ChosenTyped, CompositionAssumption DEF CycleReported, CompositionTypeOK
<1>2. /\ m \in 2..n + 1 /\ \A j \in 2..m : cycle[j] = stack[n + 2 - j]
      /\ above = IF m = n + 1 THEN None ELSE stack[n + 1 - m]
      /\ dep \in Calling /\ dep \in ToSet(graph[stack[n]])
      /\ \A j \in 3..m : cycle[j] # dep
  BY <1>1 DEF Climbing
<1>3. \A i \in 1..n - 1 : stack[i + 1] \in ToSet(graph[stack[i]])
  BY <1>1 DEF Searching
<1>4. \A i \in 1..n : stack[i] \in Selected
  BY <1>1 DEF Nested, Calling
<1>5. PICK k \in 1..n : stack[k] = dep
  BY <1>2 DEF Calling
<1> DEFINE q == Append(cycle, dep)
<1>6. /\ q \in Seq(Slugs) /\ Len(q) = m + 1 /\ q[m + 1] = dep
      /\ \A j \in 1..m : q[j] = cycle[j]
  BY <1>1, <1>2
<1> HIDE DEF n, m, dep, q
<1>6a. m \in Nat /\ m >= 2 /\ m <= n + 1
  BY <1>1, <1>2
<1>7. Len(path) = m + 1 /\ \A i \in 1..m + 1 : path[i] = q[m + 1 - i + 1]
  <2>1. path = Reverse(q)
    BY DEF q, dep
  <2>2. q \in Seq(Slugs)
    BY <1>6
  <2>3. Len(Reverse(q)) = Len(q) /\ \A i \in 1..Len(q) : Reverse(q)[i] = q[Len(q) - i + 1]
    BY <2>2, ReverseMeans
  <2>4. Len(path) = m + 1
    BY <1>6, <2>1, <2>3
  <2>5. ASSUME NEW i \in 1..m + 1 PROVE path[i] = q[m + 1 - i + 1]
    <3>1. i \in 1..Len(q)
      BY <1>6
    <3>2. path[i] = q[Len(q) - i + 1]
      BY <2>1, <2>3, <3>1
    <3> QED BY <1>6, <1>6a, <3>2
  <2> QED BY <2>4, <2>5
<1>9. path[1] = dep /\ path[m + 1] = dep
  <2>1. 1 \in 1..m + 1 /\ m + 1 \in 1..m + 1 /\ m + 1 - 1 + 1 = m + 1 /\ m + 1 - (m + 1) + 1 = 1
        /\ 1 \in 1..m
    BY <1>6a
  <2> QED BY <1>6, <1>7, <2>1 DEF dep
<1>10. \A i \in 2..m : path[i] = stack[n - m + i]
  <2> TAKE i \in 2..m
  <2>1. /\ i \in 1..m + 1 /\ m + 1 - i + 1 \in 2..m /\ m + 1 - i + 1 \in 1..m
        /\ n + 2 - (m + 1 - i + 1) = n - m + i
    BY <1>1, <1>6a
  <2> QED BY <1>2, <1>6, <1>7, <2>1
<1>11. path # <<>> /\ path[1] = path[Len(path)]
  <2>1. Len(path) # 0
    BY <1>7, <1>6a
  <2> QED BY <1>7, <1>9, <2>1
<1>12. dep # stack[n] => \A i \in 1..m : path[i + 1] \in ToSet(graph[path[i]])
  <2> HAVE dep # stack[n]
  <2>1. k \in 1..n - 1 /\ n + 2 - k \in 3..n + 1 /\ n + 2 - (n + 2 - k) = k /\ k \in Nat
    <3>1. k # n
      BY <1>5
    <3> QED BY <1>1, <1>5, <3>1
  <2>2. ~(n + 2 - k <= m)
    <3> SUFFICES ASSUME n + 2 - k <= m PROVE FALSE
      OBVIOUS
    <3>1. n + 2 - k \in 2..m /\ n + 2 - k \in 3..m
      BY <1>1, <1>6a, <2>1
    <3>2. cycle[n + 2 - k] = stack[n + 2 - (n + 2 - k)] /\ cycle[n + 2 - k] # dep
      BY <1>2, <3>1
    <3> QED BY <1>5, <2>1, <3>2
  <2>3. m # n + 1 /\ n + 1 - m \in 1..n /\ n - m \in Nat
    BY <1>1, <1>6a, <2>1, <2>2
  <2>4. stack[n + 1 - m] = dep
    BY <1>1, <1>2, <1>4, <2>3
  <2>5. \A i \in 1..m : path[i] = stack[n - m + i]
    <3> TAKE i \in 1..m
    <3>1. CASE i = 1
      <4>1. n - m + 1 = n + 1 - m
        BY <1>1, <1>6a
      <4> QED BY <1>9, <2>4, <3>1, <4>1
    <3>2. CASE i # 1
      <4>1. i \in 2..m
        BY <1>6a, <3>2
      <4> QED BY <1>10, <4>1
    <3> QED BY <3>1, <3>2
  <2> TAKE i \in 1..m
  <2>6. CASE i = m
    <3>1. m \in 1..m /\ n - m + m = n
      BY <1>1, <1>6a
    <3>2. path[m] = stack[n]
      BY <2>5, <3>1
    <3> QED BY <1>2, <1>9, <2>6, <3>2
  <2>7. CASE i # m
    <3>1. /\ i + 1 \in 1..m /\ n - m + i \in 1..n - 1 /\ n - m + (i + 1) = n - m + i + 1
      BY <1>1, <1>6a, <2>3, <2>7
    <3>2. path[i + 1] = stack[n - m + i + 1] /\ path[i] = stack[n - m + i]
      BY <2>5, <3>1
    <3> QED BY <1>3, <3>1, <3>2
  <2> QED BY <2>6, <2>7
<1>13. dep = stack[n] => path[Len(path) - 1] = path[1]
  <2>1. m \in 2..m /\ n - m + m = n /\ m + 1 - 1 = m
    BY <1>1, <1>6a
  <2>2. path[m] = stack[n]
    BY <1>10, <2>1
  <2> QED BY <1>7, <1>9, <2>1, <2>2
<1>14. \E S \in (SUBSET Selected) \ {{}} : \A s \in S : S \cap ToSet(graph[s]) # {}
  <2> DEFINE S == {stack[j] : j \in k..n}
  <2>1. S \in (SUBSET Selected) \ {{}}
    <3>1. k \in k..n /\ \A j \in k..n : j \in 1..n
      BY <1>1, <1>5
    <3> QED BY <1>4, <3>1
  <2>2. ASSUME NEW j \in k..n PROVE S \cap ToSet(graph[stack[j]]) # {}
    <3>1. CASE j = n
      <4>1. k \in k..n
        BY <1>1, <1>5
      <4>2. stack[k] \in S
        BY <4>1
      <4> QED BY <1>2, <1>5, <3>1, <4>2
    <3>2. CASE j # n
      <4>1. j + 1 \in k..n /\ j \in 1..n - 1
        BY <1>1, <1>5, <3>2
      <4>2. stack[j + 1] \in S
        BY <4>1
      <4> QED BY <1>3, <4>1, <4>2
    <3> QED BY <3>1, <3>2
  <2>3. \A s \in S : S \cap ToSet(graph[s]) # {}
    BY <2>2
  <2> QED BY <2>1, <2>3
<1>15. Len(path) - 1 = m
  BY <1>7, <1>6a
<1>16. \A i \in 1..m : path[i] \in Selected
  <2> TAKE i \in 1..m
  <2>1. CASE i = 1
    BY <1>4, <1>5, <1>9, <2>1
  <2>2. CASE i # 1
    <3>1. i \in 2..m /\ n - m + i \in 1..n
      <4>1. i \in 2..m
        BY <1>6a, <2>2
      <4>2. CASE m = n + 1
        BY <1>1, <1>6a, <4>1, <4>2
      <4>3. CASE m # n + 1
        BY <1>1, <1>6a, <4>1, <4>3
      <4> QED BY <4>1, <4>2, <4>3
    <3> QED BY <1>4, <1>10, <3>1
  <2> QED BY <2>1, <2>2
<1> QED BY <1>11, <1>12, <1>13, <1>14, <1>15, <1>16

LEMMA CycleFoundStep ==
  ASSUME CompositionTypeOK, Nested, Searching, Climbing, CompositionNext PROVE CycleFound'
<1>1. /\ UNCHANGED input /\ Selected' = Selected /\ \A s : DepsOf(s)' = DepsOf(s)
      /\ \A s \in Selected : graph[s] = DepsOf(s)
  BY InputKept, InputFixed, GraphTyped
<1>a. CASE validate_pattern_config
  BY <1>a, <1>1 DEF validate_pattern_config, CycleFound
<1>b. CASE NoCycle
  <2>1. cycle' = <<>> /\ stage = "search" /\ Calling = {} /\ \A s \in Selected : colour[s] # "white"
    BY <1>b DEF NoCycle, Report, Calling
  <2>2. Selected \subseteq Black
    BY <2>1 DEF Nested, CompositionTypeOK, Black
  <2>3. ~\E S \in (SUBSET Selected) \ {{}} : \A s \in S : S \cap ToSet(DepsOf(s)) # {}
    <3> SUFFICES ASSUME NEW S \in SUBSET Selected, S # {},
                        \A s \in S : S \cap ToSet(DepsOf(s)) # {}
                 PROVE  FALSE
      OBVIOUS
    <3>1. S \in SUBSET Black
      BY <2>2
    <3>2. PICK s \in S : S \cap ToSet(graph[s]) = {}
      BY <2>1, <3>1 DEF Searching, Settled
    <3> QED BY <1>1, <3>2
  <2> QED BY <1>1, <2>1, <2>3 DEF CycleFound
<1>c. CASE CycleReported
  <2> DEFINE path == Reverse(Append(cycle, cycle[1]))
  <2>1. cycle' = path
    BY <1>c DEF CycleReported, Report
  <2>2. /\ path # <<>> /\ path[1] = path[Len(path)]
        /\ \/ path[Len(path) - 1] = path[1]
           \/ \A i \in 1..Len(path) - 1 : path[i + 1] \in ToSet(graph[path[i]])
        /\ \E S \in (SUBSET Selected) \ {{}} : \A s \in S : S \cap ToSet(graph[s]) # {}
        /\ \A i \in 1..Len(path) - 1 : path[i] \in Selected
    BY <1>c, ReportedPath
  <2> HIDE DEF path
  <2>3. \E S \in (SUBSET Selected) \ {{}} : \A s \in S : S \cap ToSet(DepsOf(s)) # {}
    BY <1>1, <2>2
  <2>4. \/ path[Len(path) - 1] = path[1]
        \/ \A i \in 1..Len(path) - 1 : path[i + 1] \in ToSet(DepsOf(path[i]))
    BY <1>1, <2>2
  <2>5. /\ \A s : DepsOf(s)' = DepsOf(s)
        /\ \A i \in 1..Len(cycle') - 1 : DepsOf(cycle[i])' = DepsOf(path[i])
    BY <1>1, <2>1 DEF DepsOf
  <2> QED BY <1>1, <2>1, <2>2, <2>3, <2>4, <2>5 DEF CycleFound
<1>d. CASE stage' # "validated"
  BY <1>d DEF CycleFound
<1> QED
  BY <1>a, <1>b, <1>c, <1>d
     DEF CompositionNext, CheckRoot, CheckDep, CheckReturn, Checked, SearchRoot, SearchSkip,
         SearchDep, SearchReturn, CycleCloses, Climb, collect_missing_dependencies,
         from_pattern_config, CollectRoot, CollectDep, CollectReturn, Collected, ResolveDep,
         ResolveNext, Resolved, MakePlugin, Made, Collecting

LEMMA GatheringStep ==
  ASSUME CompositionTypeOK, Nested, Gathering, CompositionNext PROVE Gathering'
<1> USE DEF config, calls, checks, search, lookup, making
<1>1. /\ UNCHANGED input /\ Selected' = Selected /\ Selected \subseteq Slugs
      /\ \A s, d : Met(s, d)' = Met(s, d) /\ SameCategory(s, d)' = SameCategory(s, d)
  BY InputKept, InputFixed, ChosenTyped DEF Met
<1>2. \A s, d : Held(s, d)' <=> Met(s, d) \/ d \in missing'
  BY <1>1 DEF Held
<1>3. UNCHANGED graph => \A M : Needed(M)' = Needed(M)
  BY <1>1 DEF Needed
<1>4. UNCHANGED <<graph, missing>> => Lacking' /\ \A s, d : Held(s, d)' = Held(s, d)
  BY <1>1, <1>2, <1>3 DEF Gathering, Lacking, Held
<1>5. Calling \subseteq Slugs /\ visited \subseteq Slugs /\ missing \subseteq Slugs
  BY DEF Calling, CompositionTypeOK
<1>a. CASE CollectRoot
  <2>1. PICK s \in Selected \ visited : /\ CallRoot(s) /\ visited' = visited \cup {s}
                                        /\ scope' = [scope EXCEPT ![s] = Selected]
    BY <1>a DEF CollectRoot
  <2>2. /\ UNCHANGED <<graph, missing, stage>> /\ s \in Slugs /\ stack = <<>> /\ Walked /\ Collecting
    BY <1>a, <1>1, <2>1 DEF CollectRoot, Gathering, Collecting
  <2>3. Calling' = {s} /\ Calling = {} /\ \A t \in Slugs : Seen(t)' = Seen(t)
    BY <2>1, <2>2, RootMove
  <2>4. Seen(s) = {}
    BY <2>2, <2>3, SeenNothing DEF Collecting
  <2>5. scope'[s] = Selected
    BY <2>1, <2>2 DEF CompositionTypeOK
  <2>6. Walked'
    BY <1>1, <1>4, <2>1, <2>2, <2>3, <2>4, <2>5 DEF Walked
  <2> QED BY <1>4, <2>2, <2>6 DEF Gathering, Collecting
<1>b. CASE CollectDep
  <2>1. /\ AtDep /\ UNCHANGED <<graph, stage>> /\ Dep \in Slugs /\ Top \in Slugs
        /\ Dep \in ToSet(graph[Top]) /\ Walked /\ Collecting
    BY <1>b, TopTyped DEF CollectDep, Gathering, AtDep, Collecting
  <2>2. Top \in Calling /\ Calling \subseteq visited /\ OneCallEach
    BY <2>1, TopTyped DEF Nested, Calling, Collecting, AtDep
  <2>3. /\ Selected \subseteq scope[Top] /\ scope[Top] \subseteq Selected \cup missing
        /\ Top \in Selected \cup missing
    BY <2>1, <2>2 DEF Walked
  <2>4. /\ missing' = missing \/ (missing' = missing \cup {Dep} /\ Dep \notin scope[Top]
                                    /\ ~SameCategory(Top, Dep))
        /\ Met(Top, Dep) \/ Dep \in missing'
        /\ \/ Skip /\ UNCHANGED <<visited, scope>> /\ (Dep \in visited \/ missing' = missing)
           \/ /\ Call(Dep) /\ Dep \notin visited /\ visited' = visited \cup {Dep}
              /\ Dep \in Selected \cup missing'
              /\ \E given : /\ scope' = [scope EXCEPT ![Dep] = given]
                            /\ Selected \subseteq given /\ given \subseteq Selected \cup missing'
    <3>1. CASE Dep \in scope[Top] /\ _collect_transitive(Dep, scope[Top]) /\ UNCHANGED missing
      BY <2>3, <3>1 DEF _collect_transitive, Met
    <3>2. CASE Dep \notin scope[Top] /\ SameCategory(Top, Dep) /\ Skip /\ UNCHANGED <<visited, lookup>>
      BY <3>2 DEF Met
    <3>3. CASE /\ Dep \notin scope[Top] /\ ~SameCategory(Top, Dep) /\ missing' = missing \cup {Dep}
               /\ _collect_transitive(Dep, scope[Top] \cup missing')
      BY <2>3, <3>3 DEF _collect_transitive
    <3> QED BY <1>b, <3>1, <3>2, <3>3 DEF CollectDep
  <2>5. Lacking'
    <3>1. CASE missing' = missing
      BY <1>4, <2>1, <3>1
    <3>2. CASE missing' = missing \cup {Dep} /\ Dep \notin scope[Top] /\ ~SameCategory(Top, Dep)
      <4>1. Dep \notin Selected
        BY <2>3, <3>2
      <4>2. ASSUME NEW M \in SUBSET Slugs, Needed(M) \subseteq M PROVE missing' \subseteq M
        <5>1. missing \subseteq M
          BY <4>2 DEF Gathering, Lacking
        <5>2. Dep \in Needed(M)
          BY <2>1, <2>3, <3>2, <4>1, <5>1 DEF Needed
        <5> QED BY <3>2, <4>2, <5>1, <5>2
      <4>3. missing' \cap Selected = {}
        BY <3>2, <4>1 DEF Gathering, Lacking
      <4> QED BY <1>1, <1>3, <2>1, <4>2, <4>3 DEF Lacking
    <3> QED BY <2>4, <3>1, <3>2
  <2>6. /\ missing \subseteq missing'
        /\ \A s, d : Held(s, d) => Held(s, d)'
        /\ Held(Top, Dep) \/ Dep \in missing'
    BY <1>2, <2>4 DEF Held
  <2>7. CASE Skip /\ UNCHANGED <<visited, scope>> /\ (Dep \in visited \/ missing' = missing)
    <3>1. /\ Calling' = Calling
          /\ \A t \in Slugs : /\ t # Top => Seen(t)' = Seen(t)
                              /\ t = Top => Seen(t)' = Seen(t) \cup {Dep}
      BY <2>1, <2>7, SkipMove
    <3>2. \A s \in Calling' : \A d \in Seen(s)' : Held(s, d)'
      BY <1>2, <1>5, <2>1, <2>4, <2>6, <3>1 DEF Walked
    <3>3. \A s \in visited' \ Calling' : \A d \in ToSet(graph'[s]) : Held(s, d)'
      BY <2>1, <2>6, <2>7, <3>1 DEF Walked
    <3>4. missing' \subseteq visited' /\ visited' \subseteq Selected' \cup missing'
      BY <1>1, <2>1, <2>4, <2>7 DEF Walked
    <3>5. \A s \in Calling' : Selected' \subseteq scope'[s] /\ scope'[s] \subseteq Selected' \cup missing'
      BY <1>1, <2>1, <2>6, <2>7, <3>1 DEF Walked
    <3> QED BY <2>1, <2>5, <3>2, <3>3, <3>4, <3>5 DEF Gathering, Walked, Collecting
  <2>8. CASE /\ Call(Dep) /\ Dep \notin visited /\ visited' = visited \cup {Dep}
             /\ Dep \in Selected \cup missing'
             /\ \E given : /\ scope' = [scope EXCEPT ![Dep] = given]
                           /\ Selected \subseteq given /\ given \subseteq Selected \cup missing'
    <3>0. Dep \notin Calling
      BY <2>2, <2>8
    <3>1. /\ Calling' = Calling \cup {Dep}
          /\ \A t \in Slugs : /\ t # Top => Seen(t)' = Seen(t)
                              /\ t = Top => Seen(t)' = Seen(t) \cup {Dep}
      BY <2>1, <2>2, <2>8, <3>0, CallMove
    <3>2. Seen(Dep) = {} /\ Dep # Top
      BY <2>1, <2>2, <3>0, SeenNothing DEF Collecting
    <3>3. \A s \in Calling' : \A d \in Seen(s)' : Held(s, d)'
      BY <1>2, <1>5, <2>1, <2>4, <2>6, <3>1, <3>2 DEF Walked
    <3>4. \A s \in visited' \ Calling' : \A d \in ToSet(graph'[s]) : Held(s, d)'
      BY <2>1, <2>6, <2>8, <3>1 DEF Walked
    <3>5. missing' \subseteq visited' /\ visited' \subseteq Selected' \cup missing'
      BY <1>1, <2>1, <2>4, <2>8 DEF Walked
    <3>6. \A s \in Calling' : Selected' \subseteq scope'[s] /\ scope'[s] \subseteq Selected' \cup missing'
      <4>1. scope \in [Slugs -> SUBSET Slugs]
        BY DEF CompositionTypeOK
      <4> QED BY <1>1, <1>5, <2>1, <2>6, <2>8, <3>1, <4>1 DEF Walked
    <3> QED BY <2>1, <2>5, <3>3, <3>4, <3>5, <3>6 DEF Gathering, Walked, Collecting
  <2> QED BY <2>4, <2>7, <2>8
<1>c. CASE CollectReturn
  <2>1. /\ ReturnFromCall /\ UNCHANGED <<graph, stage, missing, visited>> /\ Walked /\ Collecting
        /\ scope' = [scope EXCEPT ![Top] = {}]
    BY <1>c DEF CollectReturn, Gathering, Collecting
  <2>2. /\ Calling' = Calling \ {Top} /\ Top \in Calling
        /\ \A t \in Slugs : t # Top => Seen(t)' = Seen(t)
        /\ ToSet(graph[Top]) \subseteq Seen(Top)
    BY <2>1, ReturnMove DEF Nested
  <2>3. \A s \in Slugs : s # Top => scope'[s] = scope[s]
    BY <2>1 DEF CompositionTypeOK
  <2>4. Walked'
    BY <1>1, <1>4, <1>5, <2>1, <2>2, <2>3 DEF Walked
  <2> QED BY <1>4, <2>1, <2>4 DEF Gathering, Collecting
<1>d. CASE Collected
  <2>1. /\ UNCHANGED <<graph, missing>> /\ Walked /\ Collecting /\ Calling = {}
        /\ Selected \subseteq visited /\ stage' \in {"resolve", "returned"}
    BY <1>d DEF Collected, Gathering, Calling
  <2>2. \A s \in Selected \cup missing : \A d \in ToSet(graph[s]) : Held(s, d)
    BY <2>1 DEF Walked
  <2> QED BY <1>1, <1>4, <2>1, <2>2 DEF Gathering, Collecting
<1>e. CASE from_pattern_config \/ collect_missing_dependencies
  <2>1. /\ missing' = {} /\ visited' = {} /\ Calling' = {} /\ stage' \in {"collect", "lookup"}
    BY <1>e DEF from_pattern_config, collect_missing_dependencies, Gathering, Nested, Calling
  <2> QED BY <2>1 DEF Gathering, Walked, Lacking, Collecting
<1>f. CASE /\ UNCHANGED <<graph, missing>>
           /\ stage' \notin {"collect", "lookup"}
           /\ stage' \in {"created", "check", "search", "climb", "validated"} =>
                 stage \in {"created", "check", "search", "climb", "validated"}
           /\ stage' \in {"resolve", "returned", "make", "built", "failed"} =>
                 stage \in {"resolve", "returned", "make", "built", "failed"}
  BY <1>1, <1>4, <1>f DEF Gathering, Collecting
<1> QED
  BY <1>a, <1>b, <1>c, <1>d, <1>e, <1>f
     DEF CompositionNext, validate_pattern_config, CheckRoot, CheckDep, CheckReturn, Checked,
         SearchRoot, SearchSkip, SearchDep, SearchReturn, NoCycle, CycleCloses, Climb,
         CycleReported, Report, ResolveDep, ResolveNext, Resolved, MakePlugin, Made

LEMMA AppendedSet ==
  ASSUME NEW q \in Seq(Slugs), NEW d \in Slugs
  PROVE  Append(q, d) \in Seq(Slugs) /\ ToSet(Append(q, d)) = ToSet(q) \cup {d}
<1>1. Append(q, d) \in Seq(Slugs) /\ Len(Append(q, d)) = Len(q) + 1 /\ Len(q) \in Nat
  OBVIOUS
<1>2. /\ \A i \in 1..Len(q) : Append(q, d)[i] = q[i]
      /\ Append(q, d)[Len(q) + 1] = d
  OBVIOUS
<1>3. /\ ToSet(q) = {q[i] : i \in 1..Len(q)}
      /\ ToSet(Append(q, d)) = {Append(q, d)[i] : i \in 1..Len(q) + 1}
  BY <1>1 DEF ToSet
<1>4. \A i \in 1..Len(q) + 1 : i \in 1..Len(q) \/ i = Len(q) + 1
  BY <1>1
<1>5. \A i \in 1..Len(q) : i \in 1..Len(q) + 1
  BY <1>1
<1>6. Len(q) + 1 \in 1..Len(q) + 1
  BY <1>1
<1>7. ToSet(Append(q, d)) \subseteq ToSet(q) \cup {d}
  BY <1>2, <1>3, <1>4
<1>8. ToSet(q) \cup {d} \subseteq ToSet(Append(q, d))
  BY <1>2, <1>3, <1>5, <1>6
<1> QED BY <1>1, <1>7, <1>8

\* What was added is still alone in its category when dep fills another.
LEMMA FilledAlone ==
  ASSUME CompositionTypeOK, Resolving, UNCHANGED input, NEW dep \in Slugs,
         Fillable(dep), added' = Append(added, dep)
  PROVE  /\ There' = There \cup {dep}
         /\ \A d \in ToSet(added)' : /\ d \in input.registry
                                     /\ \A t \in There' : t # d => ~SameCategory(t, d)
<1>1. ToSet(added)' = ToSet(added) \cup {dep} /\ Selected' = Selected
  BY InputFixed, AppendedSet DEF CompositionTypeOK
<1>2. There' = There \cup {dep} /\ ToSet(added) \subseteq There
  BY <1>1 DEF There
<1>3. dep \in input.registry /\ \A t \in There : ~SameCategory(t, dep) /\ ~SameCategory(dep, t)
  BY DEF Fillable, SameCategory
<1>4. \A d \in ToSet(added) : d \in input.registry /\ \A t \in There : t # d => ~SameCategory(t, d)
  BY DEF Resolving
<1> QED BY <1>1, <1>2, <1>3, <1>4

LEMMA ResolvingStep ==
  ASSUME CompositionTypeOK, Nested, Gathering, Resolving, CompositionNext PROVE Resolving'
<1> USE DEF config, calls, checks, search, lookup, making
<1>1. /\ UNCHANGED input /\ Selected' = Selected /\ Selected \subseteq Slugs /\ Chosen' = Chosen
      /\ \A s, d : SameCategory(s, d)' = SameCategory(s, d)
  BY InputKept, InputFixed, ChosenTyped
<1>2. /\ Chosen \in Seq(Slugs) /\ Len(Chosen) \in Nat /\ at \in Nat \ {0}
      /\ Selected = {Chosen[i] : i \in 1..Len(Chosen)} /\ next \in [Slugs -> Nat \ {0}]
  BY ChosenTyped DEF CompositionTypeOK
<1>3. UNCHANGED added => There' = There /\ \A s, d : Had(s, d)' = Had(s, d)
  BY <1>1 DEF There, Had
<1>4. /\ UNCHANGED added =>
            \A d \in ToSet(added)' : /\ d \in input'.registry
                                     /\ \A t \in There' : t # d => ~SameCategory(t, d)'
  BY <1>1, <1>3 DEF Resolving
<1>5. \A i \in 1..Len(Chosen) : Chosen[i] \in Slugs
  BY <1>2
<1>a. CASE ResolveDep
  <2>0. /\ stage = "resolve" /\ stage' = "resolve" /\ at \in 1..Len(Chosen)
        /\ UNCHANGED <<graph, at, plugins>> /\ Chosen[at] \in Slugs
    BY <1>a, <1>2 DEF ResolveDep
  <2> PICK s \in Slugs : s = Chosen[at]
    BY <2>0
  <2>1. /\ next[s] \in 1..Len(graph[s]) /\ next' = [next EXCEPT ![s] = @ + 1]
        /\ graph[s] \in Seq(Slugs)
    BY <1>a, <1>2, <2>0, GraphTyped DEF ResolveDep
  <2> PICK dep \in Slugs : dep = graph[s][next[s]]
    BY <2>1
  <2>2. dep \in ToSet(graph[s])
    BY <2>1 DEF ToSet
  <2>3. /\ next'[s] = next[s] + 1 /\ \A t \in Slugs : t # s => next'[t] = next[t]
    BY <1>2, <2>1
  <2>4. \A t \in Slugs : /\ t # s => Seen(t)' = Seen(t)
                         /\ t = s => Seen(t)' = Seen(t) \cup {dep}
    <3>1. \A t \in Slugs : t # s => Seen(t)' = Seen(t)
      BY <2>0, <2>3 DEF Seen
    <3>2. 1..next[s] + 1 - 1 = (1..next[s] - 1) \cup {next[s]}
      BY <2>1
    <3>3. \A t \in Slugs : t = s => Seen(t)' = Seen(t) \cup {dep}
      BY <2>0, <2>1, <2>3, <3>2 DEF Seen
    <3> QED BY <3>1, <3>3
  <2>5. Held(s, dep)
    BY <1>2, <2>0, <2>2 DEF Gathering
  <2>6. \/ UNCHANGED <<added, unresolved>> /\ Had(s, dep)
        \/ Fillable(dep) /\ added' = Append(added, dep) /\ UNCHANGED unresolved
        \/ unresolved' = TRUE /\ UNCHANGED added
    BY <1>a, <2>5 DEF ResolveDep, Held, Met, Had, There
  <2>7. /\ \A t, d : Had(t, d) => Had(t, d)'
        /\ \A d \in ToSet(added)' : /\ d \in input'.registry
                                    /\ \A t \in There' : t # d => ~SameCategory(t, d)'
        /\ Had(s, dep)' \/ unresolved' = TRUE
        /\ unresolved' = TRUE \/ unresolved' = unresolved
    <3>1. CASE UNCHANGED <<added, unresolved>> /\ Had(s, dep)
      BY <1>3, <1>4, <3>1
    <3>2. CASE Fillable(dep) /\ added' = Append(added, dep) /\ UNCHANGED unresolved
      <4>1. /\ There' = There \cup {dep}
            /\ \A d \in ToSet(added)' : /\ d \in input.registry
                                        /\ \A t \in There' : t # d => ~SameCategory(t, d)
        BY <1>1, <2>2, <3>2, FilledAlone
      <4> QED BY <1>1, <3>2, <4>1 DEF Had
    <3>3. CASE unresolved' = TRUE /\ UNCHANGED added
      BY <1>3, <1>4, <3>3
    <3> QED BY <2>6, <3>1, <3>2, <3>3
  <2>8. \A t \in Slugs : at' > Len(Chosen) \/ t # Chosen[at'] => next'[t] = 1
    BY <2>0, <2>3 DEF Resolving
  <2>9. ASSUME ~unresolved', NEW i \in 1..Len(Chosen)
        PROVE  /\ i < at => \A d \in ToSet(graph[Chosen[i]]) : Had(Chosen[i], d)
               /\ i = at => \A d \in Seen(Chosen[i]) : Had(Chosen[i], d)
    <3>1. ~unresolved
      BY <2>7, <2>9
    <3> QED BY <2>0, <3>1 DEF Resolving
  <2>10. ASSUME ~unresolved', NEW i \in 1..Len(Chosen), NEW t \in Slugs, t = Chosen[i], NEW d
         PROVE  /\ i < at /\ d \in ToSet(graph[t]) => Had(t, d)'
                /\ i = at /\ d \in Seen(t)' => Had(t, d)'
    <3>1. ASSUME i < at, d \in ToSet(graph[t]) PROVE Had(t, d)'
      BY <2>7, <2>9, <2>10, <3>1
    <3>2. ASSUME i = at, d \in Seen(t)' PROVE Had(t, d)'
      <4>1. t = s
        BY <2>10, <3>2
      <4>2. d = dep \/ d \in Seen(t)
        BY <2>4, <3>2, <4>1
      <4> QED BY <2>7, <2>9, <2>10, <3>2, <4>1, <4>2
    <3> QED BY <3>1, <3>2
  <2>11. ~unresolved' => \A i \in 1..Len(Chosen) :
            /\ i < at => \A d \in ToSet(graph[Chosen[i]]) : Had(Chosen[i], d)'
            /\ i = at => \A d \in Seen(Chosen[i])' : Had(Chosen[i], d)'
    BY <1>1, <1>5, <2>10
  <2>12. at' <= Len(Chosen') + 1 /\ plugins' = <<>>
    BY <1>1, <1>2, <2>0 DEF Resolving
  <2> QED BY <1>1, <2>0, <2>7, <2>8, <2>11, <2>12 DEF Resolving
<1>b. CASE ResolveNext
  <2> DEFINE s == Chosen[at]
  <2>1. /\ stage = "resolve" /\ stage' = "resolve" /\ at \in 1..Len(Chosen) /\ s \in Slugs
        /\ UNCHANGED <<graph, added, unresolved, plugins>> /\ at' = at + 1
        /\ next[s] > Len(graph[s]) /\ next' = [next EXCEPT ![s] = 1]
    BY <1>b, <1>2 DEF ResolveNext
  <2>2. \A t \in Slugs : next'[t] = 1
    BY <1>2, <2>1 DEF Resolving
  <2>3. ToSet(graph[s]) \subseteq Seen(s)
    <3>1. graph[s] \in Seq(Slugs) /\ next[s] \in Nat
      BY <1>2, <2>1, GraphTyped
    <3>2. \A k \in 1..Len(graph[s]) : k \in 1..next[s] - 1
      BY <2>1, <3>1
    <3>3. ToSet(graph[s]) = {graph[s][k] : k \in 1..Len(graph[s])}
      BY <3>1 DEF ToSet
    <3> QED BY <3>2, <3>3 DEF Seen
  <2>4. \A t \in Slugs : Seen(t)' = {}
    BY <2>2 DEF Seen
  <2>5. ASSUME ~unresolved, NEW i \in 1..Len(Chosen), i < at + 1,
               NEW d \in ToSet(graph[Chosen[i]])
        PROVE  Had(Chosen[i], d)
    <3>1. CASE i < at
      BY <2>1, <2>5, <3>1 DEF Resolving
    <3>2. CASE i = at
      BY <2>1, <2>3, <2>5, <3>2 DEF Resolving
    <3> QED BY <1>2, <2>5, <3>1, <3>2
  <2>6. ~unresolved' => \A i \in 1..Len(Chosen) :
            /\ i < at' => \A d \in ToSet(graph[Chosen[i]]) : Had(Chosen[i], d)'
            /\ i = at' => \A d \in Seen(Chosen[i])' : Had(Chosen[i], d)'
    <3>1. \A i \in 1..Len(Chosen) : Seen(Chosen[i])' = {}
      BY <1>1, <1>5, <2>4
    <3>2. ASSUME ~unresolved', NEW i \in 1..Len(Chosen), i < at'
          PROVE  \A d \in ToSet(graph[Chosen[i]]) : Had(Chosen[i], d)'
      <4>1. ~unresolved /\ i < at + 1
        BY <2>1, <3>2
      <4>2. \A d \in ToSet(graph[Chosen[i]]) : Had(Chosen[i], d)
        BY <2>5, <4>1
      <4> QED BY <1>1, <1>3, <2>1, <4>2
    <3> QED BY <3>1, <3>2
  <2>7. at' <= Len(Chosen') + 1 /\ plugins' = <<>>
    BY <1>1, <1>2, <2>1 DEF Resolving
  <2> QED BY <1>1, <1>3, <1>4, <2>1, <2>2, <2>6, <2>7 DEF Resolving
<1>c. CASE Resolved
  <2>1. /\ stage = "resolve" /\ at > Len(Chosen) /\ stage' \in {"failed", "make"}
        /\ UNCHANGED <<graph, added, plugins>> /\ (stage' = "make" => ~unresolved)
    BY <1>c DEF Resolved
  <2>2. stage' = "make" => \A s \in Selected : \A d \in ToSet(graph[s]) : Had(s, d)
    <3>1. stage' = "make" => \A i \in 1..Len(Chosen) : \A d \in ToSet(graph[Chosen[i]]) : Had(Chosen[i], d)
      <4>1. \A i \in 1..Len(Chosen) : i < at
        BY <1>2, <2>1
      <4> QED BY <2>1, <4>1 DEF Resolving
    <3> QED BY <1>2, <3>1
  <2> QED BY <1>1, <1>3, <1>4, <2>1, <2>2 DEF Resolving
<1>d. CASE MakePlugin \/ Made
  <2>1. stage = "make" /\ stage' \in {"make", "built"} /\ UNCHANGED <<graph, added>>
    BY <1>d DEF MakePlugin, Made
  <2> QED BY <1>1, <1>3, <1>4, <2>1 DEF Resolving
<1>e. CASE Collected
  <2>1. /\ UNCHANGED <<graph, next, at, added, unresolved, plugins>> /\ Calling = {}
        /\ stage \in {"collect", "lookup"} /\ stage' \in {"resolve", "returned"}
    BY <1>e DEF Collected, Calling, Collecting
  <2>2. \A t \in Slugs : next'[t] = 1
    BY <2>1 DEF Nested
  <2>3. \A t \in Slugs : Seen(t)' = {}
    BY <2>2 DEF Seen
  <2>4. \A i \in 1..Len(Chosen) : Seen(Chosen[i])' = {}
    BY <1>1, <1>5, <2>3
  <2>5. at' = 1 /\ added' = <<>> /\ plugins' = <<>> /\ ~unresolved'
    BY <2>1 DEF Resolving
  <2>6. at' <= Len(Chosen') + 1 /\ \A i \in 1..Len(Chosen) : ~(i < at')
    BY <1>1, <1>2, <2>5
  <2> QED BY <1>1, <1>4, <2>1, <2>2, <2>4, <2>5, <2>6 DEF Resolving
<1>f. CASE /\ UNCHANGED <<at, added, unresolved, plugins>>
           /\ stage \notin {"resolve", "make", "built", "failed"}
           /\ stage' \notin {"resolve", "make", "built", "failed"}
  BY <1>3, <1>4, <1>f DEF Resolving
<1> QED
  BY <1>a, <1>b, <1>c, <1>d, <1>e, <1>f
     DEF CompositionNext, validate_pattern_config, CheckRoot, CheckDep, CheckReturn, Checked,
         SearchRoot, SearchSkip, SearchDep, SearchReturn, NoCycle, CycleCloses, Climb,
         CycleReported, Report, collect_missing_dependencies, from_pattern_config, CollectRoot,
         CollectDep, CollectReturn, Collecting

\* The slugs whose plugins are made, first the chosen ones.
LEMMA SlugsTyped ==
  ASSUME CompositionTypeOK, NEW slugs, slugs = Chosen \o added
  PROVE  /\ slugs \in Seq(Slugs) /\ Len(slugs) = Len(Chosen) + Len(added)
         /\ Len(Chosen) \in Nat /\ Len(added) \in Nat
         /\ \A d : d \in There <=> \E i \in 1..Len(slugs) : slugs[i] = d
         /\ added = <<>> => Len(slugs) = Len(Chosen) /\ \A i \in 1..Len(Chosen) : slugs[i] = Chosen[i]
<1>1. /\ Chosen \in Seq(Slugs) /\ added \in Seq(Slugs) /\ Len(Chosen) \in Nat /\ Len(added) \in Nat
      /\ Selected = {Chosen[i] : i \in 1..Len(Chosen)}
  BY ChosenTyped DEF CompositionTypeOK
<1>2. /\ slugs \in Seq(Slugs) /\ Len(slugs) = Len(Chosen) + Len(added)
      /\ \A i \in 1..Len(slugs) :
            slugs[i] = IF i <= Len(Chosen) THEN Chosen[i] ELSE added[i - Len(Chosen)]
  BY <1>1
<1>3. ToSet(added) = {added[i] : i \in 1..Len(added)}
  BY <1>1 DEF ToSet
<1>4. ASSUME NEW i \in 1..Len(slugs) PROVE slugs[i] \in There
  <2>1. CASE i <= Len(Chosen)
    <3>1. i \in 1..Len(Chosen)
      BY <1>1, <1>2, <2>1
    <3> QED BY <1>1, <1>2, <2>1, <3>1 DEF There
  <2>2. CASE ~(i <= Len(Chosen))
    <3>1. i - Len(Chosen) \in 1..Len(added)
      BY <1>1, <1>2, <2>2
    <3> QED BY <1>2, <1>3, <2>2, <3>1 DEF There
  <2> QED BY <2>1, <2>2
<1>5. ASSUME NEW d \in There PROVE \E i \in 1..Len(slugs) : slugs[i] = d
  <2>1. CASE d \in Selected
    <3>1. PICK i \in 1..Len(Chosen) : d = Chosen[i]
      BY <1>1, <2>1
    <3>2. i \in 1..Len(slugs) /\ i <= Len(Chosen)
      BY <1>1, <1>2
    <3> QED BY <1>2, <3>1, <3>2
  <2>2. CASE d \in ToSet(added)
    <3>1. PICK i \in 1..Len(added) : d = added[i]
      BY <1>3, <2>2
    <3>2. /\ Len(Chosen) + i \in 1..Len(slugs) /\ ~(Len(Chosen) + i <= Len(Chosen))
          /\ Len(Chosen) + i - Len(Chosen) = i
      BY <1>1, <1>2
    <3> QED BY <1>2, <3>1, <3>2
  <2> QED BY <2>1, <2>2 DEF There
<1>6. \A d : d \in There <=> \E i \in 1..Len(slugs) : slugs[i] = d
  BY <1>4, <1>5
<1>7. added = <<>> => Len(slugs) = Len(Chosen) /\ \A i \in 1..Len(Chosen) : slugs[i] = Chosen[i]
  BY <1>1, <1>2
<1> QED BY <1>1, <1>2, <1>6, <1>7

LEMMA MakingStep ==
  ASSUME CompositionTypeOK, Resolving, Making, CompositionNext PROVE Making'
<1> USE DEF config, calls, checks, search, lookup, making
<1> PICK slugs : slugs = Chosen \o added
  OBVIOUS
<1>1. UNCHANGED input /\ Chosen' = Chosen /\ Selected' = Selected
  BY InputKept, InputFixed
<1>2. /\ slugs \in Seq(Slugs) /\ Len(slugs) \in Nat /\ at \in Nat \ {0}
      /\ There = {slugs[i] : i \in 1..Len(slugs)} /\ plugins \in Seq(Slugs)
  <2>1. slugs \in Seq(Slugs)
    BY SlugsTyped
  <2>2. There = {slugs[i] : i \in 1..Len(slugs)}
    <3>1. \A d : d \in There <=> \E i \in 1..Len(slugs) : slugs[i] = d
      BY SlugsTyped
    <3> QED BY <3>1
  <2> QED BY <2>1, <2>2 DEF CompositionTypeOK
<1>3. UNCHANGED added => There' = There /\ (Chosen \o added)' = slugs
  BY <1>1 DEF There
<1>a. CASE Resolved
  <2>1. at' = 1 /\ plugins' = <<>> /\ UNCHANGED added /\ stage' # "built"
    BY <1>a DEF Resolved, Resolving
  <2>2. ToSet(plugins') = {}
    BY <2>1 DEF ToSet
  <2>3. at' <= Len(slugs) + 1 /\ {slugs[i] : i \in 1..at' - 1} = {}
    BY <1>2, <2>1
  <2> QED BY <1>1, <1>3, <2>1, <2>2, <2>3 DEF Making
<1>b. CASE MakePlugin
  <2>1. /\ stage = "make" /\ stage' = "make" /\ UNCHANGED added /\ at \in 1..Len(slugs) /\ at' = at + 1
        /\ plugins' = IF slugs[at] \in input.registry THEN Append(plugins, slugs[at]) ELSE plugins
    BY <1>b, <1>2 DEF MakePlugin
  <2>2. ToSet(plugins') = ToSet(plugins) \cup ({slugs[at]} \cap input.registry)
    BY <1>2, <2>1, AppendedSet
  <2>3. {slugs[i] : i \in 1..at + 1 - 1} = {slugs[i] : i \in 1..at - 1} \cup {slugs[at]}
    <3>1. 1..at + 1 - 1 = (1..at - 1) \cup {at}
      BY <1>2
    <3> QED BY <3>1
  <2>4. ToSet(plugins) = {slugs[i] : i \in 1..at - 1} \cap input.registry
    BY <2>1 DEF Making
  <2>5. at' <= Len(slugs) + 1
    BY <1>2, <2>1
  <2>6. ToSet(plugins') = {slugs[i] : i \in 1..at' - 1} \cap input.registry
    BY <2>1, <2>2, <2>3, <2>4
  <2> QED BY <1>1, <1>3, <2>1, <2>5, <2>6 DEF Making
<1>c. CASE Made
  <2>1. /\ stage = "make" /\ stage' = "built" /\ UNCHANGED <<at, added, plugins>> /\ at > Len(slugs)
    BY <1>c DEF Made
  <2>2. at <= Len(slugs) + 1 /\ ToSet(plugins) = {slugs[i] : i \in 1..at - 1} \cap input.registry
    BY <2>1 DEF Making
  <2>3. at - 1 = Len(slugs)
    BY <1>2, <2>1, <2>2
  <2> QED BY <1>1, <1>2, <1>3, <2>1, <2>2, <2>3 DEF Making
<1>d. CASE stage' \notin {"make", "built"}
  BY <1>d DEF Making
<1> QED
  BY <1>a, <1>b, <1>c, <1>d
     DEF CompositionNext, validate_pattern_config, CheckRoot, CheckDep, CheckReturn, Checked,
         SearchRoot, SearchSkip, SearchDep, SearchReturn, NoCycle, CycleCloses, Climb,
         CycleReported, Report, collect_missing_dependencies, from_pattern_config, CollectRoot,
         CollectDep, CollectReturn, Collected, Collecting, ResolveDep, ResolveNext

LEMMA FaithfulStep ==
  ASSUME CompositionTypeOK, Nested, Checking, Gathering, Resolving, Making, Faithful,
         CompositionNext
  PROVE  Faithful'
<1> USE DEF config, calls, checks, search, lookup, making
<1>1. /\ UNCHANGED input /\ Chosen' = Chosen /\ Selected' = Selected /\ input.slugs' = input.slugs
  BY InputKept, InputFixed
<1> SUFFICES ASSUME valid', input.slugs # <<>> PROVE Faithful'
  BY <1>1 DEF Faithful
<1>2. Chosen \in Seq(Slugs) /\ Len(Chosen) \in Nat /\ Selected = {Chosen[i] : i \in 1..Len(Chosen)}
  BY ChosenTyped
<1>a. CASE NoCycle \/ CycleReported
  <2>1. UNCHANGED <<missing, added, unresolved>> /\ stage' = "validated" /\ stage \in {"search", "climb"}
    BY <1>a DEF NoCycle, CycleReported, Report
  <2> QED BY <1>1, <2>1 DEF Gathering, Resolving, Faithful
<1>b. CASE validate_pattern_config
  <2>1. /\ UNCHANGED <<missing, added, unresolved>> /\ stage' \in {"validated", "check"}
        /\ stage = "created"
    BY <1>b DEF validate_pattern_config
  <2> QED BY <1>1, <2>1 DEF Gathering, Resolving, Faithful
<1>3. CASE valid
  <2>1. /\ missing = {} /\ added = <<>> /\ ~unresolved /\ stage # "failed"
        /\ stage = "make" => Len(plugins) = at - 1 /\ \A i \in 1..at - 1 : plugins[i] = Chosen[i]
        /\ stage = "built" => plugins = Chosen
    BY <1>3 DEF Faithful
  <2>2. Selected \subseteq input.registry /\ AllMet
    BY <1>3 DEF Checking
  <2>c. CASE CollectDep
    <3>1. /\ AtDep /\ UNCHANGED <<added, unresolved>> /\ stage' \in {"collect", "lookup"} /\ Walked
      BY <2>c DEF CollectDep, Gathering, Collecting
    <3>2. Top \in Calling /\ Calling \subseteq visited /\ Dep \in ToSet(graph[Top])
      BY <2>c, <3>1, TopTyped DEF Nested, Calling, Collecting, AtDep, CollectDep
    <3>3. Top \in Selected /\ Selected \subseteq scope[Top] /\ Met(Top, Dep)
      BY <2>1, <2>2, <3>1, <3>2 DEF Walked, AllMet
    <3>4. missing' = {}
      BY <2>1, <2>c, <3>3 DEF CollectDep, Met
    <3> QED BY <1>1, <2>1, <3>1, <3>4 DEF Faithful
  <2>d. CASE ResolveDep
    <3>1. UNCHANGED <<missing, added, unresolved>> /\ stage' = "resolve"
      BY <2>1, <2>d DEF ResolveDep
    <3> QED BY <1>1, <2>1, <3>1 DEF Faithful
  <2>e. CASE Resolved
    <3>1. /\ UNCHANGED <<missing, added, unresolved>> /\ stage' = "make" /\ at' = 1 /\ plugins' = <<>>
      BY <2>1, <2>e DEF Resolved, Resolving
    <3>2. Len(plugins') = at' - 1 /\ \A i \in 1..at' - 1 : plugins'[i] = Chosen[i]
      BY <3>1
    <3> QED BY <1>1, <2>1, <3>1, <3>2 DEF Faithful
  <2>f. CASE MakePlugin
    <3> PICK slugs : slugs = Chosen \o added
      OBVIOUS
    <3>1. Len(slugs) = Len(Chosen) /\ \A i \in 1..Len(Chosen) : slugs[i] = Chosen[i]
      BY <2>1, SlugsTyped
    <3>2. /\ UNCHANGED <<missing, added, unresolved>> /\ stage = "make" /\ stage' = "make"
          /\ at \in 1..Len(Chosen) /\ at' = at + 1
          /\ plugins' = IF slugs[at] \in input.registry THEN Append(plugins, slugs[at]) ELSE plugins
      BY <1>2, <2>f, <3>1 DEF MakePlugin, CompositionTypeOK
    <3>3. slugs[at] = Chosen[at] /\ Chosen[at] \in input.registry /\ Chosen[at] \in Slugs
      BY <1>2, <2>2, <3>1, <3>2
    <3>4. plugins' = Append(plugins, Chosen[at]) /\ plugins \in Seq(Slugs) /\ Len(plugins) = at - 1
      BY <2>1, <3>2, <3>3 DEF CompositionTypeOK
    <3>5. Len(plugins') = at /\ at' - 1 = at /\ plugins'[at] = Chosen[at]
      BY <3>2, <3>3, <3>4
    <3>6. \A i \in 1..at : plugins'[i] = Chosen[i]
      <4> TAKE i \in 1..at
      <4>1. CASE i = at
        BY <3>5, <4>1
      <4>2. CASE i # at
        <5>1. i \in 1..at - 1
          BY <3>2, <4>2
        <5>2. plugins'[i] = plugins[i]
          BY <3>3, <3>4, <5>1
        <5> QED BY <2>1, <3>2, <5>1, <5>2
      <4> QED BY <4>1, <4>2
    <3> QED BY <1>1, <2>1, <3>2, <3>5, <3>6 DEF Faithful
  <2>g. CASE Made
    <3> PICK slugs : slugs = Chosen \o added
      OBVIOUS
    <3>1. Len(slugs) = Len(Chosen)
      BY <2>1, SlugsTyped
    <3>2. /\ UNCHANGED <<missing, added, unresolved, plugins>> /\ stage = "make" /\ stage' = "built"
          /\ at > Len(Chosen)
      BY <2>g, <3>1 DEF Made
    <3>3. at <= Len(Chosen) + 1 /\ at \in Nat
      BY <3>1, <3>2 DEF Making, CompositionTypeOK
    <3>4. Len(plugins) = Len(Chosen) /\ \A i \in 1..Len(Chosen) : plugins[i] = Chosen[i]
      <4>1. at - 1 = Len(Chosen)
        BY <1>2, <3>2, <3>3
      <4> QED BY <2>1, <3>2, <4>1
    <3>5. plugins \in Seq(Slugs)
      BY DEF CompositionTypeOK
    <3>6. plugins = Chosen
      <4>1. plugins \in [1..Len(Chosen) -> Slugs]
        BY <3>4, <3>5
      <4>2. Chosen \in [1..Len(Chosen) -> Slugs]
        BY <1>2
      <4>3. plugins = [i \in 1..Len(Chosen) |-> plugins[i]]
        BY <4>1
      <4>4. Chosen = [i \in 1..Len(Chosen) |-> Chosen[i]]
        BY <4>2
      <4>5. \A i \in 1..Len(Chosen) : plugins[i] = Chosen[i]
        BY <3>4
      <4> QED BY <4>3, <4>4, <4>5, Zenon
    <3> QED BY <1>1, <2>1, <3>2, <3>6 DEF Faithful
  <2>h. CASE /\ UNCHANGED <<missing, added, unresolved>>
             /\ stage' \notin {"make", "built", "failed"}
    BY <1>1, <2>1, <2>h DEF Faithful
  <2> QED
    BY <1>a, <1>b, <2>c, <2>d, <2>e, <2>f, <2>g, <2>h
       DEF CompositionNext, CheckRoot, CheckDep, CheckReturn, Checked, SearchRoot, SearchSkip,
           SearchDep, SearchReturn, CycleCloses, Climb, collect_missing_dependencies,
           from_pattern_config, CollectRoot, CollectReturn, Collected, Collecting, ResolveNext
<1>4. valid \/ validate_pattern_config \/ NoCycle \/ CycleReported
  BY DEF CompositionNext, CheckRoot, CheckDep, CheckReturn, Checked, SearchRoot, SearchSkip,
         SearchDep, SearchReturn, CycleCloses, Climb, collect_missing_dependencies,
         from_pattern_config, CollectRoot, CollectDep, CollectReturn, Collected, Collecting,
         ResolveDep, ResolveNext, Resolved, MakePlugin, Made
<1> QED BY <1>a, <1>b, <1>3, <1>4

-----------------------------------------------------------------------------
(* The invariant and what follows from it.                                 *)

LEMMA CompositionInvInit == CompositionInit => CompositionInv
<1> SUFFICES ASSUME CompositionInit PROVE CompositionInv
  OBVIOUS
<1>1. CompositionTypeOK
  BY TypeInit
<1>2. /\ stage = "created" /\ ~valid /\ stack = <<>> /\ Calling = {} /\ visited = {} /\ missing = {}
      /\ next = [s \in Slugs |-> 1] /\ at = 1 /\ added = <<>> /\ plugins = <<>> /\ ~unresolved
      /\ colour = [s \in Selected |-> "white"] /\ parent = [s \in Selected |-> None]
  BY DEF CompositionInit, Calling
<1>3. Nested
  BY <1>2 DEF Nested, OneCallEach
<1>4. Checking /\ Searching /\ Climbing /\ CycleFound /\ Making
  BY <1>2 DEF Checking, Searching, Climbing, CycleFound, Making
<1>5. Gathering
  BY <1>2 DEF Gathering, Lacking, Collecting
<1>6. Resolving
  <2>1. ToSet(added) = {}
    BY <1>2 DEF ToSet
  <2> QED BY <1>2, <2>1 DEF Resolving
<1>7. Faithful
  BY <1>2 DEF Faithful
<1> QED BY <1>1, <1>3, <1>4, <1>5, <1>6, <1>7 DEF CompositionInv

LEMMA CompositionInvStep == CompositionInv /\ [CompositionNext]_compositionVars => CompositionInv'
<1> SUFFICES ASSUME CompositionInv, [CompositionNext]_compositionVars PROVE CompositionInv'
  OBVIOUS
<1>1. CompositionTypeOK'
  BY TypeStep DEF CompositionInv
<1>2. CASE CompositionNext
  BY <1>1, <1>2, NestedStep, CheckingStep, SearchingStep, ClimbingStep, CycleFoundStep,
     GatheringStep, ResolvingStep, MakingStep, FaithfulStep DEF CompositionInv
<1>3. CASE UNCHANGED compositionVars
  <2> USE <1>3 DEF compositionVars, config, calls, checks, search, lookup, making, CompositionInv
  <2>1. /\ Chosen' = Chosen /\ Selected' = Selected /\ detect_conflicts' = detect_conflicts
        /\ \A s : DepsOf(s)' = DepsOf(s) /\ Seen(s)' = Seen(s)
        /\ \A s, t : SameCategory(s, t)' = SameCategory(s, t)
    BY InputFixed DEF Seen
  <2>2. /\ Calling' = Calling /\ There' = There /\ Black' = Black /\ OneCallEach' = OneCallEach
        /\ \A s, t : /\ Met(s, t)' = Met(s, t) /\ Held(s, t)' = Held(s, t)
                     /\ Had(s, t)' = Had(s, t)
        /\ \A M : Needed(M)' = Needed(M)
    BY <2>1 DEF Calling, There, Black, OneCallEach, Met, Held, Had, Needed
  <2>3. Nested' /\ Checking' /\ CycleFound'
    BY <2>1, <2>2 DEF Nested, Checking, CycleFound, AllMet
  <2>4. Searching' /\ Climbing'
    BY <2>1, <2>2 DEF Searching, Settled, Climbing
  <2>5. Gathering'
    BY <2>1, <2>2 DEF Gathering, Lacking, Walked, Collecting
  <2>6. Resolving'
    <3>1. \A i \in 1..Len(Chosen) : Seen(Chosen[i])' = Seen(Chosen[i])
      BY <2>1
    <3> QED BY <2>1, <2>2, <3>1 DEF Resolving
  <2>7. Making' /\ Faithful'
    BY <2>1, <2>2 DEF Making, Faithful
  <2> QED BY <1>1, <2>3, <2>4, <2>5, <2>6, <2>7
<1> QED BY <1>2, <1>3

LEMMA CompositionInvariant == CompositionSpec => []CompositionInv
<1> QED BY CompositionInvInit, CompositionInvStep, PTL DEF CompositionSpec

(* Every walk, list and set of a composition stays within the slugs there  *)
(* are, whatever the graph and the order of the walks.                     *)
THEOREM CompositionTypeCorrect == CompositionSpec => []CompositionTypeOK
<1>1. CompositionInv => CompositionTypeOK
  BY DEF CompositionInv
<1> QED BY <1>1, CompositionInvariant, PTL

(* _detect_cycle finds a path exactly if there is a cycle, in every graph. *)
THEOREM CyclesAreFound == CompositionSpec => []CycleFound
<1>1. CompositionInv => CycleFound
  BY DEF CompositionInv
<1> QED BY <1>1, CompositionInvariant, PTL

(* collect_missing_dependencies returns the least closed set, in every     *)
(* graph and in every order of its walk.                                   *)
THEOREM MissingIsLeastClosed == CompositionSpec => []MissingIsClosure
<1>1. CompositionInv => MissingIsClosure
  <2> SUFFICES ASSUME CompositionInv, stage \in {"returned", "resolve"}
               PROVE  missing = {d \in Slugs : \A M \in SUBSET Slugs : Needed(M) \subseteq M => d \in M}
    BY DEF MissingIsClosure
  <2>1. /\ missing \subseteq Slugs /\ Lacking
        /\ \A s \in Selected \cup missing : \A d \in ToSet(graph[s]) : Held(s, d)
    BY DEF CompositionInv, Gathering, CompositionTypeOK
  <2>2. Needed(missing) \subseteq missing
    BY <2>1 DEF Needed, Held, Met
  <2> QED BY <2>1, <2>2 DEF Lacking
<1> QED BY <1>1, CompositionInvariant, PTL

(* What validate_pattern_config accepts is built as it was listed, without *)
(* a conflict, whatever plugins the registry holds.                        *)
THEOREM ValidConfigurationsAreBuilt == CompositionSpec => []ValidMeansBuilt
<1>1. CompositionInv => ValidMeansBuilt
  <2> SUFFICES ASSUME CompositionInv, stage \in {"built", "failed"}, valid, input.slugs # <<>>
               PROVE  /\ stage = "built" /\ plugins = input.slugs
                      /\ \A i, j \in DOMAIN plugins :
                            /\ <<plugins[i], plugins[j]>> \notin input.foes
                            /\ i # j /\ input.category[plugins[i]] \in _SINGLETON_CATEGORIES =>
                                  input.category[plugins[j]] # input.category[plugins[i]]
    BY DEF ValidMeansBuilt
  <2>1. stage = "built" /\ plugins = Chosen /\ Chosen = input.slugs
    BY DEF CompositionInv, Faithful, Chosen
  <2>2. ~detect_conflicts /\ Selected \subseteq input.registry
    BY DEF CompositionInv, Checking
  <2>3. /\ Chosen \in Seq(Slugs) /\ DOMAIN Chosen = 1..Len(Chosen)
        /\ \A i \in DOMAIN Chosen : Chosen[i] \in Selected
    BY ChosenTyped DEF CompositionInv
  <2>4. ASSUME NEW i \in DOMAIN plugins, NEW j \in DOMAIN plugins
        PROVE  /\ <<plugins[i], plugins[j]>> \notin input.foes
               /\ i # j /\ input.category[plugins[i]] \in _SINGLETON_CATEGORIES =>
                     input.category[plugins[j]] # input.category[plugins[i]]
    <3>1. i \in DOMAIN Chosen /\ j \in DOMAIN Chosen /\ plugins[i] = Chosen[i] /\ plugins[j] = Chosen[j]
      BY <2>1
    <3> QED BY <2>2, <2>3, <3>1 DEF detect_conflicts, SameCategory
  <2>5. stage = "built" /\ plugins = input.slugs
    BY <2>1
  <2> QED BY <2>4, <2>5
<1> QED BY <1>1, CompositionInvariant, PTL

(* from_pattern_config builds no orchestrator that lacks a dependency, and *)
(* adds no pattern beside another of its category.                         *)
THEOREM DependenciesAreThere == CompositionSpec => []BuiltWithDependencies
<1>1. CompositionInv => BuiltWithDependencies
  <2> SUFFICES ASSUME CompositionInv, stage = "built"
               PROVE  /\ \A s \in Selected : \A d \in ToSet(DepsOf(s)) :
                            d \in Selected \cup ToSet(plugins) \/ SameCategory(s, d)
                      /\ \A d \in ToSet(plugins) \ Selected : \A t \in ToSet(plugins) :
                            t # d => input.category[t] # input.category[d]
    BY DEF BuiltWithDependencies
  <2>1. ToSet(plugins) = There \cap input.registry
    BY DEF CompositionInv, Making
  <2>2. /\ \A s \in Selected : \A d \in ToSet(graph[s]) : Had(s, d)
        /\ \A d \in ToSet(added) : /\ d \in input.registry
                                   /\ \A t \in There : t # d => ~SameCategory(t, d)
    BY DEF CompositionInv, Resolving
  <2>3. \A s \in Selected : graph[s] = DepsOf(s)
    BY GraphTyped DEF CompositionInv
  <2>4. \A s \in Selected : \A d \in ToSet(DepsOf(s)) :
           d \in Selected \cup ToSet(plugins) \/ SameCategory(s, d)
    BY <2>1, <2>2, <2>3 DEF Had, There
  <2>5. \A d \in ToSet(plugins) \ Selected : \A t \in ToSet(plugins) :
           t # d => input.category[t] # input.category[d]
    BY <2>1, <2>2 DEF There, SameCategory
  <2> QED BY <2>4, <2>5
<1> QED BY <1>1, CompositionInvariant, PTL

-----------------------------------------------------------------------------
(* The inductive invariant of a run.                                       *)

InPhase == {"pre", "execute", "post", "retry", "process"}
Looping == InPhase \cup {"control", "boundary"}

(* The loop is left with the status it has, so until then it is the        *)
(* initial one; the end changes nothing of the result.                     *)
Outcome ==
  /\ pc \in Looping \cup {"activate"} => status = "completed" /\ ~err /\ snap = NoSnap
  /\ pc = "completion" => status = "completed" /\ snap = NoSnap
  /\ pc \in {"acterror", "onerror"} => status = "failed" /\ err /\ snap = NoSnap
  /\ pc \in {"deactivate", "returned"} =>
        /\ [status |-> status, error |-> err] \in Results
        /\ status = "paused" <=> snap # NoSnap

\* Plugins live from before the loop to after its last hook.
Lives ==
  /\ pc \in {"activate", "acterror"} => deactive = 0
  /\ pc \in Looping \cup {"completion", "onerror"} => active = Len(PluginSeq) /\ deactive = 0
  /\ pc = "returned" => deactive = active

\* A phase belongs to an iteration that is left and to its sequence.
Inside ==
  /\ pc \in Looping => it < MaxIterations
  /\ pc \in InPhase => ph <= Len(seq)

(* Phases executed since the cancel: the one that was let through before   *)
(* it, and its retry.                                                      *)
Overrun ==
  /\ ~cancel => late = 0
  /\ pc \in {"activate", "pre", "execute"} => late = 0
  /\ pc \in {"post", "retry"} => late <= 1
  /\ late <= 2

\* A hook that failed three times in a row is not called again.
Patience ==
  /\ pc \in Looping \cup {"activate"} =>
        \A k \in Plugins \X HookPoint : errs[k] < _MAX_CONSECUTIVE_HOOK_ERRORS
  /\ pc \in {"completion", "onerror"} =>
        \A g \in Plugins : errs[<<g, Point>>] < _MAX_CONSECUTIVE_HOOK_ERRORS

IInv == OrchestratorTypeOK /\ Outcome /\ Lives /\ Inside /\ Overrun /\ Patience

USE OrchestratorAssumption DEF NoSnap, _MAX_CONSECUTIVE_HOOK_ERRORS

LEMMA StartsTyped ==
  \A s \in Starts : s.iteration \in 0..MaxIterations /\ s.phase \in 1..4
                       /\ s.fail_on_hook_error \in BOOLEAN
  OBVIOUS

LEMMA InvInit == Init => IInv
<1> SUFFICES ASSUME Init PROVE IInv
  OBVIOUS
<1>1. OrchestratorTypeOK
  <2>1. it \in 0..MaxIterations /\ ph \in Nat \ {0}
    <3>1. start \in Starts /\ it = start.iteration /\ ph = start.phase
      BY DEF Init
    <3> QED
      BY <3>1, StartsTyped
  <2>2. seq \in Seq(Phases)
    BY DEF Init, _PHASE_SEQUENCE, Phases
  <2>3. errs \in [Plugins \X HookPoint -> 0.._MAX_CONSECUTIVE_HOOK_ERRORS]
    BY DEF Init
  <2>4. active \in 0..Len(PluginSeq) /\ deactive \in 0..active
    BY DEF Init
  <2>5. /\ err \in BOOLEAN /\ cancel \in BOOLEAN /\ pause \in BOOLEAN
        /\ exceeded \in BOOLEAN /\ stop \in BOOLEAN /\ override \in BOOLEAN
    BY Zenon DEF Init
  <2>6. snap \in NoSnap..MaxIterations
    BY DEF Init
  <2> QED
    BY <2>1, <2>2, <2>3, <2>4, <2>5, <2>6 DEF Init, OrchestratorTypeOK
<1>2. Outcome /\ Lives /\ Inside /\ Overrun
  BY DEF Init, Outcome, Lives, Inside, Overrun, InPhase, Looping
<1>3. Patience
  BY DEF Init, Patience, InPhase, Looping
<1> QED
  BY <1>1, <1>2, <1>3 DEF IInv

(* The outside events and the steps that touch only the plugins.           *)
LEMMA EventSteps == ASSUME IInv, SetCancel \/ SetPause PROVE IInv'
<1> USE DEF IInv, OrchestratorTypeOK, life, meta, ghost
<1>1. CASE SetCancel
  BY <1>1 DEF SetCancel, Outcome, Lives, Inside, Overrun, Patience, Point
<1>2. CASE SetPause
  BY <1>2 DEF SetPause, Outcome, Lives, Inside, Overrun, Patience, Point
<1> QED
  BY <1>1, <1>2

(* Plugins come and go; the loop is entered and the result returned.       *)
LEMMA PluginSteps ==
  ASSUME IInv,
         Activate \/ ActivateRaises \/ ActivationErrorHook \/ Activated \/ Deactivate \/ Return
  PROVE  IInv'
<1> USE DEF IInv, OrchestratorTypeOK, rtState, life, meta, ghost, InPhase, Looping
<1>1. CASE Activate
  BY <1>1 DEF Activate, Outcome, Lives, Inside, Overrun, Patience, Point
<1>2. CASE ActivateRaises
  BY <1>2 DEF ActivateRaises, Outcome, Lives, Inside, Overrun, Patience, Point
<1>3. CASE ActivationErrorHook
  BY <1>3 DEF ActivationErrorHook, Outcome, Lives, Inside, Overrun, Patience, Point, Results
<1>4. CASE Activated
  BY <1>4 DEF Activated, Outcome, Lives, Inside, Overrun, Patience, Point, HookPoint
<1>5. CASE Deactivate
  BY <1>5 DEF Deactivate, Outcome, Lives, Inside, Overrun, Patience, Point
<1>6. CASE Return
  BY <1>6 DEF Return, Outcome, Lives, Inside, Overrun, Patience, Point
<1> QED
  BY <1>1, <1>2, <1>3, <1>4, <1>5, <1>6

(* The steps of the loop that call no hook and execute no phase.           *)
LEMMA LoopSteps ==
  ASSUME IInv,
         LoopControl \/ LoopControlRaises \/ NoPhaseToResume \/ Interrupt \/ PassBoundary
           \/ Process \/ ProcessRaises
  PROVE  IInv'
<1> USE DEF IInv, OrchestratorTypeOK, rtState, life, meta, ghost, InPhase, Looping
<1>1. CASE LoopControl
  <2>1. PICK s : s = IF custom' = NoCustom THEN _PHASE_SEQUENCE ELSE PhaseSequence(custom')
    OBVIOUS
  <2>2. custom' \in CustomSeqs \cup {NoCustom} /\ override' \in BOOLEAN
    <3>1. custom' \in CustomSeqs \cup {custom, NoCustom} /\ override' \in {override, TRUE}
      BY <1>1, Zenon DEF LoopControl
    <3> QED
      BY <3>1
  <2>3. s \in Seq(Phases)
    <3>1. _PHASE_SEQUENCE \in Seq(Phases)
      BY DEF _PHASE_SEQUENCE, Phases
    <3> QED
      BY <2>1, <2>2, <3>1, SequenceAssumption, Zenon
  <2>4. \/ UNCHANGED <<status, err, ph, seq>> /\ Leave
        \/ Raise /\ UNCHANGED <<ph, seq>>
        \/ /\ s # <<>> /\ seq' = s /\ ph' = FirstPhase /\ pc' = "boundary"
           /\ UNCHANGED <<status, err, hi>>
    BY <1>1, <2>1, Zenon DEF LoopControl
  <2>5. /\ pc = "control"
        /\ UNCHANGED <<it, snap, rtState, life, partial, errs, stop, start, ghost>>
    BY <1>1 DEF LoopControl
  <2>6. FirstPhase \in Nat \ {0}
    BY StartsTyped DEF FirstPhase
  <2> HIDE DEF FirstPhase
  <2>7. CASE UNCHANGED <<status, err, ph, seq>> /\ Leave
    BY <2>2, <2>5, <2>7 DEF Leave, Outcome, Lives, Inside, Overrun, Patience, Point, Results,
       HookPoint
  <2>8. CASE Raise /\ UNCHANGED <<ph, seq>>
    BY <2>2, <2>5, <2>8 DEF Raise, Outcome, Lives, Inside, Overrun, Patience, Point, HookPoint
  <2>9. CASE /\ seq' = s /\ ph' = FirstPhase /\ pc' = "boundary"
             /\ UNCHANGED <<status, err, hi>>
    BY <2>2, <2>3, <2>5, <2>6, <2>9 DEF Outcome, Lives, Inside, Overrun, Patience
  <2> QED
    BY <2>4, <2>7, <2>8, <2>9
<1>2. CASE LoopControlRaises
  BY <1>2 DEF LoopControlRaises, Raise, Outcome, Lives, Inside, Overrun, Patience, Point, HookPoint
<1>3. CASE NoPhaseToResume
  BY <1>3 DEF NoPhaseToResume, NextPhase, Leave, Outcome, Lives, Inside, Overrun, Patience,
     Point, Results, HookPoint
<1>4. CASE Interrupt
  BY <1>4 DEF Interrupt, Leave, Outcome, Lives, Inside, Overrun, Patience, Point, Results, HookPoint
<1>5. CASE PassBoundary
  BY <1>5 DEF PassBoundary, Outcome, Lives, Inside, Overrun, Patience, Point, HookPoint
<1>6. CASE Process
  <2> USE DEF Outcome, Lives, Inside, Overrun, Patience
  <2>1. CASE stop /\ Leave /\ UNCHANGED <<it, ph>>
    BY <1>6, <2>1 DEF Process, Leave, Point, Results, HookPoint
  <2>2. CASE ph < Len(seq) /\ ph' = ph + 1 /\ pc' = "boundary" /\ UNCHANGED <<it, hi>>
    BY <1>6, <2>2 DEF Process, Point, HookPoint
  <2>3. CASE it + 1 < MaxIterations /\ it' = it + 1 /\ ph' = 1 /\ pc' = "control" /\ UNCHANGED hi
    BY <1>6, <2>3 DEF Process, Point, HookPoint
  <2>4. CASE Leave /\ UNCHANGED <<it, ph>>
    BY <1>6, <2>4 DEF Process, Leave, Point, Results, HookPoint
  <2> QED
    BY <1>6, <2>1, <2>2, <2>3, <2>4 DEF Process, NextPhase
<1>7. CASE ProcessRaises
  BY <1>7 DEF ProcessRaises, Raise, Outcome, Lives, Inside, Overrun, Patience, Point, HookPoint
<1> QED
  BY <1>1, <1>2, <1>3, <1>4, <1>5, <1>6, <1>7

LEMMA PhaseSteps == ASSUME IInv, PhaseRuns \/ PhaseRaises PROVE IInv'
<1> USE DEF IInv, OrchestratorTypeOK, rtState, life, meta, ghost, InPhase, Looping
<1>1. /\ first' \in Phases \cup {"none"} /\ nsteps' \in Nat
      /\ late' \in Nat /\ late' <= late + 1 /\ (~cancel => late' = late)
  <2>1. pc \in {"execute", "retry"} /\ Executes
    BY DEF PhaseRuns, PhaseRaises
  <2>2. seq[ph] \in Phases
    BY <2>1 DEF Inside
  <2>3. first' \in Phases \cup {"none"}
    BY <2>1, <2>2 DEF Executes
  <2> QED
    BY <2>1, <2>3 DEF Executes
<1>2. CASE PhaseRuns
  <2>1. exceeded' \in BOOLEAN /\ stop' \in BOOLEAN
    BY <1>2, Zenon DEF PhaseRuns
  <2>2. /\ pc \in {"execute", "retry"} /\ hi' = 1
        /\ pc' = IF pc = "execute" THEN "post" ELSE "process"
        /\ UNCHANGED <<it, ph, status, err, snap, cancel, pause, seq, life, meta, errs, start>>
    BY <1>2 DEF PhaseRuns
  <2> QED
    BY <1>1, <2>1, <2>2 DEF Outcome, Lives, Inside, Overrun, Patience
<1>3. CASE PhaseRaises
  <2>1. /\ pc \in {"execute", "retry"} /\ hi' = 1 /\ status' = "failed" /\ err' = TRUE
        /\ pc' = "onerror"
        /\ UNCHANGED <<it, ph, snap, cancel, pause, exceeded, seq, life, meta, errs, stop, start>>
    BY <1>3 DEF PhaseRaises, Raise
  <2> QED
    BY <1>1, <2>1 DEF Outcome, Lives, Inside, Overrun, Patience, Point, HookPoint
<1> QED
  BY <1>2, <1>3

(* After its hooks a phase runs, its output is looked at, the loop goes on *)
(* or is left; after the last hooks the plugins are deactivated.  nerrs is *)
(* what the counts of failures become.                                     *)
LEMMA ActOnStep ==
  ASSUME IInv, AtHooks,
         NEW action, NEW ov \in BOOLEAN, NEW ab \in {"none", "partial", "other"},
         ActOn(action, ov, ab),
         UNCHANGED <<rtState, seq, life, custom, start, ghost>>,
         override' \in BOOLEAN, partial' \in {"none", "partial", "other"}, stop' \in BOOLEAN,
         errs' \in [Plugins \X HookPoint -> 0.._MAX_CONSECUTIVE_HOOK_ERRORS],
         pc \in {"pre", "post"} =>
           \A k \in Plugins \X HookPoint :
              errs'[k] < _MAX_CONSECUTIVE_HOOK_ERRORS \/ (k[2] = Point /\ action = "abort")
  PROVE  IInv'
<1> USE DEF IInv, OrchestratorTypeOK, rtState, life, meta, ghost, InPhase, Looping
<1>1. CASE pc \in {"completion", "onerror"} /\ pc' = "deactivate" /\ hi' = 1
               /\ UNCHANGED <<it, ph, status, err, snap>>
  BY <1>1 DEF Outcome, Lives, Inside, Overrun, Patience, Results
<1>2. CASE pc \in {"pre", "post"} /\ action = "abort" /\ Abort(ov, ab)
  <2>1. /\ UNCHANGED <<it, ph, snap>> /\ hi' = 1 /\ err' \in BOOLEAN
        /\ status' \in {"completed", "failed"} /\ (status' = "failed" => err')
        /\ pc' = IF status' = "completed" THEN "completion" ELSE "deactivate"
    BY <1>2 DEF Abort, Leave
  <2>2. Patience'
    BY <1>2, <2>1 DEF Patience, Point, HookPoint
  <2> QED
    BY <1>2, <2>1, <2>2 DEF Outcome, Lives, Inside, Overrun, Results
<1>3. CASE /\ pc \in {"pre", "post"} /\ action = "pause" /\ status' = "paused" /\ snap' = it
           /\ Leave /\ UNCHANGED <<it, ph, err>>
  BY <1>3 DEF Leave, Outcome, Lives, Inside, Overrun, Patience, Results
<1>4. CASE /\ pc = "pre" /\ action = "skip" /\ UNCHANGED <<status, err, snap>> /\ NextPhase
  BY <1>4 DEF NextPhase, Leave, Outcome, Lives, Inside, Overrun, Patience, Point, HookPoint, Results
<1>5. CASE /\ pc = "pre" /\ action \in {"none", "retry"} /\ pc' = "execute" /\ hi' = 1
           /\ UNCHANGED <<it, ph, status, err, snap>>
  BY <1>5 DEF Outcome, Lives, Inside, Overrun, Patience
<1>6. CASE /\ pc = "post" /\ action \in {"none", "skip", "retry"}
           /\ pc' = IF action = "retry" THEN "retry" ELSE "process"
           /\ hi' = 1
               /\ UNCHANGED <<it, ph, status, err, snap>>
  BY <1>6 DEF Outcome, Lives, Inside, Overrun, Patience
<1> QED
  BY <1>1, <1>2, <1>3, <1>4, <1>5, <1>6 DEF ActOn

(* Counts of failures are numbers whatever one of them becomes.            *)
LEMMA CountsTyped ==
  ASSUME NEW D, NEW c \in [D -> 0.._MAX_CONSECUTIVE_HOOK_ERRORS], NEW k \in D,
         NEW n \in 0.._MAX_CONSECUTIVE_HOOK_ERRORS
  PROVE  /\ [c EXCEPT ![k] = n] \in [D -> 0.._MAX_CONSECUTIVE_HOOK_ERRORS]
         /\ [c EXCEPT ![k] = n][k] = n
         /\ \A j \in D : j # k => [c EXCEPT ![k] = n][j] = c[j]
  OBVIOUS

(* The next hook of the same point is called, unless this one failed too   *)
(* often.                                                                  *)
LEMMA NextHookStep ==
  ASSUME IInv, AtHooks, NextHook,
         UNCHANGED <<rtState, seq, life, custom, start, ghost>>,
         override' \in BOOLEAN, partial' \in {"none", "partial", "other"}, stop' \in BOOLEAN,
         errs' \in [Plugins \X HookPoint -> 0.._MAX_CONSECUTIVE_HOOK_ERRORS],
         pc \in {"pre", "post"} 
           => \A k \in Plugins \X HookPoint : errs'[k] < _MAX_CONSECUTIVE_HOOK_ERRORS,
         \A g \in Plugins : errs'[<<g, Point>>] < _MAX_CONSECUTIVE_HOOK_ERRORS
  PROVE  IInv'
<1> USE DEF IInv, OrchestratorTypeOK, rtState, life, meta, ghost, InPhase, Looping
<1>1. UNCHANGED <<pc, it, ph, status, err, snap>> /\ hi' = hi + 1
  BY DEF NextHook
<1>2. Point' = Point
  BY <1>1 DEF Point
<1>3. Patience'
  BY <1>1, <1>2 DEF Patience, AtHooks
<1> QED
  BY <1>1, <1>3 DEF Outcome, Lives, Inside, Overrun

LEMMA SlugTyped == ASSUME IInv, HasHook PROVE Slug \in Plugins /\ Point \in HookPoint
<1> USE DEF IInv, OrchestratorTypeOK, HasHook, AtHooks
<1>1. Point \in HookPoint
  BY DEF Inside, InPhase, Point, HookPoint
<1>2. HookSeq[Point] \in Seq(Plugins)
  BY <1>1
<1> QED
  BY <1>1, <1>2 DEF Slug

LEMMA HooksDoneStep == ASSUME IInv, HooksDone PROVE IInv'
<1>1. /\ AtHooks /\ ActOn("none", override, partial)
      /\ UNCHANGED <<rtState, seq, life, meta, errs, stop, start, ghost>>
  BY DEF HooksDone
<1>2. override \in BOOLEAN /\ partial \in {"none", "partial", "other"}
  BY DEF IInv, OrchestratorTypeOK
<1>3. /\ override' \in BOOLEAN /\ partial' \in {"none", "partial", "other"} /\ stop' \in BOOLEAN
      /\ errs' \in [Plugins \X HookPoint -> 0.._MAX_CONSECUTIVE_HOOK_ERRORS] /\ errs' = errs
      /\ UNCHANGED <<rtState, seq, life, custom, start, ghost>>
  BY <1>1 DEF IInv, OrchestratorTypeOK, meta
<1>4. pc \in {"pre", "post"} =>
        \A k \in Plugins \X HookPoint : errs'[k] < _MAX_CONSECUTIVE_HOOK_ERRORS
  BY <1>3 DEF IInv, Patience, InPhase, Looping
<1> QED
  BY <1>1, <1>2, <1>3, <1>4, ActOnStep

LEMMA HookReturnsStep == ASSUME IInv, HookReturns PROVE IInv'
<1>1. /\ HasHook /\ AtHooks
      /\ errs' = [errs EXCEPT ![<<Slug, Point>>] = 0]
      /\ UNCHANGED <<rtState, seq, life, custom, start, ghost>>
  BY DEF HookReturns, HasHook, ghost
<1>2. Slug \in Plugins /\ Point \in HookPoint
  BY <1>1, SlugTyped
<1>3. /\ errs' \in [Plugins \X HookPoint -> 0.._MAX_CONSECUTIVE_HOOK_ERRORS]
      /\ \A k \in Plugins \X HookPoint : errs'[k] = 0 \/ errs'[k] = errs[k]
  <2>1. <<Slug, Point>> \in Plugins \X HookPoint
    BY <1>2
  <2>2. errs \in [Plugins \X HookPoint -> 0.._MAX_CONSECUTIVE_HOOK_ERRORS]
    BY DEF IInv, OrchestratorTypeOK
  <2> QED
    BY <1>1, <2>1, <2>2, CountsTyped
<1>4. /\ pc \in {"pre", "post"} =>
            \A k \in Plugins \X HookPoint : errs'[k] < _MAX_CONSECUTIVE_HOOK_ERRORS
      /\ \A g \in Plugins : errs'[<<g, Point>>] < _MAX_CONSECUTIVE_HOOK_ERRORS
  BY <1>1, <1>2, <1>3 DEF IInv, OrchestratorTypeOK, Patience, InPhase, Looping, AtHooks
<1>5. PICK result \in {"none", "output", "mistyped", "skip", "retry", "abort", "pause"} :
       \/ /\ result \in {"skip", "retry", "abort", "pause"}
          /\ WriteMeta
          /\ ActOn(result, override', partial')
          /\ UNCHANGED stop
       \/ /\ result = "none" /\ WriteMeta /\ NextHook /\ UNCHANGED stop
       \/ /\ result = "output"
          /\ stop' \in IF pc = "post" /\ seq[ph] \in {"plan", "act"} THEN BOOLEAN ELSE {stop}
          /\ NextHook /\ UNCHANGED <<override, partial>>
       \/ /\ result = "mistyped" /\ ~StrictTypes
          /\ NextHook /\ UNCHANGED <<override, partial, stop>>
       \/ /\ result = "mistyped" /\ StrictTypes
          /\ partial' = "other" /\ UNCHANGED <<override, stop>>
          /\ ActOn("abort", override, partial')
  BY DEF HookReturns
<1>6. override \in BOOLEAN /\ partial \in {"none", "partial", "other"} /\ stop \in BOOLEAN
  BY DEF IInv, OrchestratorTypeOK
<1>7. override' \in BOOLEAN /\ partial' \in {"none", "partial", "other"} /\ stop' \in BOOLEAN
  BY <1>5, <1>6, Zenon DEF WriteMeta
<1>8. CASE NextHook
  BY <1>1, <1>3, <1>4, <1>7, <1>8, NextHookStep
<1>9. CASE \E action : ActOn(action, override', partial')
  BY <1>1, <1>3, <1>4, <1>7, <1>9, ActOnStep
<1>10. CASE ActOn("abort", override, partial')
  BY <1>1, <1>3, <1>4, <1>6, <1>7, <1>10, ActOnStep
<1> QED
  BY <1>5, <1>8, <1>9, <1>10, Zenon

LEMMA HookFailsStep == ASSUME IInv, HookFails PROVE IInv'
<1>1. /\ HasHook /\ AtHooks
      /\ UNCHANGED <<rtState, seq, life, override, custom, stop, start, ghost>>
  BY DEF HookFails, HasHook, ghost
<1>2. Slug \in Plugins /\ Point \in HookPoint
  BY <1>1, SlugTyped
<1>3. override \in BOOLEAN /\ partial \in {"none", "partial", "other"} /\ stop \in BOOLEAN
  BY DEF IInv, OrchestratorTypeOK
<1>4. /\ pc \in {"pre", "post"} =>
            \A k \in Plugins \X HookPoint : errs[k] < _MAX_CONSECUTIVE_HOOK_ERRORS
      /\ \A g \in Plugins : errs[<<g, Point>>] < _MAX_CONSECUTIVE_HOOK_ERRORS
      /\ errs \in [Plugins \X HookPoint -> 0.._MAX_CONSECUTIVE_HOOK_ERRORS]
  <2>1. \A g \in Plugins : <<g, Point>> \in Plugins \X HookPoint
    BY <1>2
  <2> QED
    BY <1>1, <2>1 DEF IInv, OrchestratorTypeOK, Patience, InPhase, Looping, AtHooks
<1>5. CASE /\ partial' = IF partial = "none" THEN "other" ELSE partial
           /\ ActOn("abort", override, partial')
           /\ UNCHANGED errs
  <2>1. partial' \in {"none", "partial", "other"} /\ override' \in BOOLEAN /\ stop' \in BOOLEAN
    BY <1>1, <1>3, <1>5
  <2>2. errs' \in [Plugins \X HookPoint -> 0.._MAX_CONSECUTIVE_HOOK_ERRORS] /\ errs' = errs
    BY <1>4, <1>5
  <2> QED
    BY <1>1, <1>3, <1>4, <1>5, <2>1, <2>2, ActOnStep
<1>6. CASE /\ errs' = [errs EXCEPT ![<<Slug, Point>>] = @ + 1]
           /\ IF TooManyErrors(<<Slug, Point>>)
              THEN partial' = "other" /\ ActOn("abort", override, partial')
              ELSE NextHook /\ UNCHANGED partial
  <2>1. partial' \in {"none", "partial", "other"} /\ override' \in BOOLEAN /\ stop' \in BOOLEAN
    BY <1>1, <1>3, <1>6
  <2>2. /\ errs' \in [Plugins \X HookPoint -> 0.._MAX_CONSECUTIVE_HOOK_ERRORS]
        /\ \A k \in Plugins \X HookPoint : k # <<Slug, Point>> => errs'[k] = errs[k]
        /\ errs'[<<Slug, Point>>] = errs[<<Slug, Point>>] + 1
    <3>1. <<Slug, Point>> \in Plugins \X HookPoint
      BY <1>2
    <3>2. errs[<<Slug, Point>>] + 1 \in 0.._MAX_CONSECUTIVE_HOOK_ERRORS
      <4> DEFINE n == errs[<<Slug, Point>>]
      <4>1. n \in 0.._MAX_CONSECUTIVE_HOOK_ERRORS
        BY <1>4, <3>1, Zenon
      <4>2. n < _MAX_CONSECUTIVE_HOOK_ERRORS
        BY <1>2, <1>4, Zenon
      <4> QED
        BY <4>1, <4>2
    <3> QED
      BY <1>4, <1>6, <3>1, <3>2, CountsTyped
  <2>3. CASE TooManyErrors(<<Slug, Point>>)
    <3>1. pc \in {"pre", "post"} =>
            \A k \in Plugins \X HookPoint :
               errs'[k] < _MAX_CONSECUTIVE_HOOK_ERRORS \/ (k[2] = Point /\ "abort" = "abort")
      BY <1>2, <1>4, <2>2
    <3> QED
      <4>1. ActOn("abort", override, partial')
        BY <1>6, <2>3
      <4> QED
        BY <1>1, <1>3, <2>1, <2>2, <3>1, <4>1, ActOnStep
  <2>4. CASE ~TooManyErrors(<<Slug, Point>>)
    <3>1. errs'[<<Slug, Point>>] < _MAX_CONSECUTIVE_HOOK_ERRORS
      <4>1. <<Slug, Point>> \in Plugins \X HookPoint
        BY <1>2
      <4> DEFINE n == errs[<<Slug, Point>>]
      <4>2. n \in 0.._MAX_CONSECUTIVE_HOOK_ERRORS
        BY <1>4, <4>1, Zenon
      <4>3. ~(n + 1 >= _MAX_CONSECUTIVE_HOOK_ERRORS)
        BY <2>4, Zenon DEF TooManyErrors
      <4>4. n + 1 < _MAX_CONSECUTIVE_HOOK_ERRORS
        BY <4>2, <4>3
      <4> QED
        BY <2>2, <4>4, Zenon
    <3>2. /\ pc \in {"pre", "post"} =>
                \A k \in Plugins \X HookPoint : errs'[k] < _MAX_CONSECUTIVE_HOOK_ERRORS
          /\ \A g \in Plugins : errs'[<<g, Point>>] < _MAX_CONSECUTIVE_HOOK_ERRORS
      BY <1>2, <1>4, <2>2, <3>1
    <3> QED
      BY <1>1, <1>6, <2>1, <2>2, <2>4, <3>2, NextHookStep
  <2> QED
    BY <2>3, <2>4
<1> QED
  BY <1>5, <1>6 DEF HookFails

-----------------------------------------------------------------------------
LEMMA InvStep == IInv /\ [Next]_vars => IInv'
<1> SUFFICES ASSUME IInv, [Next]_vars PROVE IInv'
  OBVIOUS
<1>1. CASE UNCHANGED vars
  BY <1>1 DEF vars, rtState, life, meta, ghost, IInv, OrchestratorTypeOK, Outcome, Lives, Inside,
     Overrun, Patience, Point
<1> QED
  BY <1>1, EventSteps, PluginSteps, LoopSteps, PhaseSteps, HooksDoneStep, HookReturnsStep,
     HookFailsStep
     DEF Next, RunStep

LEMMA InvHolds == Spec => []IInv
  BY InvInit, InvStep, PTL DEF Spec

(* Type correctness, whatever the plugins do: in particular no hook is     *)
(* called after its third failure in a row, and _run_hooks never counts    *)
(* further.                                                                *)
THEOREM OrchestratorTypeCorrect == Spec => []OrchestratorTypeOK
  BY InvHolds, PTL DEF IInv

(* Whatever hooks return, raise or write into the metadata, and whenever   *)
(* the run is cancelled or paused, PatternOrchestrator.run returns a       *)
(* result execute_run can record: a failed run has an error, a run that is *)
(* not over has a snapshot if and only if it is paused.                    *)
THEOREM ResultCorrect == Spec => []ResultWellFormed
<1>1. IInv => ResultWellFormed
  BY DEF IInv, Outcome, ResultWellFormed
<1> QED
  BY <1>1, InvHolds, PTL

(* Every plugin PatternOrchestrator.run activated, and no other, has been  *)
(* deactivated once when it returns, and phases and hooks of the loop run  *)
(* only while all plugins are active.                                      *)
THEOREM LifecycleCorrect == Spec => []LifecyclePaired
<1>1. IInv => LifecyclePaired
  BY DEF IInv, Lives, LifecyclePaired, AtHooks, InPhase, Looping
<1> QED
  BY <1>1, InvHolds, PTL

(* After the cancel event is set PatternOrchestrator.run executes at most  *)
(* the phase it had already let through, and its retry.                    *)
THEOREM CancelCorrect == Spec => []CancelStopsSoon
<1>1. IInv => CancelStopsSoon
  BY DEF IInv, Overrun, CancelStopsSoon
<1> QED
  BY <1>1, InvHolds, PTL

-----------------------------------------------------------------------------
(* Without plugins and without a resource-limit checker every step is one  *)
(* of AgentRuntime or changes nothing it has.                              *)

(* No hook ever runs, so the phases are those of the default sequence and  *)
(* nothing is in the metadata; an iteration that has not begun begins at   *)
(* its first phase; only a plan or an act ends the run.                    *)
Plain ==
  /\ pc \notin {"acterror", "retry"}
  /\ custom = NoCustom /\ ~override
  /\ seq = _PHASE_SEQUENCE /\ ph \in 1..4
  /\ it >= start.iteration
  /\ pc \in {"activate", "control"} => ph = FirstPhase
  /\ pc \in {"post", "process"} /\ stop => seq[ph] \in {"plan", "act"}

LEMMA NoHookWithoutPlugins ==
  ASSUME PluginSeq = <<>>
  PROVE  Plugins = {} /\ \A p \in HookPoint : HookSeq[p] = <<>>
<1>1. Plugins = {}
  BY DEF Plugins
<1>2. \A s \in Seq({}) : s = <<>>
  OBVIOUS
<1> QED
  BY <1>1, <1>2

LEMMA PlainInit == Init => Plain
<1> SUFFICES ASSUME Init PROVE Plain
  OBVIOUS
<1>1. start \in Starts /\ it = start.iteration /\ ph = start.phase
  BY DEF Init
<1> QED
  BY <1>1, StartsTyped DEF Init, Plain, FirstPhase

LEMMA PlainStep ==
  ASSUME PluginSeq = <<>>, IInv, Plain, [Next]_vars
  PROVE  Plain'
<1> USE NoHookWithoutPlugins, StartsTyped
    DEF IInv, OrchestratorTypeOK, Plain, rtState, life, meta, ghost, FirstPhase
<1>1. CASE UNCHANGED vars
  BY <1>1 DEF vars
<1>2. CASE SetCancel \/ SetPause
  BY <1>2 DEF SetCancel, SetPause
<1>3. CASE Activate \/ ActivateRaises \/ ActivationErrorHook \/ Activated
  BY <1>3 DEF Activate, ActivateRaises, ActivationErrorHook, Activated
<1>4. CASE LoopControl
  BY <1>4 DEF LoopControl, HookPoint, _PHASE_SEQUENCE
<1>5. CASE LoopControlRaises
  BY <1>5 DEF LoopControlRaises, HookPoint
<1>6. CASE NoPhaseToResume
  BY <1>6 DEF NoPhaseToResume, _PHASE_SEQUENCE
<1>7. CASE Interrupt
  BY <1>7 DEF Interrupt, Leave
<1>8. CASE PassBoundary
  BY <1>8 DEF PassBoundary
<1>9. CASE PhaseRuns
  BY <1>9 DEF PhaseRuns
<1>10. CASE PhaseRaises
  BY <1>10 DEF PhaseRaises, Raise
<1>11. CASE Process
  BY <1>11 DEF Process, NextPhase, Leave, _PHASE_SEQUENCE
<1>12. CASE ProcessRaises
  BY <1>12 DEF ProcessRaises, Raise
<1>13. CASE HooksDone
  BY <1>13 DEF HooksDone, ActOn
<1>14. CASE HookReturns \/ HookFails
  BY <1>14, SlugTyped DEF HookReturns, HookFails
<1>15. CASE Deactivate \/ Return
  BY <1>15 DEF Deactivate, Return
<1> QED
  BY <1>1, <1>2, <1>3, <1>4, <1>5, <1>6, <1>7, <1>8, <1>9, <1>10, <1>11, <1>12, <1>13, <1>14, <1>15
     DEF Next, RunStep

LEMMA RuntimeStarts == Init => Runtime!RuntimeInit
<1> SUFFICES ASSUME Init PROVE Runtime!RuntimeInit
  OBVIOUS
<1>1. start \in Starts /\ it = start.iteration /\ ph = start.phase
  BY DEF Init
<1> QED
  BY <1>1 DEF Init, Runtime!RuntimeInit, RuntimePc, Runtime!NoSnap

LEMMA RuntimeSteps ==
  ASSUME PluginSeq = <<>>, ~Limits, IInv, Plain, [Next]_vars
  PROVE  [Runtime!RuntimeNext]_(Runtime!rtVars)
<1> USE NoHookWithoutPlugins, StartsTyped
    DEF IInv, OrchestratorTypeOK, Plain, rtState, life, meta, ghost, RuntimePc, Runtime!rtVars
<1>1. CASE UNCHANGED vars
  BY <1>1 DEF vars
<1>2. CASE SetCancel
  BY <1>2 DEF SetCancel, Runtime!SetCancel, Runtime!RuntimeNext
<1>3. CASE SetPause
  BY <1>3 DEF SetPause, Runtime!SetPause, Runtime!RuntimeNext
<1>4. CASE Activate \/ ActivateRaises \/ ActivationErrorHook \/ Deactivate
  BY <1>4 DEF Activate, ActivateRaises, ActivationErrorHook, Deactivate
<1>5. CASE Activated
  BY <1>5 DEF Activated, Runtime!NothingLeft, Runtime!LoopStep, Runtime!RuntimeNext
<1>6. CASE LoopControl
  BY <1>6 DEF LoopControl, HookPoint, _PHASE_SEQUENCE, FirstPhase
<1>7. CASE LoopControlRaises
  BY <1>7 DEF LoopControlRaises, HookPoint
<1>8. CASE NoPhaseToResume
  BY <1>8 DEF NoPhaseToResume, _PHASE_SEQUENCE
<1>9. CASE Interrupt
  BY <1>9 DEF Interrupt, Leave, Inside, Looping, Runtime!Interrupt, Runtime!LoopStep,
     Runtime!RuntimeNext
<1>10. CASE PassBoundary
  BY <1>10 DEF PassBoundary, Inside, Looping, Runtime!PassBoundary, Runtime!LoopStep,
     Runtime!RuntimeNext
<1>11. CASE HooksDone
  BY <1>11 DEF HooksDone, ActOn, Runtime!CheckLimits, Runtime!LoopStep, Runtime!RuntimeNext
<1>12. CASE HookReturns \/ HookFails
  BY <1>12, SlugTyped DEF HookReturns, HookFails
<1>13. CASE PhaseRuns
  BY <1>13 DEF PhaseRuns, Executes, Runtime!PhaseRuns, Runtime!LoopStep, Runtime!RuntimeNext
<1>14. CASE PhaseRaises
  BY <1>14 DEF PhaseRaises, Executes, Raise, Runtime!PhaseRaises, Runtime!LoopStep,
     Runtime!RuntimeNext
<1>15. CASE Process
  BY <1>15 DEF Process, NextPhase, Leave, Inside, InPhase, Looping, _PHASE_SEQUENCE,
     Runtime!_PHASE_SEQUENCE, Runtime!Process, Runtime!LoopStep, Runtime!RuntimeNext
<1>16. CASE ProcessRaises
  BY <1>16 DEF ProcessRaises, Raise, _PHASE_SEQUENCE, Runtime!_PHASE_SEQUENCE, Runtime!Process,
     Runtime!LoopStep, Runtime!RuntimeNext
<1>17. CASE Return
  BY <1>17 DEF Return, Runtime!Return, Runtime!LoopStep, Runtime!RuntimeNext
<1> QED
  BY <1>1, <1>2, <1>3, <1>4, <1>5, <1>6, <1>7, <1>8, <1>9, <1>10, <1>11, <1>12, <1>13, <1>14,
     <1>15, <1>16, <1>17
     DEF Next, RunStep

(* The class docstring of PatternOrchestrator: without plugins it behaves  *)
(* as the plain runtime does.  Every step of PatternOrchestrator.run then  *)
(* is a step of AgentRuntime.run or leaves alone what that has, provided   *)
(* no product installed a limit checker (which only AgentRuntime asks).    *)
THEOREM PlainRunsAsRuntime ==
  ASSUME PluginSeq = <<>>, ~Limits
  PROVE  Spec => Runtime!RuntimeInit /\ [][Runtime!RuntimeNext]_(Runtime!rtVars)
<1>1. IInv /\ Plain /\ [Next]_vars => Plain'
  BY PlainStep
<1>2. IInv /\ Plain /\ [Next]_vars => [Runtime!RuntimeNext]_(Runtime!rtVars)
  BY RuntimeSteps
<1> QED
  BY <1>1, <1>2, InvHolds, PlainInit, RuntimeStarts, PTL DEF Spec
=============================================================================
