-------------------------- MODULE PatternComposition --------------------------
(***************************************************************************)
(* What becomes of a pattern_config: catalog.validate_pattern_config when  *)
(* the agent is created, PatternOrchestrator.from_pattern_config when it   *)
(* runs, both on the graph walks of composition.py.  The walks are         *)
(* recursive loops over sets and lists; here stack holds the calls in      *)
(* progress, next[s] the position of the loop over the dependencies of s   *)
(* (a pattern has at most one call in progress), and a set is iterated in  *)
(* any order.  Parameters, roles and hooks are left out                    *)
(* (PatternOrchestrator has the hooks).                                    *)
(***************************************************************************)
EXTENDS Naturals, SequencesExt

CONSTANTS Slugs,        \* the names of patterns
          Default,      \* default_execution_pattern
          None,         \* no pattern
          SlugLists,    \* what all_active_slugs may list
          DepLists,     \* what a plugin may declare as its dependencies
          CategoryMaps, \* the categories the plugins may have
          Registries,   \* the slugs PluginRegistry may hold
          Conflicts     \* the relations conflicts_with may be

ASSUME CompositionAssumption ==
    /\ Default \in Slugs /\ None \notin Slugs
    /\ SlugLists \subseteq Seq(Slugs) /\ DepLists \subseteq Seq(Slugs)
    /\ Registries \subseteq SUBSET Slugs

VARIABLES input,   \* the configuration and the plugins it meets
          stage,   \* what is being computed
          graph,   \* dep_graph of the walk in progress
          stack,   \* its calls in progress, the outermost first
          next,    \* the position of each call's loop
          todo,    \* roots _check_transitive was not called for yet
          visited, \* by _check_transitive or _collect_transitive
          unmet,   \* _check_transitive met a dependency that is not active
          colour, parent, cycle, above, \* locals of _detect_cycle (above is p)
          valid,   \* what validate_pattern_config said
          missing, \* found by _collect_transitive
          scope,   \* the active argument of each of its calls
          at,      \* position of from_pattern_config's loops over the slugs
          added,   \* auto_added
          unresolved, plugins

config == <<input, graph>>
calls == <<stack, next>>
checks == <<todo, unmet>>
search == <<colour, parent, cycle, above>>
lookup == <<missing, scope>>
making == <<at, added, unresolved, plugins>>
compositionVars == <<config, stage, calls, checks, visited, search, valid, lookup, making>>

_SINGLETON_CATEGORIES == {"execution", "routing", "coordination"}

\* The slugs in use: the default execution pattern when none is configured.
Chosen == IF input.slugs = <<>> THEN <<Default>> ELSE input.slugs
Selected == ToSet(Chosen)
DepsOf(s) == IF s \in input.registry THEN input.deps[s] ELSE <<>>
\* Both callers know the dependencies of the selected plugins only ...
dep_graph == [s \in Slugs |-> IF s \in Selected THEN DepsOf(s) ELSE <<>>]
\* ... but the lookup of missing ones takes any graph.
AllDeps == [s \in Slugs |-> DepsOf(s)]
\* The test of category_map, which knows the plugins of the registry only.
SameCategory(s, t) ==
    {s, t} \subseteq input.registry /\ input.category[s] = input.category[t]

CompositionInit ==
    /\ \E slugs \in SlugLists, registry \in Registries, category \in CategoryMaps,
          foes \in Conflicts : \E deps \in [registry -> DepLists] :
             input = [slugs |-> slugs, deps |-> deps, category |-> category,
                      registry |-> registry, foes |-> foes]
    /\ stage = "created" /\ valid = FALSE /\ graph = dep_graph
    /\ stack = <<>> /\ next = [s \in Slugs |-> 1] /\ todo = {} /\ visited = {} /\ unmet = FALSE
    /\ colour = [s \in Selected |-> "white"] /\ parent = [s \in Selected |-> None]
    /\ cycle = <<>> /\ above = None
    /\ missing = {} /\ scope = [s \in Slugs |-> {}]
    /\ at = 1 /\ added = <<>> /\ unresolved = FALSE /\ plugins = <<>>

-----------------------------------------------------------------------------
(* A recursive walk: the call in progress is at the dependency Dep of Top. *)
Top == stack[Len(stack)]
Dep == graph[Top][next[Top]]
AtDep == stack # <<>> /\ next[Top] <= Len(graph[Top])
LoopDone == stack # <<>> /\ next[Top] > Len(graph[Top])

Advance == next' = [next EXCEPT ![Top] = @ + 1]
Skip == Advance /\ UNCHANGED stack
Call(s) == Advance /\ stack' = Append(stack, s)
CallRoot(s) == stack' = <<s>> /\ UNCHANGED next
UnwindTo(to) == stack' = to /\ next' = [next EXCEPT ![Top] = 1]
ReturnFromCall == LoopDone /\ UnwindTo(Front(stack))

-----------------------------------------------------------------------------
(* validate_pattern_config: an empty configuration is valid, unknown slugs *)
(* are the only errors reported with them.                                 *)

\* Mutant of detect_conflicts: exclusive categories are left to conflicts_with.
declared_conflicts == \E s, t \in Selected : <<s, t>> \in input.foes

detect_conflicts ==
    \/ \E i, j \in DOMAIN Chosen : /\ i # j /\ SameCategory(Chosen[i], Chosen[j])
                                   /\ input.category[Chosen[i]] \in _SINGLETON_CATEGORIES
    \/ \E s, t \in Selected : <<s, t>> \in input.foes

validate_pattern_config ==
    /\ stage = "created"
    /\ LET known == Selected \subseteq input.registry
       IN IF input.slugs = <<>> \/ ~known
          THEN stage' = "validated" /\ valid' = (input.slugs = <<>>) /\ UNCHANGED checks
          ELSE stage' = "check" /\ todo' = Selected /\ UNCHANGED <<unmet, valid>>
    /\ UNCHANGED <<config, calls, visited, search, lookup, making>>

\* resolve_dependencies calls _check_transitive for each slug, with a new visited.
CheckRoot ==
    /\ stage = "check" /\ stack = <<>>
    /\ \E s \in todo : CallRoot(s) /\ visited' = {s} /\ todo' = todo \ {s}
    /\ UNCHANGED <<config, stage, unmet, search, valid, lookup, making>>

CheckDep ==
    /\ stage = "check" /\ AtDep
    /\ \/ Dep \notin Selected /\ Skip
          /\ unmet' = (unmet \/ ~SameCategory(Top, Dep)) /\ UNCHANGED visited
       \/ Dep \in Selected \cap visited /\ Skip /\ UNCHANGED <<unmet, visited>>
       \/ Dep \in Selected \ visited /\ Call(Dep)
          /\ visited' = visited \cup {Dep} /\ UNCHANGED unmet
    /\ UNCHANGED <<config, stage, todo, search, valid, lookup, making>>

CheckReturn ==
    /\ stage = "check" /\ ReturnFromCall
    /\ UNCHANGED <<config, stage, checks, visited, search, valid, lookup, making>>

Checked ==
    /\ stage = "check" /\ stack = <<>> /\ todo = {}
    /\ stage' = "search" /\ visited' = {}
    /\ UNCHANGED <<config, calls, checks, search, valid, lookup, making>>

-----------------------------------------------------------------------------
(* _detect_cycle and its _dfs; the roots that are not white are passed over. *)
SearchRoot ==
    /\ stage = "search" /\ stack = <<>>
    /\ \E s \in Selected : /\ colour[s] = "white" /\ CallRoot(s)
                           /\ colour' = [colour EXCEPT ![s] = "grey"]
    /\ UNCHANGED <<config, stage, checks, visited, parent, cycle, above, valid, lookup, making>>

SearchSkip ==
    /\ stage = "search" /\ AtDep /\ Skip
    /\ Dep \in Selected => colour[Dep] = "black"
    /\ UNCHANGED <<config, stage, checks, visited, search, valid, lookup, making>>

SearchDep ==
    /\ stage = "search" /\ AtDep /\ Dep \in Selected /\ colour[Dep] = "white" /\ Call(Dep)
    /\ parent' = [parent EXCEPT ![Dep] = Top]
    /\ colour' = [colour EXCEPT ![Dep] = "grey"]
    /\ UNCHANGED <<config, stage, checks, visited, cycle, above, valid, lookup, making>>

\* Mutant of SearchReturn: the colour is not changed on the way back.
SearchReturnGrey ==
    /\ stage = "search" /\ ReturnFromCall
    /\ UNCHANGED <<config, stage, checks, visited, search, valid, lookup, making>>

SearchReturn ==
    /\ stage = "search" /\ ReturnFromCall
    /\ colour' = [colour EXCEPT ![Top] = "black"]
    /\ UNCHANGED <<config, stage, checks, visited, parent, cycle, above, valid, lookup, making>>

CycleCloses ==
    /\ stage = "search" /\ AtDep /\ Dep \in Selected /\ colour[Dep] = "grey"
    /\ cycle' = <<Dep, Top>> /\ above' = parent[Top]
    /\ stage' = "climb"
    /\ UNCHANGED <<config, calls, checks, visited, colour, parent, valid, lookup, making>>

\* To the root of the search tree, or to the node the cycle closes at.
Climb ==
    /\ stage = "climb" /\ above \notin {None, cycle[1]}
    /\ cycle' = Append(cycle, above) /\ above' = parent[above]
    /\ UNCHANGED <<config, stage, calls, checks, visited, colour, parent, valid, lookup, making>>

\* validate_composition reports: the locals of the walks are gone, errors count.
Report(path) ==
    /\ stage' = "validated" /\ cycle' = path
    /\ valid' = (~detect_conflicts /\ ~unmet /\ path = <<>>)
    /\ stack' = <<>> /\ next' = [s \in Slugs |-> 1]
    /\ colour' = [s \in Selected |-> "white"] /\ parent' = [s \in Selected |-> None]
    /\ above' = None /\ unmet' = FALSE
    /\ UNCHANGED <<config, todo, visited, lookup, making>>

CycleReported ==
    /\ stage = "climb" /\ above \in {None, cycle[1]}
    /\ Report(Reverse(Append(cycle, cycle[1])))

NoCycle ==
    /\ stage = "search" /\ stack = <<>> /\ \A s \in Selected : colour[s] # "white"
    /\ Report(<<>>)

-----------------------------------------------------------------------------
(* collect_missing_dependencies: from_pattern_config calls it on the       *)
(* dependencies of the selected plugins; its contract is for any graph.    *)
from_pattern_config ==
    /\ stage = "validated" /\ stage' = "collect" /\ cycle' = <<>>
    /\ UNCHANGED <<config, calls, checks, visited, colour, parent, above, valid, lookup, making>>

collect_missing_dependencies ==
    /\ stage = "created" /\ stage' = "lookup" /\ graph' = AllDeps
    /\ UNCHANGED <<input, calls, checks, visited, search, valid, lookup, making>>

Collecting == stage \in {"collect", "lookup"}

CollectRoot ==
    /\ Collecting /\ stack = <<>>
    /\ \E s \in Selected \ visited :
          CallRoot(s) /\ visited' = visited \cup {s} /\ scope' = [scope EXCEPT ![s] = Selected]
    /\ UNCHANGED <<config, stage, checks, search, valid, missing, making>>

\* The call for dep, which returns at once from one that was visited.
_collect_transitive(dep, active) ==
    IF dep \in visited THEN Skip /\ UNCHANGED <<visited, scope>>
    ELSE Call(dep) /\ visited' = visited \cup {dep} /\ scope' = [scope EXCEPT ![dep] = active]

\* Mutant of CollectDep: what the missing depend on is not looked at.
CollectDirect ==
    /\ Collecting /\ AtDep
    /\ \/ Dep \in scope[Top] /\ _collect_transitive(Dep, scope[Top]) /\ UNCHANGED missing
       \/ Dep \notin scope[Top] /\ Skip /\ UNCHANGED <<visited, scope>>
          /\ missing' = IF SameCategory(Top, Dep) THEN missing ELSE missing \cup {Dep}
    /\ UNCHANGED <<config, stage, checks, search, valid, making>>

CollectDep ==
    /\ Collecting /\ AtDep
    /\ \/ Dep \in scope[Top] /\ _collect_transitive(Dep, scope[Top]) /\ UNCHANGED missing
       \/ Dep \notin scope[Top] /\ SameCategory(Top, Dep) /\ Skip
          /\ UNCHANGED <<visited, lookup>>
       \/ Dep \notin scope[Top] /\ ~SameCategory(Top, Dep)
          /\ missing' = missing \cup {Dep} /\ _collect_transitive(Dep, scope[Top] \cup missing')
    /\ UNCHANGED <<config, stage, checks, search, valid, making>>

CollectReturn ==
    /\ Collecting /\ ReturnFromCall
    /\ scope' = [scope EXCEPT ![Top] = {}]
    /\ UNCHANGED <<config, stage, checks, visited, search, valid, missing, making>>

Collected ==
    /\ Collecting /\ stack = <<>> /\ Selected \subseteq visited
    /\ stage' = IF stage = "collect" THEN "resolve" ELSE "returned"
    /\ visited' = {}
    /\ UNCHANGED <<config, calls, checks, search, valid, lookup, making>>

-----------------------------------------------------------------------------
(* The rest of from_pattern_config: each dependency of a selected pattern  *)
(* is there, fills an empty exclusive category, or is an error; unknown    *)
(* slugs are dropped, conflicts are not looked for.                        *)
There == Selected \cup ToSet(added)

\* Mutant of Fillable: the slots filled so far are not looked at.
FillableByChosen(dep) ==
    /\ dep \in input.registry /\ input.category[dep] \in _SINGLETON_CATEGORIES
    /\ ~\E s \in Selected : SameCategory(s, dep)

Fillable(dep) ==
    /\ dep \in input.registry /\ input.category[dep] \in _SINGLETON_CATEGORIES
    /\ ~\E s \in There : SameCategory(s, dep)

ResolveDep ==
    LET s == Chosen[at]
        dep == graph[s][next[s]]
    IN /\ stage = "resolve" /\ at <= Len(Chosen) /\ next[s] <= Len(graph[s])
       /\ \/ dep \notin missing \ There /\ UNCHANGED <<added, unresolved>>
          \/ dep \in missing \ There /\ Fillable(dep)
             /\ added' = Append(added, dep) /\ UNCHANGED unresolved
          \/ dep \in missing \ There /\ ~Fillable(dep)
             /\ unresolved' = TRUE /\ UNCHANGED added
       /\ next' = [next EXCEPT ![s] = @ + 1]
       /\ UNCHANGED <<config, stage, stack, checks, visited, search, valid, lookup, at, plugins>>

ResolveNext ==
    LET s == Chosen[at]
    IN /\ stage = "resolve" /\ at <= Len(Chosen) /\ next[s] > Len(graph[s])
       /\ at' = at + 1 /\ next' = [next EXCEPT ![s] = 1]
       /\ UNCHANGED <<config, stage, stack, checks, visited, search, valid, lookup, added,
                      unresolved, plugins>>

Resolved ==
    /\ stage = "resolve" /\ at > Len(Chosen)
    /\ stage' = IF unresolved THEN "failed" ELSE "make"
    /\ at' = 1
    /\ UNCHANGED <<config, calls, checks, visited, search, valid, lookup, added, unresolved, plugins>>

MakePlugin ==
    LET slugs == Chosen \o added
    IN /\ stage = "make" /\ at <= Len(slugs)
       /\ plugins' = IF slugs[at] \in input.registry THEN Append(plugins, slugs[at]) ELSE plugins
       /\ at' = at + 1
       /\ UNCHANGED <<config, stage, calls, checks, visited, search, valid, lookup, added, unresolved>>

Made ==
    /\ stage = "make" /\ at > Len(Chosen \o added)
    /\ stage' = "built"
    /\ UNCHANGED <<config, calls, checks, visited, search, valid, lookup, making>>

CompositionNext ==
    \/ validate_pattern_config \/ CheckRoot \/ CheckDep \/ CheckReturn \/ Checked
    \/ SearchRoot \/ SearchSkip \/ SearchDep \/ SearchReturn \/ NoCycle
    \/ CycleCloses \/ Climb \/ CycleReported
    \/ collect_missing_dependencies \/ from_pattern_config
    \/ CollectRoot \/ CollectDep \/ CollectReturn \/ Collected
    \/ ResolveDep \/ ResolveNext \/ Resolved \/ MakePlugin \/ Made

CompositionSpec == CompositionInit /\ [][CompositionNext]_compositionVars

-----------------------------------------------------------------------------
Stages == {"created", "check", "search", "climb", "validated", "collect", "lookup", "returned",
           "resolve", "failed", "make", "built"}

CompositionTypeOK ==
    /\ input.slugs \in SlugLists /\ input.registry \in Registries
    /\ input.deps \in [input.registry -> DepLists]
    /\ input.category \in CategoryMaps /\ input.foes \in Conflicts
    /\ stage \in Stages /\ valid \in BOOLEAN /\ graph \in {dep_graph, AllDeps}
    /\ stack \in Seq(Slugs) /\ next \in [Slugs -> Nat \ {0}]
    /\ todo \subseteq Selected /\ visited \subseteq Slugs /\ unmet \in BOOLEAN
    /\ colour \in [Selected -> {"white", "grey", "black"}]
    /\ parent \in [Selected -> Selected \cup {None}]
    /\ cycle \in Seq(Slugs) /\ above \in Selected \cup {None}
    /\ missing \subseteq Slugs /\ scope \in [Slugs -> SUBSET Slugs]
    /\ at \in Nat \ {0} /\ added \in Seq(Slugs) /\ unresolved \in BOOLEAN
    /\ plugins \in Seq(Slugs)

(* When the search has been made, it reported a path exactly if the        *)
(* selected patterns contain a cycle, in whatever order they were walked;  *)
(* the path closes, along dependencies unless a pattern depends on itself  *)
(* (the path then climbs past it to the root of the search).               *)
CycleFound ==
    stage = "validated" /\ input.slugs # <<>> /\ Selected \subseteq input.registry =>
       /\ cycle # <<>> <=>
             \E S \in (SUBSET Selected) \ {{}} : \A s \in S : S \cap ToSet(DepsOf(s)) # {}
       /\ cycle # <<>> => /\ cycle[1] = cycle[Len(cycle)]
                          /\ \/ cycle[Len(cycle) - 1] = cycle[1]
                             \/ \A i \in 1..Len(cycle) - 1 :
                                   cycle[i + 1] \in ToSet(DepsOf(cycle[i]))

(* collect_missing_dependencies returns the least set that contains every  *)
(* dependency, not selected and of another category, of a selected pattern *)
(* or of a member of the set: its answer does not depend on the order of   *)
(* the walk nor on what the shared sets and each call's copy of the active *)
(* ones held at each turn.                                                 *)
Needed(M) ==
    {d \in Slugs \ Selected : \E s \in Selected \cup M :
        d \in ToSet(graph[s]) /\ ~SameCategory(s, d)}

MissingIsClosure ==
    stage \in {"returned", "resolve"} =>
       missing = {d \in Slugs : \A M \in SUBSET Slugs : Needed(M) \subseteq M => d \in M}

(* A configuration accepted when the agent was created is the one that     *)
(* runs: the orchestrator is built of exactly its patterns, in order, no   *)
(* two of them in one exclusive category and none at odds with another.    *)
(* (The converse fails: what validation rejects may run, see the README.)  *)
ValidMeansBuilt ==
    stage \in {"built", "failed"} /\ valid /\ input.slugs # <<>> =>
       /\ stage = "built" /\ plugins = input.slugs
       /\ \A i, j \in DOMAIN plugins :
             /\ <<plugins[i], plugins[j]>> \notin input.foes
             /\ i # j /\ input.category[plugins[i]] \in _SINGLETON_CATEGORIES =>
                   input.category[plugins[j]] # input.category[plugins[i]]

(* An orchestrator is built only with the dependencies of its patterns: a  *)
(* dependency was configured, shares its dependent's category, or was      *)
(* added into a category nothing else in the orchestrator occupies.        *)
BuiltWithDependencies ==
    stage = "built" =>
       /\ \A s \in Selected : \A d \in ToSet(DepsOf(s)) :
             d \in Selected \cup ToSet(plugins) \/ SameCategory(s, d)
       /\ \A d \in ToSet(plugins) \ Selected : \A t \in ToSet(plugins) :
             t # d => input.category[t] # input.category[d]
=============================================================================
