------------------------ MODULE MCPatternComposition ------------------------
(***************************************************************************)
(* Every dependency graph, with cycles and self-dependencies, over three   *)
(* plugins of exclusive and other categories.                              *)
(***************************************************************************)
EXTENDS PatternComposition

MCSlugs == 1..3
MCSlugLists == {<<>>, <<1>>, <<2, 1>>, <<1, 2, 3>>, <<3, 3>>}
MCDepLists == {SetToSortSeq(S, <) : S \in SUBSET MCSlugs}
MCCategoryMaps == {[s \in MCSlugs |-> IF s = 3 THEN c ELSE "execution"] : c \in {"execution", "quality"}}
                  \cup {<<"execution", "routing", c>> : c \in {"routing", "quality"}}
MCRegistries == {MCSlugs, {1, 2}}
MCConflicts == {{}, {<<1, 2>>}}
=============================================================================
