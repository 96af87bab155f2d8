------------------------------- MODULE Unify -------------------------------
(***************************************************************************)
(* The unification of the definitions of all processes at the end of the   *)
(* measurement: scorep_unify.c, paradigm/scorep_unify_mpp_ipc.c and the    *)
(* unification of single definitions in definitions/scorep_definitions_*.c *)
(*                                                                         *)
(* Every process copies its local definitions into a unified manager; the  *)
(* managers travel up a tree, each process adding those of its children to *)
(* its own, and the root's is the one that is written.  Mappings travel    *)
(* down the tree, so that every process can replace the ids in its events  *)
(* by those of the root.                                                   *)
(*                                                                         *)
(* A handle is the position of a definition in the list of its manager and *)
(* one more than its sequence number; 0 is the invalid handle, and         *)
(* UINT32_MAX in a mapping.  Hash tables only speed up the search for      *)
(* equal definitions.  Of the types there are those with a special rule:   *)
(* strings, which hold data; regions, which refer to another type;         *)
(* call paths, which refer to themselves; communicators and windows, of    *)
(* which more than the key changes.  A group is its set of members.  A     *)
(* send waits for its receive, and the messages of one exchange are one    *)
(* step: the two processes do nothing else in between.                     *)
(***************************************************************************)
EXTENDS Integers, SequencesExt, FiniteSetsExt

CONSTANT UnifySetups    \* per rank, the local definitions

DefinitionTypes == {"string", "region", "communicator", "rma_window", "callpath"}

(* Definitions refer to those before them.                                 *)
ASSUME UnifyAssumption ==
  \A definitions \in UnifySetups :
    /\ DOMAIN definitions = 0 .. Cardinality(DOMAIN definitions) - 1
    /\ \A p \in DOMAIN definitions :
         /\ DOMAIN definitions[p] = DefinitionTypes
         /\ "" = Head(definitions[p].string)
         /\ \A i \in DOMAIN definitions[p].callpath : definitions[p].callpath[i].parent < i
         /\ \A i \in DOMAIN definitions[p].communicator :
              definitions[p].communicator[i].parent < i

VARIABLES
  local,            \* per rank, scorep_local_definition_manager
  unified,          \* per rank, scorep_unified_definition_manager
  local_mapping,    \* per rank and type, the mapping of the local manager
  unified_mapping,  \* per rank and type, that of the unified one, or <<>>
  remote_mapping,   \* per rank, child and type, that of remote_definition_managers
  at,               \* per rank, the phase of unify_mpp_hierarchical
  children_left     \* per rank, the children its current phase has to serve

unifyVars == <<local, unified, local_mapping, unified_mapping, remote_mapping, at, children_left>>

Ranks == DOMAIN local
NoMapping == [type \in DefinitionTypes |-> <<>>]

UnifyInit ==
  /\ local \in UnifySetups
  /\ unified = [p \in Ranks |-> NoMapping]
  /\ local_mapping = [p \in Ranks |-> NoMapping]
  /\ unified_mapping = [p \in Ranks |-> NoMapping]
  /\ remote_mapping = [p \in Ranks |-> <<>>]
  /\ at = [p \in Ranks |-> "local"]
  /\ children_left = [p \in Ranks |-> {}]

-----------------------------------------------------------------------------
(* The embedded hypercube.                                                 *)

Powers == {2^k : k \in 0 .. 30}
npot(v) == Min({d \in Powers : d >= v})
HasBit(me, d) == (me \div d) % 2 = 1
Dimensions == LET all == npot(Cardinality(Ranks)) IN {d \in Powers : d <= all}
ParentDimensions(me) == {d \in Dimensions : HasBit(me, d)}
parent(me) == IF ParentDimensions(me) = {} THEN me ELSE me - Min(ParentDimensions(me))
children(me) ==
  LET above == ParentDimensions(me)
  IN {me + d : d \in {e \in Dimensions : \A f \in above : e < f}} \cap Ranks

-----------------------------------------------------------------------------
(* Definitions in a manager: which are duplicates, and what becomes of the *)
(* existing definition when a duplicate is added.                          *)

equal_communicator(old, new) ==
  /\ old.groups = new.groups /\ old.unify_key = new.unify_key
  /\ old.parent = new.parent \/ new.groups[1] # new.groups[2]
equal_rma_window(old, new) ==
  old.communicator = new.communicator /\ old.creation_id = new.creation_id
Equal(type, old, new) ==
  CASE type = "communicator" -> equal_communicator(old, new)
    [] type = "rma_window" -> equal_rma_window(old, new)
    [] OTHER -> old = new

merged_communicator(old, new) ==
  [old EXCEPT !.parent = IF @ = 0 THEN new.parent ELSE @,
              !.name = IF new.name # 0 THEN new.name ELSE @]
merged_rma_window(old, new) ==
  IF old.has_default_name /\ new.name # 0
    THEN [old EXCEPT !.name = new.name, !.has_default_name = FALSE]
    ELSE old
Merged(type, old, new) ==
  CASE type = "communicator" -> merged_communicator(old, new)
    [] type = "rma_window" -> merged_rma_window(old, new)
    [] OTHER -> old

Position(type, list, new) == SelectInSeq(list, LAMBDA old : Equal(type, old, new))
Define(type, list, new) ==
  LET i == Position(type, list, new)
  IN IF i = 0 THEN Append(list, new) ELSE [list EXCEPT ![i] = Merged(type, @, new)]

(* A definition with its references replaced by those of the unified       *)
(* manager.  A reference that is not valid stays so.                       *)
Unified(of, handle) == IF handle = 0 THEN 0 ELSE of[handle]

unify_region(d, of) == [d EXCEPT !.name = of.string[@]]
unify_communicator(d, of) ==
  [d EXCEPT !.name = Unified(of.string, @), !.parent = Unified(of.communicator, @)]
unify_rma_window(d, of) ==
  [d EXCEPT !.name = Unified(of.string, @), !.communicator = of.communicator[@],
            !.has_default_name = TRUE]
unify_callpath(d, of) ==
  [d EXCEPT !.parent = Unified(of.callpath, @), !.region = Unified(of.region, @)]
Translated(type, d, of) ==
  CASE type = "string" -> d
    [] type = "region" -> unify_region(d, of)
    [] type = "communicator" -> unify_communicator(d, of)
    [] type = "rma_window" -> unify_rma_window(d, of)
    [] type = "callpath" -> unify_callpath(d, of)

(* The manager, and `of', the unified members of what has been visited.    *)
UnifyType(copied, type, definitions) ==
  FoldLeft(LAMBDA done, d :
             LET new == Translated(type, d, done.of)
                 list == Define(type, done.manager[type], new)
             IN [manager |-> [done.manager EXCEPT ![type] = list],
                 of |-> [done.of EXCEPT ![type] = Append(@, Position(type, list, new))]],
           copied, definitions)
SCOREP_CopyDefinitionsToUnified(manager, source) ==
  FoldLeft(LAMBDA copied, type : UnifyType(copied, type, source[type]),
           [manager |-> manager, of |-> NoMapping],
           <<"string", "region", "communicator", "rma_window", "callpath">>)

CreateMappings(manager) ==
  [type \in DefinitionTypes |-> [i \in DOMAIN manager[type] |-> 0]]

(* mutant: a mapping is not followed by that of the parent.               *)
ComposedForLeaves(mapping, of) == mapping

(* The mapping after `of', as far as there is one: the root has none.      *)
Composed(mapping, of) ==
  [type \in DefinitionTypes |->
     [i \in DOMAIN mapping[type] |->
        IF of[type] = <<>> THEN mapping[type][i] ELSE of[type][mapping[type][i]]]]

-----------------------------------------------------------------------------
(* The steps of a process.                                                 *)

AfterChildren(p) == IF parent(p) # p THEN "send" ELSE "answer"

(* SCOREP_Unify up to its communication.                                   *)
SCOREP_Unify_Locally(p) ==
  /\ at[p] = "local"
  /\ LET copied == SCOREP_CopyDefinitionsToUnified(
                     [NoMapping EXCEPT !.string = <<"">>], local[p])
     IN /\ unified' = [unified EXCEPT ![p] = copied.manager]
        /\ local_mapping' = [local_mapping EXCEPT ![p] = copied.of]
  /\ children_left' = [children_left EXCEPT ![p] = children(p)]
  /\ at' = [at EXCEPT ![p] = IF children(p) = {} THEN AfterChildren(p) ELSE "receive"]
  /\ UNCHANGED <<local, unified_mapping, remote_mapping>>

(* Phase 1: the definitions of the next child are received and unified;    *)
(* the child prepares for the mappings.                                    *)
receive_and_unify_remote_definitions(p) ==
  /\ at[p] = "receive"
  /\ LET c == Min(children_left[p])
         left == children_left[p] \ {c}
         copied == SCOREP_CopyDefinitionsToUnified(unified[p], unified[c])
     IN /\ at[c] = "send" /\ parent(c) = p
        /\ unified' = [unified EXCEPT ![p] = copied.manager]
        /\ remote_mapping' = [remote_mapping EXCEPT
             ![p] = [d \in DOMAIN @ \cup {c} |->
                       IF d = c THEN copied.of ELSE @[d]]]
        /\ unified_mapping' = [unified_mapping EXCEPT ![c] = CreateMappings(unified[c])]
        /\ children_left' = [children_left EXCEPT
             ![p] = IF left = {} THEN children(p) ELSE left]
        /\ at' = [at EXCEPT ![p] = IF left = {} THEN AfterChildren(p) ELSE @,
                            ![c] = "mappings"]
  /\ UNCHANGED <<local, local_mapping>>

(* Phase 2: the mappings of the next child become mappings to the root's   *)
(* definitions and are sent to it.                                         *)
apply_and_send_mappings(p) ==
  /\ at[p] = "answer" /\ children_left[p] # {}
  /\ LET c == Max(children_left[p])
         mapping == Composed(remote_mapping[p][c], unified_mapping[p])
     IN /\ at[c] = "mappings"
        /\ remote_mapping' = [remote_mapping EXCEPT ![p][c] = mapping]
        /\ unified_mapping' = [unified_mapping EXCEPT ![c] = mapping]
        /\ children_left' = [children_left EXCEPT ![p] = @ \ {c}]
        /\ at' = [at EXCEPT ![c] = "answer"]
  /\ UNCHANGED <<local, unified, local_mapping>>

(* A name that is missing becomes the empty one.                           *)
assign_empty_string_to_names(manager) ==
  LET Named(definitions) ==
        [i \in DOMAIN definitions |->
           [definitions[i] EXCEPT !.name = IF @ = 0 THEN 1 ELSE @]]
  IN [manager EXCEPT !.communicator = Named(@), !.rma_window = Named(@)]

(* The local ids become those of the root, and rank 0 completes its names. *)
apply_mappings_to_local_manager(p) ==
  /\ at[p] = "answer" /\ children_left[p] = {}
  /\ local_mapping' = [local_mapping EXCEPT ![p] = Composed(@, unified_mapping[p])]
  /\ unified' = [unified EXCEPT ![p] =
                   IF p = 0 THEN assign_empty_string_to_names(@) ELSE @]
  /\ at' = [at EXCEPT ![p] = "done"]
  /\ UNCHANGED <<local, unified_mapping, remote_mapping, children_left>>

AllUnified == \A p \in Ranks : at[p] = "done"
UnifyStop == AllUnified /\ UNCHANGED unifyVars

UnifyNext ==
  \/ \E p \in Ranks :
       \/ SCOREP_Unify_Locally(p)
       \/ receive_and_unify_remote_definitions(p)
       \/ apply_and_send_mappings(p)
       \/ apply_mappings_to_local_manager(p)
  \/ UnifyStop

UnifySpec == UnifyInit /\ [][UnifyNext]_unifyVars

-----------------------------------------------------------------------------
(* Properties.                                                             *)

(* What the definitions of a manager say, whatever their handles are.      *)
CommunicatorContents(m) ==
  LET contents[i \in DOMAIN m.communicator] ==
        LET c == m.communicator[i]
        IN IF c.groups[1] # c.groups[2] \/ c.parent = 0 THEN <<c.groups, c.unify_key>>
           ELSE <<c.groups, c.unify_key, contents[c.parent]>>
  IN contents
RegionContents(m) ==
  [i \in DOMAIN m.region |-> <<m.string[m.region[i].name], m.region[i].line>>]
CallpathContents(m) ==
  LET contents[i \in DOMAIN m.callpath] ==
        LET c == m.callpath[i]
        IN (IF c.parent = 0 THEN <<>> ELSE contents[c.parent])
             \o <<RegionContents(m)[c.region]>>
  IN contents
WindowContents(m) ==
  [i \in DOMAIN m.rma_window |->
     <<CommunicatorContents(m)[m.rma_window[i].communicator], m.rma_window[i].creation_id>>]
Contents(m, type) ==
  CASE type = "string" -> m.string
    [] type = "region" -> RegionContents(m)
    [] type = "communicator" -> CommunicatorContents(m)
    [] type = "rma_window" -> WindowContents(m)
    [] type = "callpath" -> CallpathContents(m)

(* The id by which a process writes a definition at the end is the id of   *)
(* the definition that says the same at the root; the root has nothing     *)
(* twice, and the empty string has the first id.                           *)
IdsTranslated ==
  \A p \in Ranks : \A type \in DefinitionTypes : \A i \in DOMAIN local[p][type] :
    Contents(unified[0], type)[local_mapping[p][type][i]] = Contents(local[p], type)[i]
NothingTwice ==
  \A type \in DefinitionTypes :
    \A i, j \in DOMAIN unified[0][type] :
      Contents(unified[0], type)[i] = Contents(unified[0], type)[j] => i = j

(* An intercommunicator keeps the peer communicator if any process knew it.*)
PeersKept ==
  \A p \in Ranks : \A i \in DOMAIN local[p].communicator :
    local[p].communicator[i].parent # 0 =>
      unified[0].communicator[local_mapping[p].communicator[i]].parent # 0

(* After the unification of all processes the ids of their events and      *)
(* profiles agree (scorep_unify_mpp_ipc.c), as the writers of the trace    *)
(* and the profile assume.                                                 *)
UnifiedIds ==
  AllUnified => IdsTranslated /\ NothingTwice /\ PeersKept /\ Head(unified[0].string) = ""

(* "The current unification scheme considers the first user-defined name   *)
(* set on the first process (in rank order) of the corresponding           *)
(* communicator.  If no name is set by the user, the default name [...]    *)
(* will be used instead." (scorep_definitions_rma_window.c:127-130)        *)
WindowOf(p, content) == {i \in DOMAIN local[p].rma_window : WindowContents(local[p])[i] = content}
NamedByUser(content) ==
  {p \in Ranks : \E i \in WindowOf(p, content) : ~local[p].rma_window[i].has_default_name}
NameAt(p, content) ==
  local[p].string[local[p].rma_window[CHOOSE i \in WindowOf(p, content) : TRUE].name]
FirstNameUsed ==
  AllUnified =>
    \A i \in DOMAIN unified[0].rma_window :
      LET content == WindowContents(unified[0])[i]
      IN NamedByUser(content) # {} =>
           unified[0].string[unified[0].rma_window[i].name]
             = NameAt(Min(NamedByUser(content)), content)
=============================================================================
