---------------------------- MODULE ConfigLoading ----------------------------
(***************************************************************************)
(* Loading a configuration, config.py and _load() of cli.py: a file is     *)
(* merged over the one it extends, the environment over every file of the  *)
(* chain, the command line over the result, which is then validated.       *)
(*                                                                         *)
(* Abstractions: a tree of maps is a function from the paths of its leaves *)
(* (sequences of keys, none of which continues another) to their values;   *)
(* what the parser of YAML makes of a file is given.                       *)
(***************************************************************************)
EXTENDS Integers, SequencesExt

CONSTANTS
  Unset,
  Files,                (* file |-> [extends, data]; others do not exist    *)
  Requested,            (* files a command may be given                     *)
  Environments,         (* sequences of [path, value]: GROKBOT_ variables   *)
  CommandLines          (* sequences of [path, value]: options, or Unset     *)

(* A variable always has a value, be it null, which is not Unset           *)
ASSUME ConfigAssumption ==
  /\ \A f \in DOMAIN Files : DOMAIN Files[f].data \subseteq Seq(STRING)
  /\ \A as \in Environments \cup CommandLines :
       as \in Seq(ToSet(as)) /\ \A a \in ToSet(as) : a.path \in Seq(STRING)
  /\ \A as \in Environments : \A a \in ToSet(as) : a.value # Unset

VARIABLES
  env, options,
  phase,                (* reading, merging, overriding, validating; ready, *)
                        (*   or the error that ended it                     *)
  file,                 (* the one to read, or to return from, next         *)
  seen,                 (* the files read, each extending the next          *)
  config                (* the tree so far                                  *)

configVars == <<env, options, phase, file, seen, config>>

NoPaths == [p \in {} |-> Unset]

Below(tree, path) == {p \in DOMAIN tree : IsPrefix(path, p)}

Above(tree, path) == {p \in DOMAIN tree : IsStrictPrefix(p, path)}

Without(tree, paths) == [p \in DOMAIN tree \ paths |-> tree[p]]

Over(tree, other) ==
  [p \in DOMAIN tree \cup DOMAIN other |-> IF p \in DOMAIN tree THEN tree[p] ELSE other[p]]

(* deep_merge(): maps are merged, and anything else is replaced, by a map  *)
(* or by a value                                                           *)
DeepMerge(base, tree) ==
  Over(tree, Without(base, UNION {Below(base, p) \cup Above(base, p) : p \in DOMAIN tree}))

(* set(): raises on the way through a value                                *)
Raises(tree, path) == Above(tree, path) # {}

Set(tree, path, value) == Over([p \in {path} |-> value], Without(tree, Below(tree, path)))

(* One assignment of _apply_env() or apply_overrides(): none after one     *)
(* that raises                                                             *)
SetNext(sofar, a) ==
  IF ~sofar.ok \/ a.value = Unset THEN sofar
  ELSE IF Raises(sofar.tree, a.path) THEN [tree |-> sofar.tree, ok |-> FALSE]
  ELSE [tree |-> Set(sofar.tree, a.path, a.value), ok |-> TRUE]

(* What has become of the tree after each assignment                       *)
Assigning(start, assignments) ==
  LET after[k \in 0..Len(assignments)] ==
        IF k = 0 THEN [tree |-> start, ok |-> TRUE] ELSE SetNext(after[k - 1], assignments[k])
  IN after

Assigned(start, assignments) == Assigning(start, assignments)[Len(assignments)]

Value(tree, path, default) == IF path \in DOMAIN tree THEN tree[path] ELSE default

(* validate()                                                              *)
Invalid(tree) ==
  LET heads == Value(tree, <<"model", "num_heads">>, 0)
      kvHeads == Value(tree, <<"model", "num_kv_heads">>, 0)
      block == Value(tree, <<"cache", "block_size">>, 16)
      maxOut == Value(tree, <<"sampling", "max_tokens">>, 0)
      maxLength == Value(tree, <<"model", "max_position_embeddings">>, 0)
      Moe(key, default) == Value(tree, <<"model", "moe", key>>, default)
  IN \/ heads # 0 /\ kvHeads # 0 /\ heads % kvHeads # 0
     \/ block \notin {0} \cup {2^n : n \in 0..16}
     \/ /\ Below(tree, <<"model", "moe">>) # {}
        /\ \/ Moe("experts_per_token", 0) > Moe("num_experts", 0)
           \/ Moe("router_dtype", Unset) # "fp32"
     \/ kvHeads # 0 /\ Value(tree, <<"runtime", "tensor_parallel">>, 1) > kvHeads
     \/ maxOut # 0 /\ maxLength # 0 /\ maxOut > maxLength

ConfigInit ==
  /\ env \in Environments /\ options \in CommandLines
  /\ phase = "reading" /\ file \in Requested /\ seen = <<>> /\ config = NoPaths

(* load(), up to the call for the file extended                            *)
Read ==
  /\ phase = "reading"
  /\ IF file \notin DOMAIN Files THEN phase' = "not found" /\ UNCHANGED <<file, seen>>
     ELSE IF file \in ToSet(seen) THEN phase' = "circular" /\ UNCHANGED <<file, seen>>
     ELSE LET extends == Files[file].extends
          IN /\ seen' = Append(seen, file)
             /\ file' = IF extends = Unset THEN file ELSE extends
             /\ phase' = IF extends = Unset THEN "merging" ELSE "reading"
  /\ UNCHANGED <<env, options, config>>

(* mutant: the environment is applied to the file that extends no other    *)
MergeEnvOnce(level) ==
  LET merged == Assigned(DeepMerge(config, Files[seen[level]].data),
                       IF level = Len(seen) THEN env ELSE <<>>)
  IN /\ config' = merged.tree
     /\ file' = seen[IF level = 1 THEN 1 ELSE level - 1]
     /\ phase' = IF ~merged.ok THEN "through a value" ELSE IF level = 1 THEN "overriding" ELSE "merging"
     /\ UNCHANGED <<env, options, seen>>

(* ... and after it has returned                                           *)
Merge(level) ==
  LET merged == Assigned(DeepMerge(config, Files[seen[level]].data), env)
  IN /\ config' = merged.tree
     /\ file' = seen[IF level = 1 THEN 1 ELSE level - 1]
     /\ phase' = IF ~merged.ok THEN "through a value" ELSE IF level = 1 THEN "overriding" ELSE "merging"
     /\ UNCHANGED <<env, options, seen>>

Return ==
  /\ phase = "merging"
  /\ \E level \in DOMAIN seen : seen[level] = file /\ Merge(level)

(* _load() asks of an option whether it is true, only of the seed whether  *)
(* it was given: --max-running 0 and --weights "" are passed over          *)
Falsy(a) == a.value = IF a.path = <<"scheduler", "max_running">> THEN 0 ELSE ""

Heard(a) ==
  [path |-> a.path, value |-> IF a.path # <<"runtime", "seed">> /\ Falsy(a) THEN Unset ELSE a.value]

Overrides == [i \in DOMAIN options |-> Heard(options[i])]

(* _load(), with the options                                               *)
Override ==
  /\ phase = "overriding"
  /\ LET overridden == Assigned(config, Overrides)
     IN /\ config' = overridden.tree
        /\ phase' = IF overridden.ok THEN "validating" ELSE "through a value"
  /\ UNCHANGED <<env, options, file, seen>>

Validate ==
  /\ phase = "validating"
  /\ phase' = IF Invalid(config) THEN "invalid" ELSE "ready"
  /\ UNCHANGED <<env, options, file, seen, config>>

ConfigNext == Read \/ Return \/ Override \/ Validate

ConfigSpec == ConfigInit /\ [][ConfigNext]_configVars

-----------------------------------------------------------------------------
(* What an assignment says, if it is one                                   *)
Said(assignments) ==
  [i \in DOMAIN assignments |->
     IF assignments[i].value = Unset THEN NoPaths
     ELSE [p \in {assignments[i].path} |-> assignments[i].value]]

(* What has a say, from the weakest: the files from the last one extended, *)
(* the variables of the environment, the options that _load() passes on    *)
Layers == [i \in DOMAIN seen |-> Files[seen[Len(seen) + 1 - i]].data] \o Said(env) \o Said(Overrides)

(* No layer after the i-th says anything of a path, below it or above it   *)
Settled(layers, i, p) ==
  \A j \in DOMAIN layers : j > i => Below(layers[j], p) \cup Above(layers[j], p) = {}

Heeded(layers) ==
  {w \in (DOMAIN layers) \X UNION {DOMAIN layers[i] : i \in DOMAIN layers} :
     w[2] \in DOMAIN layers[w[1]] /\ Settled(layers, w[1], w[2])}

LastWords(tree, layers) ==
  /\ DOMAIN tree = {w[2] : w \in Heeded(layers)}
  /\ \A w \in Heeded(layers) : tree[w[2]] = layers[w[1]][w[2]]

(* The last word wins, at every path on its own: a value is the one of the *)
(* strongest layer that says anything there, below it or above it, and     *)
(* nothing is lost that no stronger layer speaks of.  An option that is    *)
(* falsy and not the seed says nothing, as in _load(), though the          *)
(* documentation lets every flag win.  The chain of files is read to its   *)
(* end, once each; and a variable or an option is an error only where some *)
(* file or another of them has a value for a map.                          *)
LastWordWins ==
  /\ Cardinality(ToSet(seen)) = Len(seen)
  /\ phase \in {"ready", "validating", "invalid"} =>
       LastWords(config, Layers) /\ Files[Last(seen)].extends = Unset
  /\ phase = "through a value" =>
       \E a \in ToSet(env \o Overrides), i \in DOMAIN Layers : Above(Layers[i], a.path) # {}
=============================================================================
