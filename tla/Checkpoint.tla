----------------------------- MODULE Checkpoint -----------------------------
(***************************************************************************)
(* Loading a checkpoint, model/loader.py: the headers of the shards make   *)
(* up a manifest, which is held against the tensors the configuration      *)
(* calls for, and its size against the parameter count that                *)
(* model/transformer.py gives for planning memory.                         *)
(*                                                                         *)
(* Abstractions: a tensor's name is a tuple of its parts, a tensor its     *)
(* shape; a header that cannot be parsed is one that is not sound.  The    *)
(* tokenizer and the backend made once a checkpoint is loaded are left out.*)
(***************************************************************************)
EXTENDS Integers, SequencesExt

CONSTANTS
  Sections,             (* "model" sections of configurations               *)
  Checkpoints,          (* the shards weights.path may hold: sequences of   *)
                        (*   [sound, tensors], sorted by name               *)
  NoPath                (* weights.path is unset                            *)

ASSUME CheckpointAssumption ==
  /\ Sections \subseteq
       [hidden : Nat, intermediate : Nat, layers : Nat, heads : Nat \ {0}, kvHeads : Nat,
        headDim : Nat, vocab : Nat, experts : Nat, expertIntermediate : Nat,
        shared : BOOLEAN, tied : BOOLEAN, activation : STRING]
  /\ \A saved \in Checkpoints : saved \in Seq(ToSet(saved))

VARIABLES
  strict, model, shards,
  manifest,             (* of the shards read                               *)
  unread,               (* shards still to be read                          *)
  loading,              (* where load_backend() is, or what came of it      *)
  drift                 (* parameters found more than expected              *)

checkpointVars == <<strict, model, shards, manifest, unread, loading, drift>>

Gated == {"silu", "swiglu", "geglu"}

(* TransformerConfig.from_config()                                         *)
FromConfig(section) ==
  [section EXCEPT !.kvHeads = IF @ = 0 THEN section.heads ELSE @,
                  !.headDim = IF @ = 0 THEN section.hidden \div section.heads ELSE @]

(***************************************************************************)
(* param_count(): matrix by matrix.                                        *)
(***************************************************************************)
AttentionParams(m) ==
  2 * m.hidden * m.heads * m.headDim + 2 * m.hidden * m.kvHeads * m.headDim

(* mutant: two matrices, not three                                         *)
TwoMatrices(m, intermediate) == 2 * m.hidden * intermediate

DenseFfnParams(m, intermediate) ==
  (IF m.activation \in Gated THEN 3 ELSE 2) * m.hidden * intermediate

FfnParams(m) ==
  IF m.experts = 0 THEN DenseFfnParams(m, m.intermediate)
  ELSE DenseFfnParams(m, m.expertIntermediate) * m.experts + m.hidden * m.experts
         + (IF m.shared THEN DenseFfnParams(m, m.intermediate) ELSE 0)

ParamCount(m) ==
  m.layers * (AttentionParams(m) + FfnParams(m) + 2 * m.hidden)
    + (IF m.tied THEN 1 ELSE 2) * m.vocab * m.hidden + m.hidden

(***************************************************************************)
(* expected_tensors(): name |-> shape.                                     *)
(***************************************************************************)
Mlp(m, intermediate) ==
  [part \in {"gate_proj", "up_proj", "down_proj"} |->
     IF part = "down_proj" THEN <<m.hidden, intermediate>> ELSE <<intermediate, m.hidden>>]

Named(prefix, tensors) ==
  [name \in {Append(prefix, part) : part \in DOMAIN tensors} |-> tensors[Last(name)]]

Attention(m) ==
  [q_proj |-> <<m.heads * m.headDim, m.hidden>>, k_proj |-> <<m.kvHeads * m.headDim, m.hidden>>,
   v_proj |-> <<m.kvHeads * m.headDim, m.hidden>>, o_proj |-> <<m.hidden, m.heads * m.headDim>>,
   input_layernorm |-> <<m.hidden>>, post_attention_layernorm |-> <<m.hidden>>]

(* The tensors of all of them, which have no name in common                *)
Together(functions) ==
  [name \in UNION {DOMAIN functions[i] : i \in DOMAIN functions} |->
     functions[CHOOSE i \in DOMAIN functions : name \in DOMAIN functions[i]][name]]

OneTensor(name, shape) == [n \in {name} |-> shape]

(* The gate, the experts and the one that all tokens share                 *)
MoeTensors(m, i) ==
  Together(<<OneTensor(<<i, "mlp", "gate">>, <<m.experts, m.hidden>>),
             Together([e \in 1..m.experts |-> Named(<<i, "mlp", "experts", e>>, Mlp(m, m.expertIntermediate))]),
             IF m.shared THEN Named(<<i, "mlp", "shared_expert">>, Mlp(m, m.intermediate)) ELSE <<>>>>)

Layer(m, i) ==
  Together(<<Named(<<i>>, Attention(m)),
             IF m.experts = 0 THEN Named(<<i, "mlp">>, Mlp(m, m.intermediate)) ELSE MoeTensors(m, i)>>)

ExpectedTensors(m) ==
  Together(<<OneTensor(<<"embed_tokens">>, <<m.vocab, m.hidden>>),
             OneTensor(<<"norm">>, <<m.hidden>>),
             IF m.tied THEN <<>> ELSE OneTensor(<<"lm_head">>, <<m.vocab, m.hidden>>),
             Together([i \in 1..m.layers |-> Layer(m, i)])>>)

NumElements(shape) ==
  LET product[k \in 0..Len(shape)] == IF k = 0 THEN 1 ELSE product[k - 1] * shape[k]
  IN product[Len(shape)]

Elements(tensors) == SumFunction([name \in DOMAIN tensors |-> NumElements(tensors[name])])

(* validate_manifest(): the tensors something is wrong with                *)
Problems(found, m) ==
  LET expected == ExpectedTensors(m)
  IN (DOMAIN expected \ DOMAIN found)
     \cup (IF strict THEN DOMAIN found \ DOMAIN expected ELSE {})
     \cup {name \in DOMAIN expected \cap DOMAIN found : found[name] # expected[name]}

(* A tensor in two shards is that of the later one                         *)
Updated(found, tensors) ==
  [name \in DOMAIN found \cup DOMAIN tensors |->
     IF name \in DOMAIN tensors THEN tensors[name] ELSE found[name]]

CheckpointInit ==
  /\ strict \in BOOLEAN
  /\ \E section \in Sections : model = FromConfig(section)
  /\ shards \in Checkpoints \cup {NoPath}
  /\ manifest = <<>> /\ unread = <<>> /\ loading = "discover" /\ drift = 0

(* No weights, or no shard among them                                      *)
Discover ==
  /\ loading = "discover"
  /\ loading' = IF shards = NoPath THEN IF strict THEN "refused" ELSE "synthetic"
                ELSE IF shards = <<>> THEN "refused" ELSE "reading"
  /\ unread' = IF shards = NoPath THEN <<>> ELSE shards
  /\ UNCHANGED <<strict, model, shards, manifest, drift>>

(* The next header                                                         *)
ReadHeader ==
  /\ loading = "reading" /\ unread # <<>>
  /\ IF Head(unread).sound
       THEN manifest' = Updated(manifest, Head(unread).tensors) /\ UNCHANGED loading
       ELSE loading' = "refused" /\ UNCHANGED manifest
  /\ unread' = Tail(unread)
  /\ UNCHANGED <<strict, model, shards, drift>>

(* A mismatch is an error where the caller is strict, otherwise a warning  *)
ValidateManifest ==
  /\ loading = "reading" /\ unread = <<>>
  /\ IF strict /\ Problems(manifest, model) # {}
       THEN loading' = "refused" /\ UNCHANGED drift
       ELSE loading' = "loaded" /\ drift' = Elements(manifest) - ParamCount(model)
  /\ UNCHANGED <<strict, model, shards, manifest, unread>>

CheckpointNext == Discover \/ ReadHeader \/ ValidateManifest

CheckpointSpec == CheckpointInit /\ [][CheckpointNext]_checkpointVars

-----------------------------------------------------------------------------
(* The last shard that has a tensor                                        *)
LastWith(name) ==
  CHOOSE i \in DOMAIN shards :
    /\ name \in DOMAIN shards[i].tensors
    /\ \A j \in DOMAIN shards : name \in DOMAIN shards[j].tensors => j <= i

(* A strict load succeeds with just the checkpoints in which every tensor, *)
(* in the last shard that has it, is one the model calls for, of the shape *)
(* it calls for; and what the loader calls a complete checkpoint has as    *)
(* many parameters as memory is planned for: the two lists of the model's  *)
(* matrices agree, whatever its attention, experts and embeddings.         *)
CheckpointExact ==
  LET expected == ExpectedTensors(model)
      Present == UNION {DOMAIN shards[i].tensors : i \in DOMAIN shards}
      exact == /\ Present = DOMAIN expected
               /\ \A name \in Present : shards[LastWith(name)].tensors[name] = expected[name]
      sound == shards # <<>> /\ \A i \in DOMAIN shards : shards[i].sound
  IN shards # NoPath =>
       /\ loading = "loaded" => sound /\ (strict => exact)
       /\ loading = "refused" => ~sound \/ (strict /\ ~exact)
       /\ loading = "loaded" /\ exact /\ model.activation \in Gated => drift = 0
=============================================================================
