------------------------------- MODULE SmolLM3 -------------------------------
(***************************************************************************)
(* vllm_port/smollm3.py: building SmolLM3ForCausalLM, loading a checkpoint *)
(* into it, and one forward pass, with vLLM's layers and with the          *)
(* stand-alone ones the tests use.                                         *)
(*                                                                         *)
(* A tensor is what it was made from: a parameter is the set of checkpoint *)
(* weights it holds; a hidden state is the bag of the outputs (of the      *)
(* embedding, an attention, an MLP) whose sum it is.                       *)
(***************************************************************************)
EXTENDS Integers, Sequences, FiniteSets, Bags

CONSTANTS
  Configs,      \* vllm: _VLLM_AVAILABLE; tied: tie_word_embeddings; layers:
                \* num_hidden_layers; interval: nope_layer_interval; heads, kv
                \* and tp: attention heads, key-value heads, world size;
                \* caches: forward is given kv_caches
  Checkpoint(_) \* the orders in which the weights of c.layers layers may come

VARIABLES
  conf,      \* the configuration
  weights,   \* the weights load_weights has not seen yet
  params,    \* the contents of the parameters
  layer,     \* the layer that comes next in Model.forward
  at,        \* what comes next: "load", "embed", "attn", "mlp",
             \* "norm", "done"
  hidden_states, residual,
  normed,    \* what the last RMSNorm normalised
  rotated,   \* the layers that rotated q and k
  kv_used    \* the index of the cache each layer was given, or None

mvars == <<conf, weights, params, layer, at, hidden_states, residual, normed, rotated, kv_used>>

(***************************************************************************)
(* Names: the layer, or -1 for the top of the model, and the last parts.   *)
(***************************************************************************)
Name(l, module) == [layer |-> l, path |-> <<module, "weight">>]
Top(module) == Name(-1, module)

(* The checkpoint has each projection for itself. *)
Projections == {"q_proj", "k_proj", "v_proj", "o_proj", "gate_proj", "up_proj", "down_proj"}
Norms == {"input_layernorm", "post_attention_layernorm"}
HFNames(layers) ==
  {Name(l, m) : l \in 0 .. layers - 1, m \in Projections \cup Norms}
    \cup {Top("embed_tokens"), Top("norm"), Top("lm_head")}

(* The parameters of an attention block and of an MLP. *)
AttentionParams(vllm) ==
  IF vllm THEN {"qkv_proj", "o_proj"} ELSE {"q_proj", "k_proj", "v_proj", "o_proj"}
MLPParams == {"gate_up_proj", "down_proj"}

(* dict(self.named_parameters()), the biases of stand-alone norms left out *)
named_parameters(c) ==
  {Name(l, m) : l \in 0 .. c.layers - 1, m \in AttentionParams(c.vllm) \cup MLPParams \cup Norms}
    \cup {Top("embed_tokens"), Top("norm"), Top("lm_head")}

stacked_params_mapping ==
  {<<"q_proj", "qkv_proj">>, <<"k_proj", "qkv_proj">>, <<"v_proj", "qkv_proj">>,
   <<"gate_proj", "gate_up_proj">>, <<"up_proj", "gate_up_proj">>}

(* name.endswith(suffix): a name ends with its last part. *)
endswith(name, suffix) == name.path[Len(name.path)] = suffix
replace(name, suffix, by) ==
  [name EXCEPT !.path = [i \in DOMAIN @ |-> IF @[i] = suffix THEN by ELSE @[i]]]

(***************************************************************************)
(* __init__: heads per rank, and the layers with rotary embeddings.        *)
(***************************************************************************)
num_heads(c) == c.heads \div c.tp

(* Fault: more ranks than heads leave a rank with none. *)
KVHeadsDivided(c) == c.kv \div c.tp

num_kv_heads(c) == IF c.kv \div c.tp > 1 THEN c.kv \div c.tp ELSE 1

(* Fault: the interval's first layer goes without. *)
UseRopeFromZero(c, layer_idx) == layer_idx % c.interval # 0

use_rope(c, layer_idx) == layer_idx % c.interval # c.interval - 1

(* The configurations have positive sizes; a checkpoint has the weights of *)
(* its configuration, and only the head may be missing from a tied one.    *)
ASSUME WellFormedAssumption ==
  \A c \in Configs :
    /\ c.vllm \in BOOLEAN /\ c.tied \in BOOLEAN
    /\ {c.layers, c.interval, c.heads, c.kv, c.tp} \subseteq Nat \ {0}
    /\ \A w \in Checkpoint(c) :
         /\ w \in Seq(HFNames(c.layers))
         /\ \A n \in HFNames(c.layers) :
              (n = Top("lm_head") /\ c.tied) \/ \E i \in 1 .. Len(w) : w[i] = n

ModelInit ==
  /\ conf \in Configs
  /\ weights \in Checkpoint(conf)
  /\ params = [p \in named_parameters(conf) |-> {}]
  /\ layer = 0 /\ at = "load"
  /\ hidden_states = EmptyBag /\ residual = EmptyBag /\ normed = EmptyBag
  /\ rotated = {} /\ kv_used = <<>>

(* Fault: lm_head.weight is skipped in an untied model too. *)
SkipHead(name) == name = Top("lm_head")

(* name == "lm_head.weight" and self.tie_word_embeddings *)
Skipped(name) == name = Top("lm_head") /\ conf.tied

(***************************************************************************)
(* One turn of load_weights' loop.  Stacked weights are copied only by     *)
(* vLLM's loaders; names without a parameter are passed over.              *)
(***************************************************************************)
load_weight ==
  LET name == Head(weights)
      targets == {replace(name, m[1], m[2]) : m \in {m \in stacked_params_mapping : endswith(name, m[1])}}
      stacked == targets \cap DOMAIN params
  IN
  /\ at = "load" /\ weights # <<>>
  /\ weights' = Tail(weights)
  /\ params' =
       CASE Skipped(name) -> params
         [] ~Skipped(name) /\ stacked # {} ->
              [p \in DOMAIN params |->
                 IF p \in stacked /\ conf.vllm THEN params[p] \cup {name} ELSE params[p]]
         [] ~Skipped(name) /\ stacked = {} /\ name \in DOMAIN params ->
              [params EXCEPT ![name] = {name}]
         [] OTHER -> params
  /\ UNCHANGED <<conf, layer, at, hidden_states, residual, normed, rotated, kv_used>>

(* The end of load_weights. *)
tie_weights ==
  /\ at = "load" /\ weights = <<>>
  /\ params' = IF conf.tied
               THEN [params EXCEPT ![Top("lm_head")] = params[Top("embed_tokens")]]
               ELSE params
  /\ at' = "embed"
  /\ UNCHANGED <<conf, weights, layer, hidden_states, residual, normed, rotated, kv_used>>

(* Model.forward up to its loop. *)
embed_tokens ==
  /\ at = "embed" /\ at' = "attn"
  /\ hidden_states' = SetToBag({<<"embed", 0>>}) /\ residual' = EmptyBag
  /\ UNCHANGED <<conf, weights, params, layer, normed, rotated, kv_used>>

(* Fault: the block's input is not added. *)
Forget(x, r) == x

(* RMSNorm(x, residual), or the addition in front of the stand-alone norm; *)
(* at the first layer residual is None, the empty bag, and x is kept.      *)
Add(x, r) == x (+) r

None == -1

(* kv_caches[i] if kv_caches else None *)
CacheOf(i) == IF conf.caches THEN i ELSE None

(* DecoderLayer.forward up to the attention's output ... *)
attention ==
  /\ at = "attn"
  /\ normed' = Add(hidden_states, residual) /\ residual' = normed'
  /\ hidden_states' = SetToBag({<<"attn", layer>>})
  /\ rotated' = IF conf.vllm /\ use_rope(conf, layer) THEN rotated \cup {layer} ELSE rotated
  /\ kv_used' = Append(kv_used, CacheOf(layer))
  /\ at' = "mlp"
  /\ UNCHANGED <<conf, weights, params, layer>>

(* The loop over self.layers is through. *)
Through(l) == l = conf.layers

(* ... and from there to its return. *)
mlp ==
  /\ at = "mlp"
  /\ normed' = Add(hidden_states, residual) /\ residual' = normed'
  /\ hidden_states' = SetToBag({<<"mlp", layer>>})
  /\ layer' = layer + 1
  /\ at' = IF Through(layer') THEN "norm" ELSE "attn"
  /\ UNCHANGED <<conf, weights, params, rotated, kv_used>>

norm ==
  /\ at = "norm" /\ at' = "done"
  /\ normed' = Add(hidden_states, residual)
  /\ hidden_states' = normed'
  /\ UNCHANGED <<conf, weights, params, layer, residual, rotated, kv_used>>

ModelNext == load_weight \/ tie_weights \/ embed_tokens \/ attention \/ mlp \/ norm

ModelSpec == ModelInit /\ [][ModelNext]_mvars

-----------------------------------------------------------------------------
(* The checkpoint's weights that make up a parameter. *)
PartsOf(p) ==
  LET stacked == {m[1] : m \in {m \in stacked_params_mapping : m[2] = p.path[1]}}
  IN IF stacked = {} THEN {p} ELSE {Name(p.layer, m) : m \in stacked}

(* Whatever the order of the checkpoint, no parameter gets a weight of     *)
(* another layer or place; a parameter the checkpoint has under its own    *)
(* name ends up with that weight, and lm_head with the embedding's if they *)
(* are tied, even where the checkpoint has an lm_head.weight of its own.   *)
WeightsInPlace ==
  \A p \in DOMAIN params :
    LET source == IF p = Top("lm_head") /\ conf.tied THEN Top("embed_tokens") ELSE p
    IN /\ params[p] \subseteq PartsOf(source)
       /\ at # "load" /\ source \in HFNames(conf.layers) => params[p] = {source}

(* After load_weights no parameter is left without its weights.            *)
AllWeightsLoaded ==
  at # "load" /\ conf.vllm => \A p \in DOMAIN params \ {Top("lm_head")} : params[p] = PartsOf(p)

(* The pre-norm block x = x + Attention(RMSNorm(x)), x = x + MLP(RMSNorm(x)): *)
(* each norm sees the embedding and every earlier block's output once.     *)
PreNormStream ==
  normed # EmptyBag =>
    LET outputs == {<<"embed", 0>>} \cup {<<b, l>> : b \in {"attn", "mlp"}, l \in 0 .. layer - 1}
    IN normed = SetToBag(
         CASE at = "mlp" -> outputs
           [] at \in {"attn", "norm"} -> outputs \ {<<"mlp", layer - 1>>}
           [] at = "done" -> outputs)

(* A forward pass goes through the layers with their own caches, or all    *)
(* without one; with vLLM layers // interval of them, the last of each     *)
(* group, do without rotary embeddings.                                    *)
LayerPlan ==
  at \in {"norm", "done"} =>
    /\ kv_used = [i \in 1 .. conf.layers |-> IF conf.caches THEN i - 1 ELSE None]
    /\ conf.vllm =>
         /\ Cardinality(rotated) = conf.layers - conf.layers \div conf.interval
         /\ \A i \in 1 .. conf.layers \div conf.interval : i * conf.interval - 1 \notin rotated

(* The slices attention cuts the rank's qkv_proj output into are what      *)
(* QKVParallelLinear gives a rank: its share of the query heads, and of    *)
(* the key-value heads or, with more ranks than those, one each.           *)
HeadsPerRank ==
  conf.heads % conf.tp = 0 /\ (conf.kv % conf.tp = 0 \/ conf.tp % conf.kv = 0) =>
    /\ num_heads(conf) * conf.tp = conf.heads
    /\ num_kv_heads(conf) * conf.tp = IF conf.kv > conf.tp THEN conf.kv ELSE conf.tp

=============================================================================
