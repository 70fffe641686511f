------------------------------ MODULE MCVllmPort ------------------------------
(***************************************************************************)
(* Model-checking instances of VllmPort: layer counts that are a multiple  *)
(* of the interval and not, as many ranks as key-value heads, fewer and    *)
(* more, and checkpoints in order, reversed and, if tied, without lm_head.   *)
(***************************************************************************)
EXTENDS VllmPort, SequencesExt

PerLayer == <<"input_layernorm", "q_proj", "k_proj", "v_proj", "o_proj",
              "post_attention_layernorm", "gate_proj", "up_proj", "down_proj">>
Stack(layers) ==
  [k \in 1 .. 9 * layers |-> Name((k - 1) \div 9, PerLayer[((k - 1) % 9) + 1])]

MCCheckpoint(c) ==
  LET head == <<Top("lm_head")>>
      rest == <<Top("embed_tokens")>> \o Stack(c.layers) \o <<Top("norm")>>
  IN {rest \o head, Reverse(rest \o head)} \cup IF c.tied THEN {rest} ELSE {}

Shapes ==
  {[layers |-> 4, interval |-> 2, heads |-> 4, kv |-> 2, tp |-> 1],
   [layers |-> 3, interval |-> 2, heads |-> 4, kv |-> 2, tp |-> 4],
   [layers |-> 2, interval |-> 1, heads |-> 4, kv |-> 2, tp |-> 2]}
MCConfigs ==
  {[vllm |-> v, tied |-> t, layers |-> s.layers, interval |-> s.interval,
    heads |-> s.heads, kv |-> s.kv, tp |-> s.tp, caches |-> k] :
     v \in BOOLEAN, t \in BOOLEAN, k \in BOOLEAN, s \in Shapes}

MCLayouts ==
  {[registry |-> <<"other", "stablelm", "starcoder2", "transformers">>,
    init |-> <<"model_import", "other", "__all__">>],
   [registry |-> <<"transformers_inline", "starcoder2">>, init |-> <<"__all__">>],
   [init |-> <<"_GENERATION_MODELS", "other", "stablelm", "other">>],
   [registry |-> <<"other", "native_comma", "stablelm">>],
   [registry |-> <<"other", "transformers">>, init |-> <<"other">>]}

=============================================================================
