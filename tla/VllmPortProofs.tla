---------------------------- MODULE VllmPortProofs ----------------------------
(***************************************************************************)
(* What loading and one forward pass of vllm_port/smollm3.py establish for *)
(* every configuration and every order of the checkpoint, what the patch   *)
(* scripts keep of every installed vLLM however often they run, and that   *)
(* the port as a whole, which does the one after the other, has both.      *)
(***************************************************************************)
EXTENDS VllmPort, PlacesProofs

USE SMTT(30), ZenonT(30)

-----------------------------------------------------------------------------
(***************************************************************************)
(* load_weights.                                                           *)
(***************************************************************************)
LmHead == Top("lm_head")
Source(p) == IF p = LmHead /\ conf.tied THEN Top("embed_tokens") ELSE p

(* A weight of the checkpoint is still to come or is in its parameter. *)
LoadInv ==
  /\ conf \in Configs
  /\ weights \in Seq(HFNames(conf.layers))
  /\ params \in [named_parameters(conf) -> SUBSET HFNames(conf.layers)]
  /\ \A p \in named_parameters(conf) : params[p] \subseteq {Source(p)}
  /\ at = "load" =>
       \A p \in named_parameters(conf) :
         p \in HFNames(conf.layers) /\ ~(p = LmHead /\ conf.tied) =>
           params[p] = {p} \/ \E i \in 1 .. Len(weights) : weights[i] = p
  /\ at # "load" =>
       \A p \in named_parameters(conf) :
         Source(p) \in HFNames(conf.layers) => params[p] = {Source(p)}

(* No name of a checkpoint ends with the name of a projection: its last    *)
(* part is "weight".  So stacked_params_mapping never applies.             *)
LEMMA NothingStacked ==
  ASSUME NEW layers, NEW n \in HFNames(layers), NEW m \in stacked_params_mapping
  PROVE  ~endswith(n, m[1])
<1>1. PICK l, x : n = Name(l, x)
  BY DEF HFNames, Top
<1>2. n.path[Len(n.path)] = "weight"
  BY <1>1 DEF Name
<1>3. m[1] # "weight"
  BY DEF stacked_params_mapping
<1> QED
  BY <1>2, <1>3 DEF endswith

(* A parameter the checkpoint names has no other part. *)
LEMMA OwnPart ==
  ASSUME NEW layers, NEW n \in HFNames(layers)
  PROVE  PartsOf(n) = {n}
<1>1. PICK l, x : n = Name(l, x) /\ x \notin {"qkv_proj", "gate_up_proj"}
  BY DEF HFNames, Top, Projections, Norms
<1>2. n.path[1] = x
  BY <1>1 DEF Name
<1>3. {m \in stacked_params_mapping : m[2] = n.path[1]} = {}
  BY <1>1, <1>2 DEF stacked_params_mapping
<1> QED
  BY <1>3 DEF PartsOf

LEMMA TopNames ==
  ASSUME NEW c
  PROVE  /\ LmHead \in named_parameters(c) /\ Top("embed_tokens") \in named_parameters(c)
         /\ Top("embed_tokens") \in HFNames(c.layers)
         /\ Top("embed_tokens") # LmHead
BY DEF LmHead, Top, Name, named_parameters, HFNames

(* What is left of the weights after the first. *)
LEMMA TailKeeps ==
  ASSUME NEW S, NEW w \in Seq(S), w # <<>>
  PROVE  /\ Head(w) \in S /\ Tail(w) \in Seq(S)
         /\ \A p : (\E i \in 1 .. Len(w) : w[i] = p) =>
              p = Head(w) \/ \E i \in 1 .. Len(Tail(w)) : Tail(w)[i] = p
<1>1. Head(w) \in S /\ Tail(w) \in Seq(S)
  OBVIOUS
<1>2. ASSUME NEW p, NEW i \in 1 .. Len(w), w[i] = p, p # Head(w)
      PROVE  \E j \in 1 .. Len(Tail(w)) : Tail(w)[j] = p
  <2>1. i # 1
    BY <1>2
  <2>2. i - 1 \in 1 .. Len(Tail(w)) /\ Tail(w)[i - 1] = w[i]
    BY <2>1
  <2> QED
    BY <1>2, <2>2
<1> QED
  BY <1>1, <1>2

LEMMA InitLoadInv ==
  ASSUME ModelInit
  PROVE  LoadInv
<1>1. /\ conf \in Configs /\ weights \in Checkpoint(conf) /\ at = "load"
      /\ params = [p \in named_parameters(conf) |-> {}]
  BY DEF ModelInit
<1>2. /\ weights \in Seq(HFNames(conf.layers))
      /\ \A n \in HFNames(conf.layers) :
           (n = LmHead /\ conf.tied) \/ \E i \in 1 .. Len(weights) : weights[i] = n
  BY ZenonT(30), <1>1, WellFormedAssumption DEF LmHead
<1> QED
  BY <1>1, <1>2 DEF LoadInv

LEMMA LoadWeight ==
  ASSUME LoadInv, load_weight
  PROVE  LoadInv'
<1> DEFINE name == Head(weights)
           Names == HFNames(conf.layers)
           P == named_parameters(conf)
<1>1. /\ name \in Names /\ weights' \in Seq(Names) /\ at = "load" /\ at' = at /\ conf' = conf
      /\ \A p : (\E i \in 1 .. Len(weights) : weights[i] = p) =>
           p = name \/ \E i \in 1 .. Len(weights') : weights'[i] = p
  <2>1. weights # <<>> /\ weights' = Tail(weights) /\ at = "load" /\ at' = at /\ conf' = conf
    BY DEF load_weight
  <2>2. weights \in Seq(Names)
    BY DEF LoadInv
  <2> HIDE DEF Names, P
  <2> QED
    BY <2>1, <2>2, TailKeeps
<1>2. {m \in stacked_params_mapping : endswith(name, m[1])} = {}
  BY <1>1, NothingStacked
<1>3. params' = IF Skipped(name) \/ name \notin P THEN params
                ELSE [params EXCEPT ![name] = {name}]
  BY <1>2 DEF load_weight, LoadInv
<1>4. params' \in [P -> SUBSET Names]
  BY <1>1, <1>3 DEF LoadInv
<1>5. \A p \in P : params'[p] = IF p = name /\ ~Skipped(name) THEN {name} ELSE params[p]
  BY <1>3 DEF LoadInv
<1>6. Skipped(name) <=> name = LmHead /\ conf.tied
  BY DEF Skipped, LmHead
<1>7. \A p \in P : params'[p] \subseteq {Source(p)}
  BY <1>5, <1>6 DEF LoadInv, Source
<1>8. \A p \in P : p \in Names /\ ~(p = LmHead /\ conf.tied) =>
           params'[p] = {p} \/ \E i \in 1 .. Len(weights') : weights'[i] = p
  BY ZenonT(30), <1>1, <1>5, <1>6 DEF LoadInv
<1> QED
  BY <1>1, <1>4, <1>7, <1>8 DEF LoadInv, Source

LEMMA TieWeights ==
  ASSUME LoadInv, tie_weights
  PROVE  LoadInv'
<1> DEFINE Names == HFNames(conf.layers)
           P == named_parameters(conf)
           Emb == Top("embed_tokens")
<1>1. /\ weights = <<>> /\ weights' = weights /\ conf' = conf /\ at = "load" /\ at' = "embed"
      /\ params' = IF conf.tied THEN [params EXCEPT ![LmHead] = params[Emb]] ELSE params
  BY DEF tie_weights, LmHead
<1>2. LmHead \in P /\ Emb \in P /\ Emb \in Names /\ Emb # LmHead
  BY TopNames
<1>3. \A p \in P : p \in Names /\ ~(p = LmHead /\ conf.tied) => params[p] = {p}
  BY <1>1 DEF LoadInv
<1>4. params' \in [P -> SUBSET Names]
  BY <1>1, <1>2 DEF LoadInv
<1>5. \A p \in P : params'[p] = IF p = LmHead /\ conf.tied THEN params[Emb] ELSE params[p]
  BY <1>1, <1>2 DEF LoadInv
<1>6. params[Emb] = {Emb}
  BY <1>2, <1>3
<1>7. \A p \in P : Source(p) \in Names => params'[p] = {Source(p)}
  BY <1>3, <1>5, <1>6 DEF Source
<1>8. \A p \in P : params'[p] \subseteq {Source(p)}
  BY <1>5, <1>6 DEF LoadInv, Source
<1> QED
  BY <1>1, <1>4, <1>7, <1>8 DEF LoadInv, Source

LEMMA ForwardLoadInv ==
  ASSUME LoadInv, UNCHANGED <<conf, weights, params>>, at' = "load" <=> at = "load"
  PROVE  LoadInv'
BY DEF LoadInv, Source

LEMMA NextLoadInv ==
  ASSUME LoadInv, [ModelNext]_mvars
  PROVE  LoadInv'
<1>1. CASE embed_tokens
  BY <1>1, ForwardLoadInv DEF embed_tokens
<1>2. CASE attention
  BY <1>2, ForwardLoadInv DEF attention
<1>3. CASE mlp
  BY <1>3, ForwardLoadInv DEF mlp
<1>4. CASE norm
  BY <1>4, ForwardLoadInv DEF norm
<1>5. CASE UNCHANGED mvars
  BY <1>5, ForwardLoadInv DEF mvars
<1> QED
  BY <1>1, <1>2, <1>3, <1>4, <1>5, LoadWeight, TieWeights DEF ModelNext

LEMMA LoadInvPlace ==
  LoadInv => WeightsInPlace
<1> SUFFICES ASSUME LoadInv, NEW p \in DOMAIN params
             PROVE  /\ params[p] \subseteq PartsOf(Source(p))
                    /\ at # "load" /\ Source(p) \in HFNames(conf.layers) => params[p] = {Source(p)}
  BY DEF WeightsInPlace, Source, LmHead
<1>1. /\ p \in named_parameters(conf) /\ params[p] \subseteq HFNames(conf.layers)
      /\ params[p] \subseteq {Source(p)}
  BY DEF LoadInv
<1>2. params[p] \subseteq PartsOf(Source(p))
  BY <1>1, OwnPart
<1> QED
  BY <1>1, <1>2 DEF LoadInv

(* load_weights puts no weight into another one's parameter, and each      *)
(* parameter that has a weight of its own name gets it, for every number   *)
(* of layers and every order of the checkpoint; lm_head is tied to the     *)
(* embedding whether or not the checkpoint has a head.                     *)
THEOREM PlacedWeights == ModelSpec => []WeightsInPlace
<1>1. LoadInv /\ [ModelNext]_mvars => LoadInv'
  BY NextLoadInv
<1> QED
  BY <1>1, InitLoadInv, LoadInvPlace, PTL DEF ModelSpec

-----------------------------------------------------------------------------
(***************************************************************************)
(* The residual stream.                                                    *)
(***************************************************************************)
(* The outputs of the embedding and of the first n blocks of each kind. *)
Outputs(n) == {<<"embed", 0>>} \cup {<<b, l>> : b \in {"attn", "mlp"}, l \in 0 .. n - 1}

(* What Model.forward carries from one block to the next: the block's      *)
(* output, and in residual the sum of all that came before it.             *)
StreamInv ==
  /\ layer \in Nat
  /\ at \in {"load", "embed"} => layer = 0 /\ normed = EmptyBag
  /\ at = "attn" /\ layer = 0 =>
       /\ normed = EmptyBag /\ residual = EmptyBag
       /\ hidden_states = SetToBag({<<"embed", 0>>})
  /\ at = "mlp" =>
       /\ normed = SetToBag(Outputs(layer)) /\ residual = normed
       /\ hidden_states = SetToBag({<<"attn", layer>>})
  /\ at = "norm" \/ (at = "attn" /\ layer # 0) =>
       /\ layer # 0 /\ residual = normed
       /\ normed = SetToBag(Outputs(layer) \ {<<"mlp", layer - 1>>})
       /\ hidden_states = SetToBag({<<"mlp", layer - 1>>})
  /\ at = "done" => normed = SetToBag(Outputs(layer))
  /\ at \in {"load", "embed", "attn", "mlp", "norm", "done"}

(* Adding a residual that has none of the summands of x. *)
LEMMA AddDisjoint ==
  ASSUME NEW S, NEW T, S \cap T = {}
  PROVE  Add(SetToBag(S), SetToBag(T)) = SetToBag(S \cup T)
BY DEF Add, SetToBag, (+)

LEMMA StreamStep ==
  ASSUME StreamInv, [ModelNext]_mvars
  PROVE  StreamInv'
<1>1. CASE load_weight \/ tie_weights \/ UNCHANGED mvars
  BY Zenon, <1>1 DEF load_weight, tie_weights, mvars, StreamInv
<1>2. CASE embed_tokens
  BY <1>2 DEF embed_tokens, StreamInv
<1>3. CASE attention
  <2>1. normed' = Add(hidden_states, residual) /\ residual' = normed' /\ layer' = layer
        /\ hidden_states' = SetToBag({<<"attn", layer>>}) /\ at = "attn" /\ at' = "mlp"
    BY <1>3 DEF attention
  <2>2. CASE layer = 0
    <3>1. Outputs(layer) = {<<"embed", 0>>} \cup {}
      BY <2>2 DEF Outputs
    <3>2. EmptyBag = SetToBag({})
      BY DEF EmptyBag
    <3>3. normed' = SetToBag(Outputs(layer))
      BY <2>1, <2>2, <3>1, <3>2, AddDisjoint DEF StreamInv
    <3> QED
      BY <2>1, <3>3 DEF StreamInv
  <2>3. CASE layer # 0
    <3> DEFINE last == {<<"mlp", layer - 1>>}
    <3>1. Outputs(layer) = last \cup (Outputs(layer) \ last)
      BY <2>3 DEF Outputs, StreamInv
    <3>2. normed' = Add(SetToBag(last), SetToBag(Outputs(layer) \ last))
      BY <2>1, <2>3 DEF StreamInv
    <3>3. normed' = SetToBag(last \cup (Outputs(layer) \ last))
      BY <3>2, AddDisjoint
    <3> QED
      BY ZenonT(30), <2>1, <3>1, <3>3 DEF StreamInv
  <2> QED
    BY <2>2, <2>3
<1>4. CASE mlp
  <2>1. /\ normed' = Add(hidden_states, residual) /\ residual' = normed' /\ layer' = layer + 1
        /\ hidden_states' = SetToBag({<<"mlp", layer>>})
        /\ at = "mlp" /\ at' \in {"attn", "norm"}
    BY <1>4 DEF mlp
  <2>2. layer \in Nat /\ layer + 1 \in Nat /\ layer + 1 # 0 /\ layer + 1 - 1 = layer
    BY DEF StreamInv
  <2>3. {<<"attn", layer>>} \cap Outputs(layer) = {}
    BY <2>2 DEF Outputs
  <2>4. {<<"attn", layer>>} \cup Outputs(layer) = Outputs(layer + 1) \ {<<"mlp", layer>>}
    BY <2>2 DEF Outputs
  <2>5. normed' = SetToBag(Outputs(layer + 1) \ {<<"mlp", layer>>})
    BY <2>1, <2>3, <2>4, AddDisjoint DEF StreamInv
  <2> QED
    BY <2>1, <2>2, <2>5 DEF StreamInv
<1>5. CASE norm
  <2> DEFINE last == {<<"mlp", layer - 1>>}
  <2>1. normed' = Add(hidden_states, residual) /\ layer' = layer /\ at = "norm" /\ at' = "done"
    BY <1>5 DEF norm
  <2>2. layer \in Nat /\ layer # 0
    BY <2>1 DEF StreamInv
  <2>3. Outputs(layer) = last \cup (Outputs(layer) \ last)
    BY <2>2 DEF Outputs
  <2>4. normed' = Add(SetToBag(last), SetToBag(Outputs(layer) \ last))
    BY <2>1 DEF StreamInv
  <2>5. normed' = SetToBag(last \cup (Outputs(layer) \ last))
    BY <2>4, AddDisjoint
  <2> QED
    BY <2>1, <2>2, <2>3, <2>5 DEF StreamInv
<1> QED
  BY <1>1, <1>2, <1>3, <1>4, <1>5 DEF ModelNext

(* Every RMSNorm of a forward pass normalises the sum of the embedding and *)
(* of each earlier block's output, each exactly once, for any number of    *)
(* layers.                                                                 *)
THEOREM ResidualStream == ModelSpec => []PreNormStream
<1>1. ModelInit => StreamInv
  BY DEF ModelInit, StreamInv
<1>2. StreamInv /\ [ModelNext]_mvars => StreamInv'
  BY StreamStep
<1>3. StreamInv => PreNormStream
  BY DEF StreamInv, PreNormStream, Outputs
<1> QED
  BY <1>1, <1>2, <1>3, PTL DEF ModelSpec

-----------------------------------------------------------------------------
(***************************************************************************)
(* The layers with rotary embeddings, and the heads of a rank: arithmetic. *)
(***************************************************************************)
(* Quotient and remainder, ... *)
LEMMA DivMod ==
  ASSUME NEW n \in Nat, NEW k \in Nat \ {0}
  PROVE  /\ n \div k \in Nat /\ n % k \in 0 .. k - 1
         /\ n = k * (n \div k) + (n % k)
OBVIOUS

(* ... their uniqueness, ... *)
LEMMA DivModUnique ==
  ASSUME NEW k \in Nat \ {0}, NEW q \in Nat, NEW p \in Nat,
         NEW r \in 0 .. k - 1, NEW s \in 0 .. k - 1, k * q + r = k * p + s
  PROVE  q = p /\ r = s
<1>1. CASE q > p
  <2>1. k * q >= k * (p + 1)
    BY <1>1
  <2> QED
    BY <2>1
<1>2. CASE q < p
  <2>1. k * p >= k * (q + 1)
    BY <1>2
  <2> QED
    BY <2>1
<1> QED
  BY <1>1, <1>2

(* ... how the quotient grows, ... *)
LEMMA DivSucc ==
  ASSUME NEW n \in Nat, NEW k \in Nat \ {0}
  PROVE  (n + 1) \div k = IF n % k = k - 1 THEN n \div k + 1 ELSE n \div k
<1>1. /\ n \div k \in Nat /\ n % k \in 0 .. k - 1 /\ n = k * (n \div k) + (n % k)
  BY Zenon, DivMod
<1>2. /\ (n + 1) \div k \in Nat /\ (n + 1) % k \in 0 .. k - 1 
      /\ n + 1 = k * ((n + 1) \div k) + ((n + 1) % k)
  <2>1. n + 1 \in Nat
    OBVIOUS
  <2> QED
    BY Zenon, <2>1, DivMod
<1>3. CASE n % k = k - 1
  <2>1. k * ((n + 1) \div k) + ((n + 1) % k) = k * (n \div k + 1) + 0
    BY <1>1, <1>2, <1>3
  <2> QED
    BY <1>1, <1>2, <1>3, <2>1, DivModUnique
<1>4. CASE n % k # k - 1
  <2>1. k * ((n + 1) \div k) + ((n + 1) % k) = k * (n \div k) + ((n % k) + 1)
    BY <1>1, <1>2
  <2>2. (n % k) + 1 \in 0 .. k - 1
    BY <1>1, <1>4
  <2> QED
    BY <1>1, <1>2, <1>4, <2>1, <2>2, DivModUnique
<1> QED
  BY <1>3, <1>4

(* ... and the last number of each group of k. *)
LEMMA ModLast ==
  ASSUME NEW i \in Nat \ {0}, NEW k \in Nat \ {0}
  PROVE  (i * k - 1) % k = k - 1 /\ i * k - 1 \in Nat
<1> DEFINE n == i * k - 1
           p == i - 1
           s == k - 1
<1>1. /\ n \in Nat /\ p \in Nat /\ s \in 0 .. k - 1
      /\ n = k * p + s
  OBVIOUS
<1> HIDE DEF n, p, s
<1>2. /\ n \div k \in Nat /\ n % k \in 0 .. k - 1 /\ n = k * (n \div k) + (n % k)
  BY Zenon, <1>1, DivMod
<1>3. PICK q \in Nat, r \in 0 .. k - 1 : q = n \div k /\ r = n % k
  BY <1>2
<1>4. k * q + r = k * p + s
  BY <1>1, <1>2, <1>3
<1>5. r = s
  BY <1>1, <1>4, DivModUnique
<1> QED
  BY <1>1, <1>3, <1>5 DEF n, s

(* n layers, of which every k-th is left out, and one more. *)
LEMMA OneMoreLayer ==
  ASSUME NEW n \in Nat, NEW k \in Nat \ {0}, NEW S,
         S \subseteq 0 .. n - 1, IsFiniteSet(S), Cardinality(S) = n - (n \div k)
  PROVE  /\ n % k # k - 1 =>
              /\ IsFiniteSet(S \cup {n})
              /\ Cardinality(S \cup {n}) = n + 1 - ((n + 1) \div k)
         /\ n % k = k - 1 => Cardinality(S) = n + 1 - ((n + 1) \div k)
<1>1. n \div k \in Nat
  BY Zenon, DivMod
<1>2. n \notin S
  OBVIOUS
<1>3. ASSUME n % k # k - 1
      PROVE  /\ IsFiniteSet(S \cup {n})
             /\ Cardinality(S \cup {n}) = n + 1 - ((n + 1) \div k)
  <2>1. IsFiniteSet(S \cup {n}) /\ Cardinality(S \cup {n}) = Cardinality(S) + 1
    BY <1>2, FS_AddElement
  <2>2. (n + 1) \div k = n \div k
    BY Zenon, <1>3, DivSucc
  <2> QED
    BY <1>1, <2>1, <2>2
<1>4. ASSUME n % k = k - 1
      PROVE  Cardinality(S) = n + 1 - ((n + 1) \div k)
  <2>1. (n + 1) \div k = n \div k + 1
    BY Zenon, <1>4, DivSucc
  <2> QED
    BY <1>1, <2>1
<1> QED
  BY <1>3, <1>4

(* A share of the heads, and one head each for more ranks than heads. *)
LEMMA Shares ==
  ASSUME NEW h \in Nat \ {0}, NEW t \in Nat \ {0}
  PROVE  /\ h % t = 0 => (h \div t) * t = h /\ h \div t >= 1
         /\ h < t => h \div t = 0
<1>1. h \div t \in Nat /\ h = t * (h \div t) + (h % t) /\ h % t \in 0 .. t - 1
  BY Zenon, DivMod
<1>2. PICK q \in Nat : q = h \div t
  BY <1>1
<1>3. ASSUME h % t = 0 PROVE q * t = h /\ q >= 1
  BY <1>1, <1>2, <1>3
<1>4. ASSUME h < t PROVE q = 0
  <2>1. q >= 1 => t * q >= t
    OBVIOUS
  <2> QED
    BY <1>1, <1>2, <1>4, <2>1
<1> QED
  BY <1>2, <1>3, <1>4

LEMMA KVShares ==
  ASSUME NEW kv \in Nat \ {0}, NEW t \in Nat \ {0}, kv % t = 0 \/ t % kv = 0
  PROVE  (IF kv \div t > 1 THEN kv \div t ELSE 1) * t = IF kv > t THEN kv ELSE t
<1>1. PICK q \in Nat : q = kv \div t
  BY DivMod
<1>2. CASE kv % t = 0
  <2>1. q * t = kv /\ q >= 1
    BY <1>1, <1>2, Shares
  <2>2. CASE q > 1
    <3>1. q * t >= 2 * t
      BY <2>2
    <3> QED
      BY <1>1, <2>1, <2>2, <3>1
  <2>3. CASE q = 1
    BY <1>1, <2>1, <2>3
  <2> QED
    BY <2>1, <2>2, <2>3
<1>3. CASE kv % t # 0
  <2>1. (t \div kv) * kv = t /\ t \div kv >= 1
    BY <1>3, Shares
  <2>2. PICK p \in Nat : p = t \div kv
    BY DivMod
  <2>3. p * kv >= kv
    BY <2>1, <2>2
  <2>4. kv # t
    <3>1. t % t = 0
      OBVIOUS
    <3> QED
      BY <1>3, <3>1
  <2>5. kv < t
    BY <2>1, <2>2, <2>3, <2>4
  <2> QED
    BY <1>1, <2>5, Shares
<1> QED
  BY <1>2, <1>3

-----------------------------------------------------------------------------
(***************************************************************************)
(* The loop of Model.forward.                                              *)
(***************************************************************************)
(* The layers whose attention has run. *)
Attended == IF at = "mlp" THEN layer + 1 ELSE layer

(* So far: every layer its cache, and the layers that have been rotated. *)
PlanInv ==
  /\ conf \in Configs
  /\ layer \in Nat
  /\ at \in {"load", "embed", "attn", "mlp", "norm", "done"}
  /\ at \in {"load", "embed"} => layer = 0
  /\ at \in {"attn", "mlp"} => layer < conf.layers
  /\ at \in {"norm", "done"} => layer = conf.layers
  /\ kv_used = [i \in 1 .. Attended |-> CacheOf(i - 1)]
  /\ conf.vllm =>
       /\ rotated \subseteq 0 .. Attended - 1 /\ IsFiniteSet(rotated)
       /\ Cardinality(rotated) = Attended - (Attended \div conf.interval)
       /\ \A l \in rotated : use_rope(conf, l)

LEMMA Sizes ==
  ASSUME NEW c \in Configs
  PROVE  /\ c.layers \in Nat \ {0} /\ c.interval \in Nat \ {0}
         /\ c.heads \in Nat \ {0} /\ c.kv \in Nat \ {0} /\ c.tp \in Nat \ {0}
BY WellFormedAssumption

LEMMA InitPlanInv ==
  ASSUME ModelInit
  PROVE  PlanInv
<1>1. conf \in Configs /\ layer = 0 /\ at = "load" /\ rotated = {} /\ kv_used = <<>>
  BY DEF ModelInit
<1>2. 0 \div conf.interval = 0
  BY <1>1, Sizes, Shares
<1>3. IsFiniteSet({}) /\ Cardinality({}) = 0
  BY FS_EmptySet
<1>4. <<>> = [i \in 1 .. 0 |-> i - 1]
  OBVIOUS
<1> QED
  BY <1>1, <1>2, <1>3, <1>4 DEF PlanInv, Attended

LEMMA PlanStep ==
  ASSUME PlanInv, [ModelNext]_mvars
  PROVE  PlanInv'
<1>0. conf.layers \in Nat \ {0} /\ conf.interval \in Nat \ {0}
  BY Sizes DEF PlanInv
<1>1. CASE load_weight \/ UNCHANGED mvars
  BY <1>1 DEF load_weight, mvars, PlanInv, Attended, CacheOf
<1>2. CASE tie_weights \/ embed_tokens
  BY <1>0, <1>2 DEF tie_weights, embed_tokens, PlanInv, Attended, CacheOf
<1>3. CASE attention
  <2>1. /\ at = "attn" /\ at' = "mlp" /\ layer' = layer /\ conf' = conf
        /\ layer \in Nat /\ layer < conf.layers
        /\ Attended = layer /\ Attended' = layer + 1
    BY <1>3 DEF attention, PlanInv, Attended
  <2>2. kv_used' = [i \in 1 .. layer + 1 |-> (CacheOf(i - 1))']
    <3>1. kv_used = [i \in 1 .. layer |-> CacheOf(i - 1)] /\ kv_used' = Append(kv_used, CacheOf(layer))
      BY <1>3, <2>1 DEF attention, PlanInv
    <3>2. \A i \in Int : CacheOf(i) \in Int /\ (CacheOf(i))' = CacheOf(i)
      BY <2>1 DEF CacheOf, None
    <3>3. kv_used \in Seq(Int) /\ Len(kv_used) = layer
      BY <2>1, <3>1, <3>2
    <3> QED
      BY <2>1, <3>1, <3>2, <3>3
  <2>3. ASSUME conf.vllm
        PROVE  /\ rotated' \subseteq 0 .. layer /\ IsFiniteSet(rotated')
               /\ Cardinality(rotated') = layer + 1 - ((layer + 1) \div conf.interval)
               /\ \A l \in rotated' : use_rope(conf, l)
    <3>1. rotated' = IF use_rope(conf, layer) THEN rotated \cup {layer} ELSE rotated
      BY <1>3, <2>3 DEF attention
    <3>2. /\ rotated \subseteq 0 .. layer - 1 /\ IsFiniteSet(rotated)
          /\ Cardinality(rotated) = layer - (layer \div conf.interval)
          /\ \A l \in rotated : use_rope(conf, l)
      BY <2>1, <2>3 DEF PlanInv
    <3>3. /\ use_rope(conf, layer) =>
               /\ IsFiniteSet(rotated \cup {layer})
               /\ Cardinality(rotated \cup {layer})
                    = layer + 1 - ((layer + 1) \div conf.interval)
          /\ ~use_rope(conf, layer) =>
               Cardinality(rotated) = layer + 1 - ((layer + 1) \div conf.interval)
      BY ZenonT(30), <1>0, <2>1, <3>2, OneMoreLayer DEF use_rope
    <3> QED
      BY <2>1, <3>1, <3>2, <3>3
  <2>4. layer + 1 - 1 = layer
    BY <2>1
  <2>5. conf.vllm =>
          /\ rotated' \subseteq 0 .. Attended' - 1 /\ IsFiniteSet(rotated')
          /\ Cardinality(rotated') = Attended' - (Attended' \div conf.interval)
          /\ \A l \in rotated' : use_rope(conf', l)
    <3> HAVE conf.vllm
    <3>1. /\ rotated' \subseteq 0 .. layer /\ IsFiniteSet(rotated')
          /\ Cardinality(rotated') = layer + 1 - ((layer + 1) \div conf.interval)
          /\ \A l \in rotated' : use_rope(conf, l)
      BY <2>3
    <3>2. rotated' \subseteq 0 .. Attended' - 1
      BY <2>1, <2>4, <3>1
    <3>3. Cardinality(rotated') = Attended' - (Attended' \div conf.interval)
      BY <1>0, <2>1, <3>1
    <3>4. \A l \in rotated' : use_rope(conf', l)
      BY <2>1, <3>1 DEF use_rope
    <3> QED
      BY <3>1, <3>2, <3>3, <3>4
  <2> QED
    BY <2>1, <2>2, <2>5 DEF PlanInv, use_rope
<1>4. CASE mlp
  <2>1. /\ at = "mlp" /\ layer' = layer + 1 /\ layer \in Nat /\ layer < conf.layers
        /\ at' = (IF layer' = conf.layers THEN "norm" ELSE "attn")
        /\ UNCHANGED <<conf, rotated, kv_used>>
    BY <1>4 DEF mlp, PlanInv, Through
  <2>2. Attended' = Attended /\ (at' = "attn" => layer' < conf'.layers)
        /\ (at' = "norm" => layer' = conf'.layers) /\ at' \in {"attn", "norm"} /\ layer' \in Nat
    BY <1>0, <2>1 DEF Attended
  <2> QED
    BY <2>1, <2>2 DEF PlanInv, CacheOf, use_rope
<1>5. CASE norm
  BY <1>5 DEF norm, PlanInv, Attended, CacheOf, use_rope
<1> QED
  BY <1>1, <1>2, <1>3, <1>4, <1>5 DEF ModelNext

LEMMA PlanInvPlan ==
  ASSUME PlanInv
  PROVE  LayerPlan
<1> SUFFICES ASSUME at \in {"norm", "done"}
             PROVE  /\ kv_used = [i \in 1 .. conf.layers |-> IF conf.caches THEN i - 1 ELSE None]
                    /\ conf.vllm =>
                         /\ Cardinality(rotated) = conf.layers - (conf.layers \div conf.interval)
                         /\ \A i \in 1 .. conf.layers \div conf.interval :
                              i * conf.interval - 1 \notin rotated
  BY DEF LayerPlan
<1>1. conf.layers \in Nat \ {0} /\ conf.interval \in Nat \ {0} /\ Attended = conf.layers
  BY Sizes DEF PlanInv, Attended
<1>2. conf.layers \div conf.interval \in Nat
  BY <1>1, DivMod
<1>3. ASSUME NEW i \in 1 .. conf.layers \div conf.interval
      PROVE  ~use_rope(conf, i * conf.interval - 1)
  <2>1. i \in Nat \ {0}
    BY <1>2
  <2> QED
    BY ZenonT(30), <1>1, <2>1, ModLast DEF use_rope
<1>4. kv_used = [i \in 1 .. conf.layers |-> IF conf.caches THEN i - 1 ELSE None]
  BY <1>1 DEF PlanInv, CacheOf
<1> QED
  BY <1>1, <1>3, <1>4 DEF PlanInv

(* A forward pass gives each layer the cache of its own index, and under   *)
(* vLLM exactly layers // interval layers, the last of every group, do     *)
(* without rotary embeddings, for every number of layers and interval.     *)
THEOREM ForwardPlan == ModelSpec => []LayerPlan
<1>1. PlanInv /\ [ModelNext]_mvars => PlanInv'
  BY PlanStep
<1> QED
  BY <1>1, InitPlanInv, PlanInvPlan, PTL DEF ModelSpec

(* Wherever the numbers of heads and ranks divide, the query heads of the  *)
(* ranks add up, and so do the key-value heads, or each rank has one.      *)
THEOREM RanksShareHeads == ModelSpec => []HeadsPerRank
<1> DEFINE Configured == conf \in Configs
<1>1. Configured => HeadsPerRank
  <2> HAVE conf \in Configs
  <2>1. conf.heads \in Nat \ {0} /\ conf.kv \in Nat \ {0} /\ conf.tp \in Nat \ {0}
    BY Sizes
  <2> QED
    BY ZenonT(30), <2>1, Shares, KVShares DEF HeadsPerRank, num_heads, num_kv_heads
<1>2. Configured /\ [ModelNext]_mvars => Configured'
  BY DEF ModelNext, load_weight, tie_weights, embed_tokens, attention, mlp, norm, mvars
<1>3. ModelInit => Configured
  BY DEF ModelInit
<1> HIDE DEF Configured
<1> QED
  BY <1>1, <1>2, <1>3, PTL DEF ModelSpec

-----------------------------------------------------------------------------
(***************************************************************************)
(* The patch scripts.                                                      *)
(***************************************************************************)
(* All entries that a file can have. *)
Entries == Mentions \cup UNION {UNION {Range(d[f]) : f \in DOMAIN d} : d \in Layouts}

Once(content) == \A e \in {"import", "exported"} : Cardinality(PlacesOf(content, e)) <= 1

LEMMA ForeignIs == \A s : Foreign(s) = Keep(s, Others(s, Mentions))
BY DEF Foreign, Others

(* Something in the text is in one of its places. *)
LEMMA PlacesAre ==
  ASSUME NEW s \in Seq(Entries), NEW x
  PROVE  /\ PlacesOf(s, x) \in SUBSET (0 .. Len(s)) /\ PlacesOf(s, x) \in SUBSET DOMAIN s
         /\ x \in Range(s) <=> PlacesOf(s, x) # {}
BY DEF PlacesOf, Range

LEMMA CandidatesAre ==
  /\ Range(INSERT_CANDIDATES) = {"stablelm", "starcoder2"}
  /\ DOMAIN INSERT_CANDIDATES = {1, 2}
BY DEF INSERT_CANDIDATES, Range

(* The first of some places. *)
LEMMA FirstPlace ==
  ASSUME NEW S, Finite(S), S # {}
  PROVE  Nth(S, 1) \in S
<1>1. Cardinality(S) \in Nat /\ Cardinality(S) # 0
  BY FS_CardinalityType, FS_EmptySet DEF Finite
<1> QED
  BY <1>1, NthOf

LEMMA PortNames ==
  /\ "native" \in Mentions \cap Entries /\ "native" \notin {"import", "exported"}
  /\ "import" \in Mentions \cap Entries /\ "exported" \in Mentions \cap Entries
<1>1. "native" \in Mentions /\ "import" \in Mentions /\ "exported" \in Mentions
  BY DEF Mentions
<1>2. Mentions \subseteq Entries
  BY DEF Entries
<1>3. "native" \notin {"import", "exported"}
  OBVIOUS
<1> QED
  BY <1>1, <1>2, <1>3

(* What patch_content() leaves: no fallback of the form it matches, and    *)
(* the port wherever there is an anchor.                                   *)
Cleaned(content) == "transformers" \notin Range(content) /\ Registered(content)

(* No one-line fallback comes into a text. *)
Inlined(content) == "transformers_inline" \in Range(content)

(* PatchKeeps, in terms of these. *)
KeptClean ==
  \A f \in DOMAIN disk :
    f # patching[2] /\ <<"cut", f>> \notin Range(patches) =>
      /\ Foreign(disk[f]) = Foreign(original[f])
      /\ <<"patch_registry", f>> \in Range(patches) => Cleaned(disk[f])

(* patch_content() keeps the entries of others, registers the port and     *)
(* does not touch import and export.                                       *)
LEMMA PatchContentIs ==
  ASSUME NEW c \in Seq(Entries)
  PROVE  /\ patch_content(c) \in Seq(Entries) /\ Foreign(patch_content(c)) = Foreign(c)
         /\ Cleaned(patch_content(c))
         /\ Once(c) => Once(patch_content(c))
         /\ Inlined(patch_content(c)) => Inlined(c)
<1> DEFINE S == {i \in DOMAIN c : c[i] # "transformers"}
           rest == Keep(c, S)
           found == {k \in DOMAIN INSERT_CANDIDATES : INSERT_CANDIDATES[k] \in Range(rest)}
           anchor == INSERT_CANDIDATES[Nth(found, 1)]
           P == PlacesOf(rest, anchor)
<1>1. /\ rest \in Seq(Entries) /\ Range(rest) = {c[i] : i \in S}
  BY KeepIs
<1>2. "transformers" \notin Range(rest)
  BY <1>1
<1>3. Foreign(rest) = Foreign(c)
  <2>1. \A i \in DOMAIN c \ S : c[i] \in Mentions
    BY DEF Mentions
  <2> HIDE DEF S
  <2>2. S \in SUBSET DOMAIN c
    BY DEF S
  <2>3. Keep(rest, Others(rest, Mentions)) = Keep(c, Others(c, Mentions))
    BY <2>1, <2>2, KeepOthers
  <2> HIDE DEF rest
  <2> QED
    BY ZenonT(30), <2>3, ForeignIs
<1>4. \A x : Cardinality(PlacesOf(rest, x)) <= Cardinality(PlacesOf(c, x))
  BY KeepCount
<1>5. \A x : Cardinality(PlacesOf(rest, x)) \in Nat /\ Cardinality(PlacesOf(c, x)) \in Nat
  BY <1>1, PlacesAre, KeepIs
<1>6. Once(c) => Once(rest)
  BY <1>4, <1>5 DEF Once
<1>6a. Inlined(rest) => Inlined(c)
  BY <1>1 DEF Inlined, Range
<1>7. CASE "native_comma" \in Range(rest) \/ found = {}
  <2>1. patch_content(c) = rest
    BY <1>7 DEF patch_content
  <2>2. Cleaned(rest)
    <3> HIDE DEF rest
    <3>1. CASE "native_comma" \in Range(rest)
      BY <1>2, <3>1 DEF Cleaned, Registered
    <3>2. CASE found = {}
      <4>1. INSERT_CANDIDATES[1] \notin Range(rest) /\ INSERT_CANDIDATES[2] \notin Range(rest)
        BY <3>2, CandidatesAre
      <4>2. Range(INSERT_CANDIDATES) \cap Range(rest) = {}
        BY <4>1, CandidatesAre DEF INSERT_CANDIDATES
      <4> QED
        BY <1>2, <4>2 DEF Cleaned, Registered
    <3> QED
      BY <1>7, <3>1, <3>2
  <2> HIDE DEF rest
  <2> QED
    BY <1>1, <1>3, <1>6, <1>6a, <2>1, <2>2
<1>8. CASE ~("native_comma" \in Range(rest) \/ found = {})
  <2>1. patch_content(c) = Insert(rest, P, "native")
    BY <1>8 DEF patch_content, InsertAfter
  <2>2. anchor \in Range(rest)
    <3>1. Finite(found)
      <4>1. found \in SUBSET (1 .. 2)
        BY CandidatesAre
      <4> QED
        BY ZenonT(30), <4>1, FiniteUpTo, FinitePart
    <3> QED
      BY <1>8, <3>1, FirstPlace
  <2>3. P \in SUBSET (0 .. Len(rest)) /\ P # {}
    BY ZenonT(30), <1>1, <2>2, PlacesAre
  <2>4. "native" \in Entries /\ "native" \in Mentions /\ "native" \notin {"import", "exported"}
    BY Zenon, PortNames
  <2> HIDE DEF rest, P
  <2>5. /\ Insert(rest, P, "native") \in Seq(Entries)
        /\ Range(Insert(rest, P, "native")) \subseteq Range(rest) \cup {"native"}
        /\ "native" \in Range(Insert(rest, P, "native"))
    BY <1>1, <2>3, <2>4, InsertIs
  <2>6. Cleaned(Insert(rest, P, "native"))
    BY <1>2, <2>5 DEF Cleaned, Registered
  <2>7. Foreign(Insert(rest, P, "native")) = Foreign(rest)
    BY <1>1, <2>3, <2>4, InsertOthers, ForeignIs
  <2>8. \A e \in {"import", "exported"} :
          Cardinality(PlacesOf(Insert(rest, P, "native"), e)) = Cardinality(PlacesOf(rest, e))
    BY <1>1, <2>3, <2>4, InsertCount
  <2>9. Inlined(Insert(rest, P, "native")) => Inlined(rest)
    BY <2>5 DEF Inlined
  <2> QED
    BY <1>3, <1>6, <1>6a, <2>1, <2>5, <2>6, <2>7, <2>8, <2>9 DEF Once
<1> QED
  BY <1>7, <1>8

(* patch_init adds an import and an export to a text without, and keeps    *)
(* the rest.                                                               *)
LEMMA AddExportIs ==
  ASSUME NEW c \in Seq(Entries), ~Exported(c)
  PROVE  /\ add_export(c) \in Seq(Entries) /\ Foreign(add_export(c)) = Foreign(c)
         /\ Cleaned(c) => Cleaned(add_export(c))
         /\ Once(add_export(c))
         /\ Inlined(add_export(c)) => Inlined(c)
<1> DEFINE imports == PlacesOf(c, "model_import")
           P == {IF imports = {} THEN 0 ELSE Nth(imports, 1)}
           imported == Insert(c, P, "import")
           lists == PlacesOf(imported, "__all__")
           L == IF lists = {} THEN {} ELSE {Nth(lists, 1)}
           r == Insert(imported, L, "exported")
<1>0. r = add_export(c)
  BY DEF add_export
<1>1. /\ Mentions \cap Range(c) = {}
      /\ "import" \in Mentions \cap Entries /\ "exported" \in Mentions \cap Entries
  <2>1. Mentions \cap Range(c) = {}
    BY DEF Exported
  <2> QED
    BY <2>1, PortNames
<1>2. P \in SUBSET (0 .. Len(c)) /\ Cardinality(P) = 1
  <2>1. imports \in SUBSET (0 .. Len(c)) /\ Finite(imports)
    BY PlacesAre, KeepIs
  <2>2. (IF imports = {} THEN 0 ELSE Nth(imports, 1)) \in 0 .. Len(c)
    BY <2>1, FirstPlace
  <2> QED
    BY ZenonT(30), <2>2, FS_Singleton
<1>3. /\ PlacesOf(c, "import") = {} /\ PlacesOf(c, "exported") = {}
  BY <1>1, PlacesAre
<1> HIDE DEF P
<1>4. /\ imported \in Seq(Entries) /\ Foreign(imported) = Foreign(c)
      /\ Range(c) \subseteq Range(imported) /\ Range(imported) \subseteq Range(c) \cup {"import"}
      /\ Cardinality(PlacesOf(imported, "import")) = 1
  BY <1>1, <1>2, <1>3, InsertIs, InsertOthers, InsertNew, ForeignIs
<1>5. PlacesOf(imported, "exported") = {}
  <2>1. "exported" \notin Range(imported)
    BY <1>1, <1>4
  <2> HIDE DEF imported
  <2> QED
    BY <1>4, <2>1, PlacesAre
<1> HIDE DEF imported
<1>6. L \in SUBSET (0 .. Len(imported)) /\ Cardinality(L) <= 1
  <2>1. lists \in SUBSET (0 .. Len(imported)) /\ Finite(lists)
    BY <1>4, PlacesAre, KeepIs
  <2>2. CASE lists = {}
    BY <2>2, FS_EmptySet
  <2>3. CASE lists # {}
    <3>1. Nth(lists, 1) \in 0 .. Len(imported)
      BY <2>1, <2>3, FirstPlace
    <3>2. L = {Nth(lists, 1)}
      BY <2>3
    <3>3. Cardinality(L) = 1
      BY ZenonT(30), <3>2, FS_Singleton
    <3> QED
      BY <3>1, <3>2, <3>3
  <2> QED
    BY <2>2, <2>3
<1> HIDE DEF L
<1>7. /\ r \in Seq(Entries) /\ Foreign(r) = Foreign(imported)
      /\ Range(imported) \subseteq Range(r) /\ Range(r) \subseteq Range(imported) \cup {"exported"}
      /\ Cardinality(PlacesOf(r, "exported")) = Cardinality(L)
      /\ Cardinality(PlacesOf(r, "import")) = Cardinality(PlacesOf(imported, "import"))
  <2>1. "exported" # "import"
    OBVIOUS
  <2> QED
    BY <1>1, <1>4, <1>5, <1>6, <2>1, InsertIs, InsertOthers, InsertNew, InsertCount,
       ForeignIs
<1> HIDE DEF r
<1>8. Once(r)
  BY <1>4, <1>6, <1>7 DEF Once
<1>9. (Cleaned(c) => Cleaned(r)) /\ (Inlined(r) => Inlined(c))
  <2>1. Range(c) \subseteq Range(r) /\ Range(r) \subseteq Range(c) \cup {"import", "exported"}
    BY <1>4, <1>7
  <2> QED
    BY <2>1, CandidatesAre DEF Cleaned, Registered, Inlined
<1> QED
  BY <1>0, <1>4, <1>7, <1>8, <1>9

(* A file is as its property wants it, or a script has the text to come.   *)
Files == {"registry", "init"}
Cut(f) == <<"cut", f>> \in Range(patches)
ByRegistry(f) == <<"patch_registry", f>> \in Range(patches)

PatchInv ==
  /\ DOMAIN original \subseteq Files
  /\ disk \in [DOMAIN original -> Seq(Entries)]
  /\ patches \in Seq({"patch_registry", "patch_init", "cut"} \X Files)
  /\ KeptClean /\ ExportedOnce
  /\ \A f \in DOMAIN disk : Inlined(disk[f]) => Inlined(original[f])
  /\ patching = NoScript \/
       /\ patching \in {"patch_registry", "patch_init"} \X DOMAIN original
       /\ patched \in Seq(Entries) /\ Once(patched)
       /\ Inlined(patched) => Inlined(original[patching[2]])
       /\ ~Cut(patching[2]) =>
            /\ Foreign(patched) = Foreign(original[patching[2]])
            /\ patching[1] = "patch_registry" \/ ByRegistry(patching[2]) => Cleaned(patched)

LEMMA InitPatchInv == PatchInit => PatchInv
<1> SUFFICES ASSUME PatchInit PROVE PatchInv
  OBVIOUS
<1>1. /\ original \in Layouts /\ disk = original /\ patching = NoScript /\ patches = <<>>
      /\ Range(patches) = {}
  BY DEF PatchInit, Range
<1>2. DOMAIN original \subseteq Files /\ disk \in [DOMAIN original -> Seq(Entries)]
  <2>1. /\ DOMAIN original \subseteq Files /\ original = [f \in DOMAIN original |-> original[f]]
        /\ \A f \in DOMAIN original : original[f] \in Seq(Range(original[f]))
    BY <1>1, LayoutAssumption DEF Files
  <2>2. ASSUME NEW f \in DOMAIN original PROVE original[f] \in Seq(Entries)
    <3>1. Range(original[f]) \subseteq Entries
      BY <1>1 DEF Entries
    <3>2. \A A, B : A \subseteq B => Seq(A) \subseteq Seq(B)
      OBVIOUS
    <3> QED
      BY <2>1, <3>1, <3>2
  <2> QED
    BY <1>1, <2>1, <2>2
<1>3. ExportedOnce
  BY <1>1, LayoutAssumption DEF ExportedOnce
<1>4. KeptClean
  BY <1>1 DEF KeptClean
<1>5. patches \in Seq({"patch_registry", "patch_init", "cut"} \X Files)
  BY <1>1
<1> QED
  BY <1>1, <1>2, <1>3, <1>4, <1>5 DEF PatchInv

(* A script that starts to write. *)
LEMMA OpenPatchInv ==
  ASSUME PatchInv, NEW script \in {"patch_registry", "patch_init"}, NEW file \in DOMAIN disk,
         NEW content \in Seq(Entries), Open(script, file, content), Once(content),
         Foreign(content) = Foreign(disk[file]),
         script = "patch_registry" \/ Cleaned(disk[file]) => Cleaned(content),
         Inlined(content) => Inlined(disk[file])
  PROVE  PatchInv'
<1>1. /\ patching = NoScript /\ patching' = <<script, file>> /\ patched' = content
      /\ disk' = [disk EXCEPT ![file] = <<>>] /\ original' = original /\ patches' = patches
  BY DEF Open
<1>2. /\ DOMAIN original \subseteq Files /\ disk \in [DOMAIN original -> Seq(Entries)]
      /\ \A f \in DOMAIN disk : f # patching[2]
  BY <1>1 DEF PatchInv, NoScript, Files
<1>3. /\ disk' \in [DOMAIN original -> Seq(Entries)] /\ disk'[file] = <<>>
      /\ \A f \in DOMAIN disk : f # file => disk'[f] = disk[f]
  BY <1>1, <1>2
<1>4. ExportedOnce'
  <2>1. \A e : Cardinality(PlacesOf(<<>>, e)) = 0
    BY FS_EmptySet DEF PlacesOf
  <2>2. ASSUME NEW f \in DOMAIN disk', NEW e \in {"import", "exported"}
        PROVE  Cardinality(PlacesOf(disk'[f], e)) <= 1
    <3>1. CASE f = file
      BY <1>3, <2>1, <3>1
    <3>2. CASE f # file
      BY <1>2, <1>3, <3>2 DEF PatchInv, ExportedOnce
    <3> QED
      BY <3>1, <3>2
  <2> QED
    BY <2>2 DEF ExportedOnce
<1>5. KeptClean'
  BY <1>1, <1>2, <1>3 DEF PatchInv, KeptClean
<1>6. ~Cut(file) => /\ Foreign(content) = Foreign(original[file])
                    /\ ByRegistry(file) => Cleaned(disk[file])
  BY <1>2 DEF PatchInv, KeptClean, Cut, ByRegistry
<1>7. \A f \in DOMAIN disk' : Inlined(disk'[f]) => Inlined(original[f])
  <2>1. ~Inlined(<<>>)
    BY DEF Inlined, Range
  <2> QED
    BY <1>2, <1>3, <2>1 DEF PatchInv
<1>8. Inlined(content) => Inlined(original[file])
  BY DEF PatchInv
<1> QED
  BY <1>1, <1>2, <1>3, <1>4, <1>5, <1>6, <1>7, <1>8 DEF PatchInv, Cut, ByRegistry

LEMMA AppendRange ==
  ASSUME NEW X, NEW s \in Seq(X), NEW x
  PROVE  Range(Append(s, x)) = Range(s) \cup {x}
<1>1. PICK n \in Nat : n = Len(s) /\ DOMAIN s = 1 .. n
  OBVIOUS
<1>2. /\ DOMAIN Append(s, x) = 1 .. n + 1 /\ Append(s, x)[n + 1] = x
      /\ \A i \in 1 .. n : Append(s, x)[i] = s[i]
  BY <1>1
<1>3. \A i \in 1 .. n + 1 : i \in 1 .. n \/ i = n + 1
  BY <1>1
<1>4. \A i \in 1 .. n : i \in 1 .. n + 1
  BY <1>1
<1>5. n + 1 \in 1 .. n + 1
  BY <1>1
<1> QED
  BY <1>1, <1>2, <1>3, <1>4, <1>5 DEF Range

(* A script that has written, or died. *)
LEMMA ClosePatchInv ==
  ASSUME PatchInv, NEW whole \in BOOLEAN, Close(whole)
  PROVE  PatchInv'
<1> DEFINE file == patching[2]
           entry == IF whole THEN patching ELSE <<"cut", file>>
<1>1. /\ patching' = NoScript /\ original' = original /\ patches' = Append(patches, entry)
      /\ disk' = IF whole THEN [disk EXCEPT ![file] = patched] ELSE disk
  BY DEF Close
<1>2. /\ DOMAIN original \subseteq Files /\ disk \in [DOMAIN original -> Seq(Entries)]
      /\ patches \in Seq({"patch_registry", "patch_init", "cut"} \X Files)
      /\ patching \in {"patch_registry", "patch_init"} \X DOMAIN original
      /\ patched \in Seq(Entries) /\ Once(patched)
      /\ Inlined(patched) => Inlined(original[file])
      /\ ~Cut(file) =>
            /\ Foreign(patched) = Foreign(original[file])
            /\ patching[1] = "patch_registry" \/ ByRegistry(file) => Cleaned(patched)
  BY DEF Close, PatchInv
<1>3. /\ entry \in {"patch_registry", "patch_init", "cut"} \X Files
      /\ file \in DOMAIN original /\ patching = <<patching[1], file>>
  BY <1>2
<1>4. /\ Range(patches') = Range(patches) \cup {entry}
      /\ patches' \in Seq({"patch_registry", "patch_init", "cut"} \X Files)
  <2>1. Range(patches') = Range(patches) \cup {entry}
    BY <1>1, <1>2, AppendRange
  <2> HIDE DEF entry
  <2>2. patches' \in Seq({"patch_registry", "patch_init", "cut"} \X Files)
    BY <1>1, <1>2, <1>3
  <2> QED
    BY <2>1, <2>2
<1>5. disk' \in [DOMAIN original -> Seq(Entries)] /\ \A f \in DOMAIN disk : f # file => disk'[f] = disk[f]
  BY <1>1, <1>2, <1>3
<1>6. ExportedOnce'
  BY <1>1, <1>2, <1>3 DEF PatchInv, ExportedOnce, Once
<1>7. KeptClean'
  <2> SUFFICES ASSUME NEW f \in DOMAIN disk', <<"cut", f>> \notin Range(patches')
               PROVE  /\ Foreign(disk'[f]) = Foreign(original[f])
                      /\ <<"patch_registry", f>> \in Range(patches') => Cleaned(disk'[f])
    BY <1>1 DEF KeptClean
  <2>1. ~Cut(f) /\ f \in DOMAIN disk
    BY <1>2, <1>4, <1>5 DEF Cut
  <2>2. CASE f = file
    <3>1. whole /\ disk'[f] = patched
      BY ZenonT(30), <1>1, <1>2, <1>4, <2>1, <2>2
    <3>2. <<"patch_registry", f>> \in Range(patches') => patching[1] = "patch_registry" \/ ByRegistry(f)
      BY <1>3, <1>4, <2>2, <3>1 DEF ByRegistry
    <3> QED
      BY <1>2, <2>1, <2>2, <3>1, <3>2
  <2>3. CASE f # file
    <3>1. <<"patch_registry", f>> \in Range(patches') => ByRegistry(f)
      BY <1>3, <1>4, <2>3 DEF ByRegistry
    <3> QED
      BY <1>5, <2>1, <2>3, <3>1 DEF PatchInv, KeptClean, Cut, ByRegistry
  <2> QED
    BY <2>2, <2>3
<1>8. \A f \in DOMAIN disk' : Inlined(disk'[f]) => Inlined(original[f])
  BY <1>1, <1>2, <1>3, <1>5 DEF PatchInv
<1> QED
  BY <1>1, <1>2, <1>4, <1>5, <1>6, <1>7, <1>8 DEF PatchInv

LEMMA NextPatchInv ==
  ASSUME PatchInv, [PatchNext]_rvars
  PROVE  PatchInv'
<1>0. disk \in [DOMAIN disk -> Seq(Entries)] /\ \A f \in DOMAIN disk : Once(disk[f])
  BY DEF PatchInv, ExportedOnce, Once
<1>1. CASE patch_registry
  <2>1. PICK file \in DOMAIN disk : Open("patch_registry", file, patch_content(disk[file]))
    BY <1>1 DEF patch_registry
  <2>2. disk[file] \in Seq(Entries) /\ Once(disk[file])
    BY <1>0
  <2> QED
    BY <2>1, <2>2, PatchContentIs, OpenPatchInv
<1>2. CASE patch_init
  <2>1. /\ "init" \in DOMAIN disk /\ ~Exported(disk["init"])
        /\ Open("patch_init", "init", add_export(disk["init"]))
    BY <1>2 DEF patch_init
  <2>2. disk["init"] \in Seq(Entries)
    BY <1>0, <2>1
  <2> QED
    BY <2>1, <2>2, AddExportIs, OpenPatchInv
<1>3. CASE UNCHANGED rvars
  BY <1>3 DEF rvars, PatchInv, KeptClean, ExportedOnce, Cut, ByRegistry
<1> QED
  BY <1>1, <1>2, <1>3, ClosePatchInv DEF PatchNext

(* However often the scripts run, and on whatever package, the entries of  *)
(* others survive in their order, a registry with a place for the port     *)
(* names it, and unless the fallback to Transformers was on one line it is *)
(* gone.                                                                   *)
THEOREM OthersKept == PatchSpec => []PatchKeeps
<1>1. PatchInv /\ [PatchNext]_rvars => PatchInv'
  BY NextPatchInv
<1>2. PatchInv => PatchKeeps
  BY DEF PatchInv, KeptClean, PatchKeeps, Cleaned, Inlined, Fallbacks
<1> QED
  BY <1>1, <1>2, InitPatchInv, PTL DEF PatchSpec

(* The port is imported and exported at most once, even after a script     *)
(* that was cut short.                                                     *)
THEOREM NeverTwice == PatchSpec => []ExportedOnce
<1>1. PatchInv /\ [PatchNext]_rvars => PatchInv'
  BY NextPatchInv
<1>2. PatchInv => ExportedOnce
  BY DEF PatchInv
<1> QED
  BY <1>1, <1>2, InitPatchInv, PTL DEF PatchSpec

-----------------------------------------------------------------------------
(***************************************************************************)
(* The port as a whole.  Patching the registry leaves the model alone and  *)
(* the model the registry, so a run of the port is a run of each.          *)
(***************************************************************************)

(* Every behaviour of the port, with the image built and patched any       *)
(* number of times before the server starts, is one of the model           *)
THEOREM PortRunsModel == Spec => ModelSpec
<1>1. Init => ModelInit
  BY DEF Init
<1>2. [Next]_vars => [ModelNext]_mvars
  BY DEF Next, vars, ModelNext
<1> QED
  BY <1>1, <1>2, PTL DEF Spec, ModelSpec

(* and one of the patch scripts, which the server never runs. *)
THEOREM PortRunsPatches == Spec => PatchSpec
<1>1. Init => PatchInit
  BY DEF Init
<1>2. [Next]_vars => [PatchNext]_rvars
  BY DEF Next, vars, PatchNext
<1> QED
  BY <1>1, <1>2, PTL DEF Spec, PatchSpec

(* So the server that a patched image starts loads its weights in place,   *)
(* keeps the residual stream and the layer plan, and shares out the heads, *)
(* and the vLLM it runs in kept its other models and has the port once.    *)
THEOREM PortCorrect ==
  Spec => [](/\ WeightsInPlace /\ PreNormStream /\ LayerPlan /\ HeadsPerRank
             /\ PatchKeeps /\ ExportedOnce)
BY PortRunsModel, PortRunsPatches, PlacedWeights, ResidualStream, ForwardPlan, RanksShareHeads,
   OthersKept, NeverTwice, PTL

=============================================================================
