---------------------------- MODULE MCStandalone ----------------------------
(* Small instances of the components that stand alone, side by side: the   *)
(* scene says which of them takes its steps while the others rest.         *)
EXTENDS TradingSession, PriceFeed, Pets, StreamAssembly, Speculation, ExpertRouting,
        DraftTree, ConfigLoading, Tokenization, Metrics, Checkpoint, TLC

CONSTANTS share, coin

VARIABLE scene

-----------------------------------------------------------------------------
(* Trading: a share and a coin.                                            *)
MCSymbols == {share, coin}
MCCrypto == {coin}
Moment(d, px, trading) ==
  [day |-> d, last |-> (share :> 8000 @@ coin :> px), trading |-> trading]
MCFeeds ==
  {<<Moment(0, 8000, TRUE), Moment(1, 8000, FALSE), Moment(1, 16000, TRUE)>>}
MCOrders ==
  {[symbol |-> share, side |-> "buy", qty |-> 1, limit |-> None],
   [symbol |-> coin, side |-> "buy", qty |-> 2, limit |-> 8820],
   [symbol |-> coin, side |-> "sell", qty |-> 1, limit |-> 7000]}

(* Prices: both fall, the coin to the floor.                               *)
MCEquities == {share}
MCDraws == (share :> <<1, -2, 5, 3, 1, 1, 1, 1>>) @@ (coin :> <<-4, -9, 3, -2, 1, 1, 1, 1>>)

(* Pets: one name in two spellings.                                        *)
MCFold == [n \in {"Odie", "ODIE", "Garfield"} |-> IF n = "Garfield" THEN "garfield" ELSE "odie"]
MCDefaultName == [dog |-> "Odie", cat |-> "Garfield"]

(* Streams: tokens that split a character, and stop strings that overlap;  *)
(* sequences of tokens in which no character is cut short.                 *)
MCVocabulary ==
  [L |-> <<"lead4">>, C |-> <<"cont">>, S |-> <<"special">>,
   aL |-> <<"a", "lead3">>, CCa |-> <<"cont", "cont", "a">>]
MCStopLists == {<<>>, <<<<"a", "a", "wide">>>>, <<<<"a", "wide", "wide">>, <<"wide", "a", "a">>>>}

(* Sampling and speculation: a draft that likes what the target does not.  *)
Gen(temperature, topK, topP, minP, suppress, repetition, frequency, window) ==
  [bias |-> IF minP = 0 THEN <<>> ELSE (3 :> 2), suppress |-> suppress,
   repetition |-> repetition, frequency |-> frequency,
   presence |-> frequency, window |-> window, temperature |-> temperature, topK |-> topK,
   topP |-> topP, minP |-> minP]
MCGenConfigs ==
  {Gen(0, 2, 50, 50, {1}, 200, 0, 0), Gen(1, 2, 100, 0, {1}, 50, 0, 2),
   Gen(2, 3, 80, 0, {1}, 100, 2, 1), Gen(2, 0, 90, 30, {}, 150, 2, 2),
   Gen(1, 1, 10, 60, {}, 100, 0, 0), Gen(0, 2, 50, 0, {1}, 100, 0, 0),
   Gen(2, 0, 100, 0, {}, 100, 0, 0)}
MCLogitVectors == {<<4, 4, 0>>, <<0, 0, 0>>, <<-2, 2, 4>>, <<-2, 0, -4>>}
MCTargetLogits == <<<<0, 2, 0>>, <<0, 0, 2>>, <<2, 0, 2>>>>
MCDraftLogits == <<<<0, 2, -2>>, <<0, 2, 2>>, <<0, -2, 2>>>>

(* Routing: tokens that want the same experts, and others.                 *)
Row(a, b, c) == (0 :> a) @@ (1 :> b) @@ (2 :> c)
MCRows == {Row(2, 1, 0), Row(0, 1, 1), Row(1, 3, 2)}
MCBatches ==
  {<<r>> : r \in MCRows} \cup {<<p, q, r, p, q>> : p \in MCRows, q \in MCRows, r \in MCRows}

(* Draft trees: a certain child of an unlikely one, and an impossible one. *)
Say(token, prob) == [token |-> token, prob |-> prob]
MCDraft == <<<<Say(2, 3), Say(1, 1)>>, <<Say(1, 4), Say(2, 0)>>>>

(* Configurations: chains of one to four files, one that never ends, and   *)
(* one whose end is missing; "cache" is a map to some and a value to others*)
Block == <<"cache", "block_size">>
Dtype == <<"cache", "dtype">>
Running == <<"scheduler", "max_running">>
File(extends, data) == [extends |-> extends, data |-> data]
MCFiles ==
  [base |-> File(Unset, (Block :> 16) @@ (Dtype :> "fp8") @@ (Running :> 4)),
   serving |-> File("base", (Block :> 32) @@ (<<"model", "moe", "router_dtype">> :> "fp32")),
   node |-> File("serving", Running :> 8),
   off |-> File("serving", <<"cache">> :> "off"),
   on |-> File("off", Dtype :> "bf16"),
   loop |-> File("pool", Block :> 16), pool |-> File("loop", Block :> 16),
   lost |-> File("nowhere", Block :> 16)]
MCRequested == {"node", "on", "off", "loop", "lost"}
To(path, value) == [path |-> path, value |-> value]
MCEnvironments ==
  {<<>>, <<To(Block, 64)>>, <<To(Running, 2), To(Dtype, "int8")>>,
   <<To(<<"cache">>, "off"), To(Block, 8)>>, <<To(Block, 8), To(<<"cache">>, "off")>>}
(* The four options there are, in the order of _load()                     *)
CommandLine(weights, running, dtype, seed) ==
  <<To(<<"weights", "path">>, weights), To(Running, running), To(Dtype, dtype), To(<<"runtime", "seed">>, seed)>>
MCCommandLines ==
  {CommandLine(Unset, Unset, Unset, Unset), CommandLine("", 0, "fp16", 0), CommandLine("w", 1, Unset, Unset)}

(* Texts: merges that overlap, special tokens that begin alike, a piece    *)
(* the vocabulary lacks, a character of two bytes.                         *)
MCUtf8 ==
  [c \in {"a", "b", " ", "#"} |-> <<c>>] @@ ("e'" :> <<"lead2", "cont">>)
MCSpecials == {<<"#">>, <<"#", "#">>}
MCMerges ==
  <<<<<<"b">>, <<"a">>>>, <<<<"a">>, <<"a">>>>, <<<<" ">>, <<"a">>>>, <<<<"a">>, <<"b">>>>,
    <<<<"a", "a">>, <<"b">>>>, <<<<"b", "a">>, <<"a", "b">>>>, <<<<" ", "a">>, <<"b", "a">>>>,
    <<<<"lead2">>, <<"cont">>>>, <<<<"cont">>, <<"a">>>>>>
MCPieces ==
  {<<x>> : x \in {"a", "b", " ", "#", "lead2", "cont"}}
    \cup {<<"b", "a">>, <<"a", "a">>, <<" ", "a">>, <<"a", "b">>, <<" ", "a", "b", "a">>, <<"lead2", "cont">>}
MCTexts ==
  {<<>>, <<"a", "b", "a", "b">>, <<"a", "a", "a", "a", "b">>, <<" ", " ", "a", "b", "a">>,
   <<"a", " ", " ">>, <<"#", "#", "#">>, <<"a", "#", "#", "b", "a", "#">>, <<"b", "#", " ", "a">>,
   <<"e'", "a", "e'">>, <<" ", "e'", "a", "a", "b">>, <<"b", "a", "a", "b">>, <<" ", "#", "a", "a">>,
   <<"a", "a", "b", " ", "a", "a", "b">>}

(* Metrics: three observations, two scrapes.                               *)
MCEdges == <<1, 3>>

(* Checkpoints: dense and routed models, as one shard or a shard per layer,*)
(* whole, damaged, or with a tensor that two shards have.                  *)
Section(kvHeads, headDim, experts, shared, tied, activation) ==
  [hidden |-> 4, intermediate |-> 5, layers |-> 2, heads |-> 2, kvHeads |-> kvHeads, headDim |-> headDim,
   vocab |-> 7, experts |-> experts, expertIntermediate |-> 3, shared |-> shared, tied |-> tied,
   activation |-> activation]
MCSections ==
  {Section(1, 3, 0, FALSE, FALSE, "silu"), Section(0, 0, 0, FALSE, TRUE, "gelu"),
   Section(1, 0, 2, TRUE, FALSE, "swiglu"), Section(0, 3, 3, FALSE, TRUE, "geglu")}
Shard(tensors) == [sound |-> TRUE, tensors |-> tensors]
Saved(m) ==
  LET whole == ExpectedTensors(m)
      PartOf(names) == Shard([name \in names \cap DOMAIN whole |-> whole[name]])
      lower == {name \in DOMAIN whole : Len(name) > 1 /\ name[1] = 1}
      norm == <<"norm">> :> <<m.hidden + 1>>
      extra == <<2, "rotary_emb">> :> <<m.headDim>>
      parts == <<PartOf(lower), PartOf(DOMAIN whole \ lower)>>
  IN {<<>>, <<Shard(whole)>>, parts, Append(parts, Shard(norm)), <<Shard(norm)>> \o parts, Append(parts, Shard(extra)),
      <<PartOf(lower)>>, Append(parts, [sound |-> FALSE, tensors |-> <<>>]), <<Shard(norm @@ whole)>>}
MCCheckpoints == UNION {Saved(FromConfig(section)) : section \in MCSections}

-----------------------------------------------------------------------------
Scenes == {"trading", "prices", "pets", "streaming", "sampling", "speculation", "routing",
           "drafting", "loading", "encoding", "metering",
           "restoring"}

Only(x, S) == x = CHOOSE y \in S : TRUE

MCInit ==
  /\ scene \in Scenes
  /\ Init /\ (scene # "trading" => autonomy = "auto")
  /\ FeedInit
  /\ PetsInit
  /\ StreamInit /\ (scene # "streaming" => Only(stops, StopLists))
  /\ SamplingInit
  /\ scene # "sampling" => Only(genConfig, GenConfigs) /\ Only(answered, LogitVectors)
  /\ SpeculationInit
  /\ scene # "speculation" => acceptance = "greedy" /\ Only(gen, GenConfigs) /\ context = <<1>>
  /\ RoutingInit /\ (scene # "routing" => dropPolicy = "none")
  /\ TreeInit
  /\ ConfigInit
  /\ scene # "loading" => Only(env, Environments) /\ Only(options, CommandLines) /\ file = "node"
  /\ TokenizationInit
  /\ MetricsInit
  /\ CheckpointInit
  /\ scene # "restoring" => strict /\ shards = NoPath /\ Only(model.activation, {s.activation : s \in Sections})

(* The scene goes on, and everything outside it rests                      *)
InTrading ==
  scene = "trading" /\ UNCHANGED <<scene, feedVars, petsVars, streamVars, samplingVars, speculationVars,
    routingVars, treeVars, configVars, tokenizationVars, metricsVars, checkpointVars>>
InPrices ==
  scene = "prices" /\ UNCHANGED <<scene, vars, petsVars, streamVars, samplingVars, speculationVars,
    routingVars, treeVars, configVars, tokenizationVars, metricsVars, checkpointVars>>
InPets ==
  scene = "pets" /\ UNCHANGED <<scene, vars, feedVars, streamVars, samplingVars, speculationVars,
    routingVars, treeVars, configVars, tokenizationVars, metricsVars, checkpointVars>>
InStreaming ==
  scene = "streaming" /\ UNCHANGED <<scene, vars, feedVars, petsVars, samplingVars, speculationVars,
    routingVars, treeVars, configVars, tokenizationVars, metricsVars, checkpointVars>>
InSampling ==
  scene = "sampling" /\ UNCHANGED <<scene, vars, feedVars, petsVars, streamVars, speculationVars,
    routingVars, treeVars, configVars, tokenizationVars, metricsVars, checkpointVars>>
InSpeculation ==
  scene = "speculation" /\ UNCHANGED <<scene, vars, feedVars, petsVars, streamVars, samplingVars,
    routingVars, treeVars, configVars, tokenizationVars, metricsVars, checkpointVars>>
InRouting ==
  scene = "routing" /\ UNCHANGED <<scene, vars, feedVars, petsVars, streamVars, samplingVars,
    speculationVars, treeVars, configVars, tokenizationVars, metricsVars, checkpointVars>>
InDrafting ==
  scene = "drafting" /\ UNCHANGED <<scene, vars, feedVars, petsVars, streamVars, samplingVars,
    speculationVars, routingVars, configVars, tokenizationVars, metricsVars, checkpointVars>>
InLoading ==
  scene = "loading" /\ UNCHANGED <<scene, vars, feedVars, petsVars, streamVars, samplingVars,
    speculationVars, routingVars, treeVars, tokenizationVars, metricsVars, checkpointVars>>
InEncoding ==
  scene = "encoding" /\ UNCHANGED <<scene, vars, feedVars, petsVars, streamVars, samplingVars,
    speculationVars, routingVars, treeVars, configVars, metricsVars, checkpointVars>>
InMetering ==
  scene = "metering" /\ UNCHANGED <<scene, vars, feedVars, petsVars, streamVars, samplingVars,
    speculationVars, routingVars, treeVars, configVars, tokenizationVars, checkpointVars>>
InRestoring ==
  scene = "restoring" /\ UNCHANGED <<scene, vars, feedVars, petsVars, streamVars, samplingVars,
    speculationVars, routingVars, treeVars, configVars, tokenizationVars, metricsVars>>

WholeSoFar(id) == "?" \notin ToSet(Decoded(Append(tokenIds, id)).text)

MCNext ==
  \/ InTrading /\ Tick
  \/ InTrading /\ MarkNow
  \/ InTrading /\ \E o \in Orders : Propose(o)
  \/ InTrading /\ \E id \in DOMAIN proposals : Approve(id)
  \/ InTrading /\ \E id \in DOMAIN proposals : Reject(id)
  \/ InTrading /\ ApproveRaises
  \/ InTrading /\ Halt
  \/ InTrading /\ Resume
  \/ InPrices /\ FeedNext
  \/ InPets /\ \E n \in Pauses : Pass(n)
  \/ InPets /\ \E species \in Species : \E name \in Names \cup {DefaultName[species]} : Adopt(species, name)
  \/ InPets /\ \E name \in DOMAIN unwatched, favourite \in BOOLEAN : Feed(name, favourite)
  \/ InPets /\ \E name \in DOMAIN unwatched : Play(name)
  \/ InPets /\ \E name \in DOMAIN unwatched : PetIt(name)
  \/ InPets /\ \E name \in DOMAIN unwatched, n \in NapHours : Nap(name, n)
  \/ InPets /\ \E name \in DOMAIN unwatched : Watch(name)
  \/ InStreaming /\ \E id \in DOMAIN Vocabulary : WholeSoFar(id) /\ Push(id)
  \/ InStreaming /\ Finalize
  \/ InSampling /\ SamplingNext
  \/ InSpeculation /\ Rejecting
  \/ InSpeculation /\ Accepting
  \/ InRouting /\ \E logits \in Batches : Route(logits)
  \/ InRouting /\ ResetStats
  \/ InDrafting /\ \E n \in DOMAIN nodes : \E d \in ToSet(Draft[nodes[n].token]) : Add(n, d)
  \/ InDrafting /\ \E width \in Widths, levels \in Levels : Expand(width, levels)
  \/ InDrafting /\ \E maxNodes \in 0..Len(nodes) : Prune(maxNodes)
  \/ InLoading /\ Read
  \/ InLoading /\ Return
  \/ InLoading /\ Override
  \/ InLoading /\ Validate
  \/ InEncoding /\ TokenizationNext
  \/ InMetering /\ \E o \in Observers, value \in Observable : Observe(o, value)
  \/ InMetering /\ \E o \in Observers : \E value \in placing[o] : Place(o, value)
  \/ InMetering /\ \E s \in Scrapers : BeginScrape(s)
  \/ InMetering /\ \E s \in Scrapers : \E r \in scrape[s] : RenderBucket(s, r)
  \/ InMetering /\ \E s \in Scrapers : \E r \in scrape[s] : RenderSum(s, r)
  \/ InMetering /\ \E s \in Scrapers : \E r \in scrape[s] : RenderCount(s, r)
  \/ InRestoring /\ Discover
  \/ InRestoring /\ ReadHeader
  \/ InRestoring /\ ValidateManifest

MCSpec ==
  MCInit /\ [][MCNext]_<<scene, vars, feedVars, petsVars, streamVars, samplingVars, speculationVars,
                       routingVars, treeVars, configVars, tokenizationVars, metricsVars, checkpointVars>>
=============================================================================
