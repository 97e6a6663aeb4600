------------------------------ MODULE LaunchPlan ------------------------------
(***************************************************************************)
(* How a launcher turns what it was told (arguments, environment, a file   *)
(* of the user's, the hardware, the model's directory) into the start      *)
(* script of an engine, in one pod or in the pods of a cluster             *)
(* (core/wings_entry.py, core/config_loader.py, core/start_args_compat.py, *)
(* core/hardware_detect.py, engines/*_adapter.py).                         *)
(*                                                                         *)
(* An engine's configuration is a function from names of parameters to     *)
(* values; dict.update and _merge_configs are ++.  A script is abstracted  *)
(* to what the properties tell apart: the engine and the options it is     *)
(* started with, where it listens, whom it meets and its share of the      *)
(* cluster's ranks.                                                        *)
(***************************************************************************)
EXTENDS Integers, Sequences, FiniteSets, Functions

CONSTANTS
    Nodes,          \* the pods, in the order of NODE_IPS; the first is the master
    Settings,       \* what the launchers of a deployment can be told, see below
    DeployConfig,   \* model_deploy_config: device -> type -> architecture -> model -> engine
    EngineDefaults  \* <engine>_default.json

(* A setting has the fields                                                *)
(*   hw          device (as written), count, name ("" if not known)        *)
(*   model       arch, name, listed (its type in the built-in tables),     *)
(*               described (quant_model_description.json is there and the  *)
(*               configuration names no quantization), mtp                 *)
(*   engine, modelType, usage, devices, backend    arguments               *)
(*   args        the arguments that become parameters of the engine        *)
(*   spec, sparse, draft   speculative decoding, sparse KV, a draft model  *)
(*   distributed, masterKnown, nodes   DISTRIBUTED, MASTER_IP, NODE_IPS    *)
(*   env         the other environment variables, as written               *)
(*   file        the user's configuration file                             *)

\* Each pod has an address of its own.
ASSUME NodesAssumption ==
    Nodes \in Seq(Range(Nodes)) /\ Nodes # <<>> /\ IsInjective(Nodes)

ASSUME SettingsAssumption ==
    \A s \in Settings :
        /\ {s.distributed, s.masterKnown} \subseteq BOOLEAN
        /\ s.nodes \in 1..Len(Nodes)
        /\ {s.hw.count, s.devices} \subseteq Int

VARIABLES
    setting,        \* what the launchers were told
    plan            \* plan[n]: the start script of pod n

vars == <<setting, plan>>

Empty == <<>>
\* dict.update, and _merge_configs for values that are not dictionaries themselves.
over ++ under ==
    [k \in DOMAIN over \cup DOMAIN under |-> IF k \in DOMAIN over THEN over[k] ELSE under[k]]
Get(dict, key) == IF key \in DOMAIN dict THEN dict[key] ELSE Empty
Without(dict, keys) == Restrict(dict, DOMAIN dict \ keys)
IsEmpty(dict) == DOMAIN dict = {}

-----------------------------------------------------------------------------
(* Hardware, environment, model.                                           *)

\* _normalize_device: anything unknown counts as nvidia.
Normalised(raw) == IF raw \in {"ascend", "npu"} THEN "ascend" ELSE "nvidia"

Detected(hw) == [device |-> Normalised(hw.device),
                 count  |-> IF hw.count > 0 THEN hw.count ELSE 1,
                 name   |-> IF hw.name = "" THEN "unknown" ELSE hw.name]

Device(s) == Detected(s.hw).device
Is310(s) == Detected(s.hw).name = "Ascend310P"

\* The getters of env_utils know "true" only, _to_bool of the arguments more.
On(raw) == raw = "true"
Truthy(raw) == raw \in {"1", "true", "yes", "on"}

PdRole(s) == IF s.env.pd \in {"P", "D"} THEN s.env.pd ELSE ""

ModelType(s) == IF s.modelType = "auto" THEN s.model.listed ELSE s.modelType
Pooling(s) == ModelType(s) \in {"embedding", "rerank"}

WingsArchitectures ==
    {"DeepseekV3ForCausalLM", "DeepseekV32ForCausalLM", "Glm4ForCausalLM", "Glm4MoeForCausalLM",
     "Qwen2ForCausalLM", "Qwen3ForCausalLM", "Qwen3MoeForCausalLM", "Qwen3NextForCausalLM",
     "LlamaForCausalLM", "XLMRobertaModel", "BertModel", "XLMRobertaForSequenceClassification"}

DeepSeek(s) == s.model.arch \in {"DeepseekV3ForCausalLM", "DeepseekV32ForCausalLM"}

IsFp4(s) == s.model.arch = "Qwen3ForCausalLM" /\ s.model.described
IsDeepseekFp8(s) == s.model.arch = "DeepseekV3ForCausalLM" /\ s.model.described
IsQwen3Fp8(s) ==
    /\ \/ s.model.arch = "Qwen3ForCausalLM"
       \/ s.model.arch = "Qwen3MoeForCausalLM" /\ s.model.name # "Qwen3-235B-A22B"
    /\ s.model.described

-----------------------------------------------------------------------------
(* The engine.                                                             *)

\* The argument's default is vllm, so an engine is always named.
Requested(s) == IF s.engine = "unset" THEN "vllm" ELSE s.engine
Accepted(s) == Requested(s) \in {"vllm", "vllm_ascend", "sglang", "mindie"}

\* _select_nvidia_engine, _select_ascend_engine: the choice when none is named.
Selected(s) ==
    IF Device(s) = "nvidia"
    THEN IF \/ On(s.env.lmcache) \/ PdRole(s) # "" \/ On(s.env.router)
            \/ s.usage = "mig" \/ Pooling(s) \/ s.model.arch \notin WingsArchitectures
         THEN "vllm" ELSE "sglang"
    ELSE IF Is310(s) THEN "mindie"
    ELSE IF \/ Pooling(s) \/ On(s.env.atb) \/ On(s.env.lmcache) \/ On(s.env.router)
            \/ On(s.env.fp8)
            \/ s.model.arch \in {"DeepseekV32ForCausalLM", "Qwen3NextForCausalLM"}
            \/ s.model.arch \notin WingsArchitectures
         THEN "vllm_ascend" ELSE "mindie"

\* Mistake: Sglang is kept although KV offload is asked for.
ValidatedKeepsSglang(s) ==
    LET engine == Requested(s)
        mindie == engine = "mindie" /\ ~Is310(s)
        pooled == On(s.env.lmcache) \/ Pooling(s)
    IN  CASE mindie /\ pooled -> "vllm_ascend"
          [] mindie /\ ~pooled /\ On(s.env.router) -> "vllm"
          [] mindie /\ ~pooled /\ ~On(s.env.router) /\ On(s.env.atb) -> "vllm_ascend"
          [] /\ engine = "sglang"
             /\ Pooling(s) \/ PdRole(s) # "" \/ On(s.env.router) \/ s.usage = "mig" -> "vllm"
          [] OTHER -> engine

\* _validate_user_engine: an engine that cannot do what is asked for is replaced.
Validated(s) ==
    LET engine == Requested(s)
        mindie == engine = "mindie" /\ ~Is310(s)
        pooled == On(s.env.lmcache) \/ Pooling(s)
    IN  CASE mindie /\ pooled -> "vllm_ascend"
          [] mindie /\ ~pooled /\ On(s.env.router) -> "vllm"
          [] mindie /\ ~pooled /\ ~On(s.env.router) /\ On(s.env.atb) -> "vllm_ascend"
          [] /\ engine = "sglang"
             /\ pooled \/ PdRole(s) # "" \/ On(s.env.router) \/ s.usage = "mig" -> "vllm"
          [] OTHER -> engine

\* _auto_select_engine with _handle_ascend_vllm: vllm becomes vllm_ascend on Ascend.
Chosen(s) ==
    IF Validated(s) = "vllm" /\ Device(s) = "ascend" THEN "vllm_ascend" ELSE Validated(s)

VllmFamily(engine) == engine \in {"vllm", "vllm_ascend"}

DeviceCount(s) == IF s.usage = "full" THEN Detected(s.hw).count ELSE s.devices

-----------------------------------------------------------------------------
(* The place of a pod.  A launcher that is told DISTRIBUTED without        *)
(* MASTER_IP starts alone, with the argument still set (NNODES and         *)
(* --node-rank are taken to be unset then).                                *)

Members(s) == SubSeq(Nodes, 1, s.nodes)
InCluster(s) == s.distributed /\ s.masterKnown

Place(s, rank) ==
    [distributed |-> s.distributed,
     nnodes |-> IF InCluster(s) THEN s.nodes ELSE 1,
     rank   |-> rank,
     head   |-> IF InCluster(s) THEN Nodes[1] ELSE "127.0.0.1"]

MultiNode(p) == p.distributed /\ p.nnodes > 1

\* _handle_vllm_distributed: what the merge chooses, and the port that goes with it.
UsesDp(s) == PdRole(s) # "" \/ (DeepSeek(s) /\ Chosen(s) = "vllm_ascend")
MergedBackend(s) == IF UsesDp(s) THEN "dp_deployment" ELSE "ray"

\* The adapter reads a port the merge did not set from the environment or a constant.
RayPort(s) == IF ~UsesDp(s) /\ s.env.port > 0 THEN s.env.port ELSE 28020
RpcPort == 13355
DistPort(s) == IF s.env.port > 0 THEN s.env.port ELSE 28030
MindieMasterPort == 27070

-----------------------------------------------------------------------------
(* The defaults of the model, and the arguments under the engine's names.  *)

EngineKey(s, p) == IF p.distributed THEN Chosen(s) \o "_distributed" ELSE Chosen(s)

H20Cards == {"H20-96G", "H20-141G"}

\* The section of the model itself; DeepSeek on sglang has one more level, by card.
OwnSection(s, p) ==
    LET found == Get(Get(Get(Get(DeployConfig[Device(s)], ModelType(s)), s.model.arch),
                         s.model.name), EngineKey(s, p))
        byCard == /\ s.model.arch = "DeepseekV3ForCausalLM" /\ Device(s) = "nvidia"
                  /\ Chosen(s) = "sglang" /\ ~p.distributed
    IN  IF byCard /\ s.env.h20 \in H20Cards THEN Get(found, s.env.h20) ELSE found

\* _get_model_specific_config: the model's section, its architecture's, its type's,
\* and the engine's own file when the type is not known at all.
DeployDefaults(s, p) ==
    LET models == Get(DeployConfig[Device(s)], ModelType(s))
    IN  CASE IsEmpty(models) -> Get(EngineDefaults, Chosen(s))
          [] ~IsEmpty(models) /\ s.model.arch \in DOMAIN models ->
                IF ~IsEmpty(OwnSection(s, p)) THEN OwnSection(s, p)
                ELSE Get(Get(models[s.model.arch], "default"), EngineKey(s, p))
          [] OTHER -> Get(Get(models, "default"), EngineKey(s, p))

\* The degrees that the merge works out from the devices; none of the shipped defaults
\* names one.  Others they do name: tp and dp of mindie for DeepSeek and Qwen3-235B (4 and
\* 4, ascend_default.json), dp of sglang for DeepSeek on an H20-141G (8).
Degrees == {"tensor_parallel_size", "tp_size", "worldSize", "pipeline_parallel_size"}

ASSUME DefaultsAssumption ==
    \A s \in Settings : DOMAIN DeployDefaults(s, Place(s, 0)) \cap Degrees = {}

\* engine_parameter_mapping.json; an argument without a name is not passed on.
VllmNames == [host |-> "host", port |-> "port", seqs |-> "max_num_seqs",
              quantization |-> "quantization", chunked |-> "enable_chunked_prefill",
              ep |-> "enable_expert_parallel", prefix |-> "enable_prefix_caching"]
SglangNames == [host |-> "host", port |-> "port", seqs |-> "max_running_requests",
                quantization |-> "quantization", ep |-> "enable_ep_moe",
                prefix |-> "disable_chunked_prefix_cache"]
MindieNames == [host |-> "ipAddress", port |-> "port", input |-> "maxInputTokenLen",
                output |-> "maxIterTimes", ep |-> "enable_ep_moe"]

\* The arguments all have defaults, so each one that has a name is set.
Renamed(args, names) ==
    [k \in Range(names) |-> args[CHOOSE a \in DOMAIN names : names[a] = k]]

-----------------------------------------------------------------------------
(* _merge_vllm_params: steps that each add to or take from the parameters. *)

\* add, over params, if the condition holds.
AddIf(cond, add, params) == IF cond THEN add ++ params ELSE params

\* _set_function_call: the choice of tools and the parser only go together.
FunctionCall(params) ==
    IF {"enable_auto_tool_choice", "tool_call_parser"} \subseteq DOMAIN params THEN params
    ELSE Without(params, {"enable_auto_tool_choice", "tool_call_parser"})

\* Mistake: A pod with a PD role counts the devices of all the others too.
AdjustTpGlobal(s, p, key, distributed, params) ==
    LET tp == IF distributed THEN DeviceCount(s) * s.nodes ELSE DeviceCount(s)
    IN  AddIf(key \notin DOMAIN params, [k \in {key} |-> tp], params)

\* _adjust_tensor_parallelism (the check for a PCIe card never succeeds: it unpacks
\* a triple into a pair).
AdjustTp(s, p, key, distributed, params) ==
    LET tp == IF distributed /\ PdRole(s) = "" THEN DeviceCount(s) * s.nodes
              ELSE DeviceCount(s)
    IN  AddIf(key \notin DOMAIN params, [k \in {key} |-> tp], params)

PdConnector(s) ==
    IF Device(s) = "ascend"
    THEN <<"LLMDataDistCMgrConnector", IF PdRole(s) = "P" THEN "kv_producer" ELSE "kv_consumer">>
    ELSE <<"NixlConnector", "kv_both">>

\* _set_kv_cache_config: the connectors of the one --kv-transfer-config.
Connectors(s) ==
    (IF PdRole(s) # "" THEN {PdConnector(s)} ELSE {})
        \cup (IF On(s.env.lmcache) THEN {<<"LMCacheConnectorV1", "kv_both">>} ELSE {})

\* _set_soft_fp8, then _set_soft_fp4.  The parameters never hold a device_count, so
\* the recommended 4 x 4 is what DeepSeek gets.
SoftQuantized(s, params) ==
    LET ascend == Device(s) = "ascend"
        qwen == ascend /\ IsQwen3Fp8(s)
        deepseek == ascend /\ ~IsQwen3Fp8(s) /\ IsDeepseekFp8(s)
        p1 == AddIf(qwen \/ deepseek, [quantization |-> "ascend"], params)
        p2 == AddIf(qwen /\ s.model.arch = "Qwen3MoeForCausalLM",
                    [enable_expert_parallel |-> FALSE], p1)
        p3 == AddIf(deepseek,
                    [enforce_eager |-> TRUE, no_enable_prefix_caching |-> TRUE,
                     enable_expert_parallel |-> FALSE, data_parallel_size |-> 4,
                     tensor_parallel_size |-> 4, use_kunlun_atb |-> FALSE], p2)
    IN  AddIf(ascend /\ IsFp4(s), [quantization |-> "ascend"], p3)

\* _set_task and _validate_embedding_rerank_params.
Pooled(s, params) ==
    LET task == IF ModelType(s) = "embedding" THEN "embedding" ELSE "score"
        p1 == AddIf(Pooling(s), [task |-> task], params)
        p2 == AddIf(Pooling(s) /\ Device(s) = "ascend",
                    [enforce_eager |-> TRUE, use_kunlun_atb |-> FALSE], p1)
    IN  IF Pooling(s) THEN Without(p2, {"enable_chunked_prefill", "enable_prefix_caching"})
        ELSE p2

MergeVllm(s, p, defaults) ==
    LET length == s.args.input + s.args.output
        p1 == FunctionCall(Renamed(s.args, VllmNames) ++ defaults)
        p2 == AddIf(length > 0, [max_model_len |-> length], p1)
        p3 == AdjustTp(s, p, "tensor_parallel_size", p.distributed, p2)
        p4 == AddIf(Connectors(s) # {}, [kv_transfer_config |-> Connectors(s)], p3)
        p5 == AddIf(On(s.env.router) /\ s.env.group # "", [kv_events_config |-> s.env.group], p4)
        p6 == AddIf(On(s.env.atb) /\ Device(s) = "ascend", [use_kunlun_atb |-> TRUE], p5)
        p7 == SoftQuantized(s, p6)
        \* the size itself comes from the card's memory and the number of layers
        p8 == AddIf(s.usage # "full" /\ ModelType(s) = "llm", [cuda_graph_sizes |-> 1], p7)
    IN  Pooled(s, p8)

-----------------------------------------------------------------------------
(* The other engines.                                                      *)

LongContext == 8192      \* MINDIE_LONG_CONTEXT_THRESHOLD

SplitsLongContext(s, p) ==
    /\ Chosen(s) = "mindie" /\ p.distributed /\ DeepSeek(s)
    /\ s.args.input + s.args.output > LongContext

\* _merge_mindie_params.  On one node worldSize is the number of devices unless the
\* defaults have one; in a cluster it always is.
MergeMindie(s, p, defaults) ==
    LET named == Renamed(s.args, MindieNames) ++ defaults
        known == [isMTP |-> s.model.mtp,
                  isMOE |-> \/ s.model.name = "DeepSeek-R1-671B"
                            \/ named["enable_ep_moe"],
                  npuDeviceIds |-> DeviceCount(s)]
        p1 == known ++ named
        p2 == AddIf(s.args.input > 0 /\ s.args.output > 0,
                    [maxSeqLen |-> s.args.input + s.args.output,
                     maxPrefillTokens |-> IF s.args.input > 8192 THEN s.args.input ELSE 8192],
                    p1)
        p3 == AddIf(SplitsLongContext(s, p), [dp |-> 1, sp |-> 8, cp |-> 2, tp |-> 2], p2)
    IN  IF p.distributed
        THEN [worldSize |-> DeviceCount(s), multiNodesInferEnabled |-> FALSE,
              node_ips |-> Members(s)] ++ p3
        ELSE AdjustTp(s, p, "worldSize", FALSE, p3)

\* _merge_sglang_params: prefix caching is negated; the mere presence of enable_ep_moe
\* gives ep_size; the parser of tools stays only beside enable_tool_choice.
MergeSglang(s, p, defaults) ==
    LET p1 == [disable_chunked_prefix_cache |-> ~s.args.prefix]
                  ++ Renamed(s.args, SglangNames) ++ defaults
        p2 == AddIf(s.args.input > 0 /\ s.args.output > 0,
                    [context_length |-> s.args.input + s.args.output], p1)
        p3 == AdjustTp(s, p, "tp_size", p.distributed, p2)
        p4 == AddIf("enable_ep_moe" \in DOMAIN p3, [ep_size |-> p3["tp_size"]],
                    Without(p3, {"enable_ep_moe"}))
    IN  IF "enable_tool_choice" \in DOMAIN p4 THEN Without(p4, {"enable_tool_choice"})
        ELSE Without(p4, {"tool_call_parser"})

MergeCmd(s, p) ==
    LET defaults == DeployDefaults(s, p)
    IN  CASE VllmFamily(Chosen(s)) -> MergeVllm(s, p, defaults)
          [] Chosen(s) = "mindie" -> MergeMindie(s, p, defaults)
          [] Chosen(s) = "sglang" -> MergeSglang(s, p, defaults)

\* load_and_merge_configs: the user's file over everything, or instead of it.
Forced(s) == ~IsEmpty(s.file) /\ On(s.env.force)
LoadAndMerge(s, p) == IF Forced(s) THEN s.file ELSE s.file ++ MergeCmd(s, p)

\* What ends the planning with an exception: an engine or a number of devices that is
\* refused, and a name that is not defined where the long context is logged.
PlanFails(s, p) ==
    \/ ~Accepted(s)
    \/ DeviceCount(s) <= 0
    \/ ~Forced(s) /\ SplitsLongContext(s, p)

-----------------------------------------------------------------------------
(* The script.                                                             *)

BackendPort == 17000     \* derive_port_plan: whatever port the user named

Serves(p) == ~p.distributed \/ p.rank = 0

\* Mistake: The user's host and port win over the plan's.
AddressedYields(p, config) ==
    IF Serves(p) THEN config ++ [host |-> "0.0.0.0", port |-> BackendPort]
    ELSE Without(config, {"host", "port"})

\* build_launcher_plan: the serving pod gets its address here, the others lose it.
Addressed(p, config) ==
    IF Serves(p) THEN [host |-> "0.0.0.0", port |-> BackendPort] ++ config
    ELSE Without(config, {"host", "port"})

\* The builders of the command skip what is false, empty or not an option.
Switches == {"enable_expert_parallel", "enable_prefix_caching", "enable_chunked_prefill",
             "enable_auto_tool_choice", "trust_remote_code", "enforce_eager",
             "no_enable_prefix_caching", "disable_chunked_prefix_cache"}
Texts == {"quantization", "host"}

Command(config) ==
    Without(config, {k \in DOMAIN config : \/ k \in Switches /\ ~config[k]
                                           \/ k \in Texts /\ config[k] = ""
                                           \/ k = "use_kunlun_atb"})

\* _build_speculative_cmd.
Speculation(s) ==
    CASE s.draft -> "draft"
      [] ~s.draft /\ s.model.arch = "Qwen3NextForCausalLM" /\ Chosen(s) = "vllm_ascend" -> "suffix"
      [] ~s.draft /\ \/ DeepSeek(s) \/ s.model.arch = "Glm4MoeForCausalLM"
                     \/ s.model.arch = "Qwen3NextForCausalLM" /\ Chosen(s) = "vllm" -> "mtp"
      [] OTHER -> "suffix"

\* Speculative decoding and, on vllm, sparse KV with a connector of its own.
Extras(s, options) ==
    LET o1 == AddIf(Truthy(s.spec), [speculative_config |-> Speculation(s)], options)
    IN  AddIf(Truthy(s.sparse) /\ Chosen(s) = "vllm",
              [sparse_config |-> TRUE, enforce_eager |-> TRUE,
               kv_transfer_config |-> {<<"SparseConnector", "kv_both">>}], o1)

\* What every script says; the adapters fill in the rest.
Script(s, p, config) ==
    [status |-> "written", engine |-> Chosen(s), rank |-> p.rank,
     mode |-> "single", listens |-> Serves(p), options |-> config,
     host |-> Get(config, "host"), port |-> Get(config, "port"),
     meet |-> <<"none", 0>>, self |-> "none", size |-> 1, share |-> {0},
     patch |-> {}]

\* vllm_adapter.build_start_script.  The launcher overwrites the backend the merge chose
\* by the argument.
RayHead(s, p, script) ==
    LET pipeline == [pipeline_parallel_size |-> s.nodes, tensor_parallel_size |-> DeviceCount(s)]
        o1 == AddIf(Chosen(s) = "vllm_ascend", [enforce_eager |-> TRUE], script.options)
        o2 == AddIf(s.model.arch = "Qwen3MoeForCausalLM", pipeline, Extras(s, o1))
    IN  [script EXCEPT !.options = o2]

\* `ray start --address` only.  A worker on Ascend scans NODE_IPS for the port instead of
\* taking the head's address; only the head listens there.
RayWorker(script) == [script EXCEPT !.options = Empty, !.host = Empty, !.port = Empty]

\* Mistake: Every pod takes the share of the first but for its offset, one too early.
DpShareEarly(s, p) ==
    IF DeepSeek(s) /\ Chosen(s) = "vllm_ascend"
    THEN [size |-> 4, ranks |-> IF p.rank = 0 THEN {0, 1} ELSE {1, 2}]
    ELSE [size |-> p.nnodes, ranks |-> {p.rank}]

DpShare(s, p) ==
    IF DeepSeek(s) /\ Chosen(s) = "vllm_ascend"
    THEN [size |-> 4, ranks |-> IF p.rank = 0 THEN {0, 1} ELSE {2, 3}]
    ELSE [size |-> p.nnodes, ranks |-> {p.rank}]

\* Each pod starts its share of the ranks; only the first serves.
DataParallel(s, p, script) ==
    LET dp == [script EXCEPT !.mode = "dp", !.meet = <<p.head, RpcPort>>,
                             !.size = DpShare(s, p).size, !.share = DpShare(s, p).ranks]
    IN  IF p.rank = 0 THEN dp
        ELSE [dp EXCEPT !.options = Without(@, {"host", "port"}), !.host = Empty, !.port = Empty]

VllmScript(s, p, config) ==
    LET script == [Script(s, p, config) EXCEPT !.options = Command(config)]
        ray == [script EXCEPT !.mode = "ray", !.meet = <<p.head, RayPort(s)>>,
                              !.size = p.nnodes, !.share = {p.rank}]
    IN  CASE ~MultiNode(p) -> [script EXCEPT !.options = Extras(s, script.options)]
          [] MultiNode(p) /\ s.backend = "ray" ->
                IF p.rank = 0 THEN RayHead(s, p, ray) ELSE RayWorker(ray)
          [] MultiNode(p) /\ s.backend # "ray" -> DataParallel(s, p, script)

\* sglang_adapter.build_start_command: the workers bind to every address.
SglangScript(s, p, config) ==
    LET script == [Script(s, p, config) EXCEPT !.options = Command(config)]
    IN  IF MultiNode(p)
        THEN [script EXCEPT !.mode = "sglang", !.meet = <<p.head, DistPort(s)>>,
                            !.size = p.nnodes, !.share = {p.rank},
                            !.host = IF p.rank # 0 THEN "0.0.0.0" ELSE @]
        ELSE script

\* _build_distributed_env_commands: MASTER_ADDR is MASTER_IP, and a pod says the
\* address the list node_ips has at its rank.
MindieCluster(p, config, script) ==
    LET ips == Get(config, "node_ips")
    IN  [script EXCEPT !.mode = "mindie", !.meet = <<Nodes[1], MindieMasterPort>>,
                       !.size = p.nnodes, !.share = {p.rank},
                       !.self = IF p.rank < Len(ips) THEN ips[p.rank + 1] ELSE Nodes[1]]

\* The sizes in ModelConfig: worldSize has a default, and so have tp and dp of a model of
\* experts; of any other model they are written only if they are named.
MindieOptions(p, config) ==
    LET sized == config ++ [worldSize |-> IF p.distributed THEN 8 ELSE 1]
    IN  IF "isMOE" \in DOMAIN config /\ config["isMOE"]
        THEN sized ++ [tp |-> sized["worldSize"], dp |-> -1] ELSE sized

\* mindie_adapter.build_start_script: each pod runs a daemon that serves HTTP; the address
\* is the parameter ipAddress, not host, and the port has a default.
MindieScript(s, p, config) ==
    LET address == IF Serves(p) THEN "0.0.0.0" ELSE "127.0.0.1"
        script == [Script(s, p, config) EXCEPT
                       !.listens = TRUE, !.options = MindieOptions(p, config),
                       !.host = IF "ipAddress" \in DOMAIN config THEN config["ipAddress"] ELSE address,
                       !.port = IF "port" \in DOMAIN config THEN config["port"] ELSE 18000]
    IN  IF MultiNode(p) THEN MindieCluster(p, config, script) ELSE script

\* engine_manager: vllm_ascend has no adapter of its own.
AdapterOf(engine) == IF engine = "vllm_ascend" THEN "vllm" ELSE engine

StartEngineService(s, p, config) ==
    CASE AdapterOf(Chosen(s)) = "vllm" -> VllmScript(s, p, config)
      [] AdapterOf(Chosen(s)) = "sglang" -> SglangScript(s, p, config)
      [] AdapterOf(Chosen(s)) = "mindie" -> MindieScript(s, p, config)

\* _build_accel_env_line: the patches, for the engine that is really started (a line the
\* user wrote himself replaces it; taken not to be there).
PatchKey(engine) == IF engine = "vllm_ascend" THEN "vllm" ELSE engine
AllFeatures == {"speculative_decode", "sparse_kv", "lmcache_offload", "soft_fp8", "soft_fp4"}
Features(s) ==
    {f \in AllFeatures :
        On(CASE f = "speculative_decode" -> s.spec
             [] f = "sparse_kv" -> s.sparse
             [] f = "lmcache_offload" -> s.env.lmcache
             [] f = "soft_fp8" -> s.env.fp8
             [] f = "soft_fp4" -> s.env.fp4)}
AccelLine(s) ==
    IF s.env.accel /\ Features(s) # {} THEN {<<PatchKey(Chosen(s)), Features(s)>>} ELSE {}

\* build_launcher_plan.
BuildPlan(s, p) ==
    IF PlanFails(s, p) THEN [status |-> "failed"]
    ELSE [StartEngineService(s, p, Addressed(p, LoadAndMerge(s, p))) EXCEPT !.patch = AccelLine(s)]

-----------------------------------------------------------------------------
(* The launchers.                                                          *)

NoPlan == [status |-> "none"]

Init ==
    /\ setting \in Settings
    /\ plan = [n \in {Nodes[i] : i \in DOMAIN Nodes} |-> NoPlan]

Write(n, p) ==
    /\ plan[n] = NoPlan
    /\ plan' = [plan EXCEPT ![n] = BuildPlan(setting, p)]
    /\ UNCHANGED setting

\* run: a pod of its own, or a launcher that does not know its master.
Standalone ==
    /\ ~InCluster(setting)
    /\ Write(Nodes[1], Place(setting, 0))

\* _run_master_mode: the master writes its own script before it tells the others.
Master ==
    /\ InCluster(setting)
    /\ Write(Nodes[1], Place(setting, 0))

\* start_engine_api on the worker with this rank: the master sends on the arguments it was
\* given, not what it made of them, and the worker plans again from its own environment.
StartEngine(rank) ==
    /\ InCluster(setting) /\ rank < setting.nodes
    /\ plan[Nodes[1]].status = "written"
    /\ Write(Nodes[rank + 1], Place(setting, rank))

Next ==
    \/ Standalone
    \/ Master
    \/ \E rank \in 1..(Len(Nodes) - 1) : StartEngine(rank)

Spec == Init /\ [][Next]_vars

-----------------------------------------------------------------------------
(* Properties.                                                             *)

Planned == {n \in DOMAIN plan : plan[n].status = "written"}
Options(n) == plan[n].options

\* Settings whose command is not the launcher's to answer for: the user's file replaces
\* the merged configuration, or names a parameter of the property itself.
OwnWords(keys) == Forced(setting) \/ keys \cap DOMAIN setting.file # {}

\* Whatever host and port the arguments or the user's file name, the engine beside the
\* proxy listens on the port the proxy forwards to (wings_control.py 257-263), and, mindie
\* apart, on every address, so that both RANK_IP and 127.0.0.1 reach it.
ListensWhereProxySends ==
    Nodes[1] \in Planned =>
        LET script == plan[Nodes[1]]
        IN  /\ script.listens /\ script.port = BackendPort
            /\ script.engine # "mindie" => script.host = "0.0.0.0"

\* DeepSeek on Ascend is split for exactly two pods, whatever their number.
FixedSplit == DeepSeek(setting) /\ Chosen(setting) = "vllm_ascend" /\ setting.backend # "ray"

\* The pods of a cluster each plan for themselves, from the arguments the master sends on.
\* What they write fits together all the same: one engine, one way of joining, one meeting
\* point, and shares that do not overlap and together are every rank.  A mindie pod says
\* its own address, unless the user's file lists others or replaces the configuration.
OneCluster ==
    InCluster(setting) =>
        /\ \A n, m \in Planned :
              /\ \A field \in {"engine", "mode", "meet", "size"} : plan[n][field] = plan[m][field]
              /\ n # m /\ ~(FixedSplit /\ setting.nodes # 2) => plan[n].share \cap plan[m].share = {}
        /\ Cardinality(Planned) = setting.nodes /\ ~(FixedSplit /\ setting.nodes # 2) =>
              UNION {plan[n].share : n \in Planned} = 0..(plan[Nodes[1]].size - 1)
        /\ \A n \in Planned : plan[n].mode = "mindie" /\ ~OwnWords({"node_ips"}) => plan[n].self = n

\* An engine runs on Ascend or on nvidia.
Fits(engine) ==
    engine \in (IF Device(setting) = "ascend" THEN {"vllm_ascend", "mindie"} ELSE {"vllm", "sglang"})

\* The connectors the command of a pod names.
Named(n) == Get(Options(n), "kv_transfer_config")

\* A feature that is switched on, or that the model needs, is not lost on the way from the
\* environment to the command: the engine is changed for one that has it, on the device
\* that is there, and the command carries its configuration.  mindie on a 310 has no
\* substitute, mindie is not changed for PD, sparse KV brings a second configuration of its
\* own, and a worker of ray has no command.  The accelerator patches in what the command
\* names, into the engine that is started.
FeaturesHonoured ==
    \A n \in Planned :
        LET s == setting
            mindie310 == Requested(s) = "mindie" /\ Is310(s)
            pd == PdRole(s) # "" /\ Requested(s) # "mindie"
            commands == plan[n].options # Empty
                            /\ ~OwnWords({"kv_transfer_config"}) /\ ~Truthy(s.sparse)
        IN  /\ Fits(Requested(s)) \/ Requested(s) = "vllm" => Fits(plan[n].engine)
            /\ (Pooling(s) \/ On(s.env.lmcache) \/ On(s.env.router)) /\ ~mindie310
                    => VllmFamily(plan[n].engine)
            /\ pd => VllmFamily(plan[n].engine)
            /\ commands /\ VllmFamily(plan[n].engine) =>
                  /\ On(s.env.lmcache) => <<"LMCacheConnectorV1", "kv_both">> \in Named(n)
                  /\ PdRole(s) # "" => PdConnector(s) \in Named(n)
                  /\ On(s.env.router) /\ s.env.group # "" =>
                        "kv_events_config" \in DOMAIN Options(n)
            /\ s.env.accel /\ On(s.spec) /\ "speculative_config" \in DOMAIN Options(n) =>
                  \E features \in SUBSET AllFeatures :
                      /\ "speculative_decode" \in features
                      /\ <<AdapterOf(plan[n].engine), features>> \in plan[n].patch

\* The devices a command spreads over: those of its pod, or of the whole cluster when one
\* process drives it.
DevicesOf(script) ==
    DeviceCount(setting) * (IF script.mode \in {"ray", "sglang"} THEN setting.nodes ELSE 1)

\* The degrees of parallelism a command names.
Degree(options, key) == IF key \in DOMAIN options THEN options[key] ELSE 1
TensorDegree(options) ==
    LET keys == (Degrees \ {"pipeline_parallel_size"}) \cap DOMAIN options
    IN  options[CHOOSE k \in keys : TRUE]

\* The ranks of mindie, tp times dp: without a tp it is worldSize, and a dp of -1 is none.
\* (dp of sglang shares out the tensor ranks and is no factor.)
OwnDegrees == {"tp", "dp", "data_parallel_size"}
MindieRanks(options) ==
    LET tp == IF "tp" \in DOMAIN options THEN options["tp"] ELSE options["worldSize"]
        dp == Degree(options, "dp")
    IN  tp * (IF dp > 0 THEN dp ELSE 1)

\* The section of the model fixes its degrees, whatever devices there are.
DegreesAreFixed(s) == OwnDegrees \cap DOMAIN DeployDefaults(s, Place(s, 0)) # {}

\* The command spreads the model over all the devices there are and over no more, whether
\* it runs alone, on ray, where Qwen3Moe is cut into stages instead, or with PD, where each
\* pod is on its own; and mindie's tp and dp multiply to its worldSize, a model of experts
\* or not.  Left out: the fixed split of DeepSeek, soft FP8 of DeepSeek, which is always
\* 4 x 4, two combinations the merge and the adapter see differently (PD on ray and data
\* parallelism without PD), the launcher that has no MASTER_IP, and tp and dp where the
\* shipped section of the model fixes them: the 4 x 4 of DeepSeek and Qwen3-235B on mindie
\* are 16 ranks beside a worldSize of 8 (WorldSizeIsTp below).
DevicesMatch ==
    \A n \in Planned :
        LET s == setting
            script == plan[n]
            stages == Degree(script.options, "pipeline_parallel_size")
        IN  \/ OwnWords(Degrees \cup OwnDegrees)
            \/ script.options = Empty \/ FixedSplit
            \/ Device(s) = "ascend" /\ IsDeepseekFp8(s) /\ VllmFamily(script.engine)
            \/ script.mode = "ray" /\ PdRole(s) # ""
            \/ script.mode = "dp" /\ PdRole(s) = ""
            \/ s.distributed /\ ~s.masterKnown
            \/ /\ TensorDegree(script.options) * stages = DevicesOf(script)
               /\ script.engine = "mindie" /\ ~DegreesAreFixed(s) =>
                     MindieRanks(script.options) = script.options["worldSize"]

-----------------------------------------------------------------------------
(* What comments and messages of the code say, and the code does not do.   *)

\* "falling back to standalone" (wings_control.py 353): a launcher that is told DISTRIBUTED
\* but has no MASTER_IP plans for its own pod.
FallsBackToStandalone ==
    \A n \in Planned : setting.distributed /\ ~setting.masterKnown =>
        TensorDegree(plan[n].options) = DeviceCount(setting)

\* "the dp/sp/cp/tp strategy is injected for a distributed DeepSeek with a long context"
\* (config_loader.py 676): such a pod gets a script, with the split in it.
LongContextIsSplit ==
    \A n \in DOMAIN plan :
        /\ plan[n].status # "none" /\ Chosen(setting) = "mindie" /\ DeepSeek(setting)
        /\ InCluster(setting) /\ setting.args.input + setting.args.output > LongContext
        => plan[n].status = "written" /\ plan[n].options["sp"] = 8

\* "no matching H20 card, use the configuration of the engine" (config_loader.py 1464): the
\* command's options are the engine's, not the names of cards.
CardsAreNotOptions == \A n \in Planned : H20Cards \cap DOMAIN Options(n) = {}

\* "worldSize = LOCAL TP degree (devices per node)" (config_loader.py 734): a pod of a cluster
\* that names a tp names that one.
WorldSizeIsTp ==
    \A n \in Planned : plan[n].mode = "mindie" /\ "tp" \in DOMAIN Options(n) =>
        Options(n)["tp"] = Options(n)["worldSize"]

\* "rank > 0 workers don't expose external HTTP" (mindie_adapter.py 441).
WorkersStayPrivate ==
    \A n \in Planned : plan[n].rank > 0 /\ plan[n].mode = "mindie" => plan[n].host = "127.0.0.1"

\* "PD role or DeepSeek on Ascend: dp_deployment, otherwise ray" (config_loader.py 1327-1328): the
\* script joins the way the merge chose.
BackendIsChosen ==
    \A n \in Planned : plan[n].mode \in {"ray", "dp"} =>
        (plan[n].mode = "ray" <=> MergedBackend(setting) = "ray")

\* "no engine named: select one automatically" (config_loader.py 1021).
UnnamedIsSelected ==
    \A n \in Planned : setting.engine = "unset" => plan[n].engine = Selected(setting)
=============================================================================
