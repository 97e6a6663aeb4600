---------------------------- MODULE MCLaunchPlan ----------------------------
(* LaunchPlan with three pods, the shipped defaults cut down to a few      *)
(* sections, and settings that vary a plain one in a few fields at a time. *)
EXTENDS LaunchPlan, TLC

ThreePods == <<"n1", "n2", "n3">>

\* config/defaults/nvidia_default.json and ascend_default.json.
Nvidia ==
    [llm |->
        [default |->
            [vllm |-> [max_model_len |-> 4096, trust_remote_code |-> TRUE],
             sglang |-> [context_length |-> 4096]],
         DeepseekV3ForCausalLM |->
            ("default" :>
                [vllm |-> [enable_expert_parallel |-> TRUE, enable_auto_tool_choice |-> TRUE,
                           tool_call_parser |-> "deepseek_v3"],
                 sglang |-> [enable_ep_moe |-> TRUE, tool_call_parser |-> "deepseekv3"],
                 sglang_distributed |-> [enable_ep_moe |-> TRUE]])
            @@ ("DeepSeek-R1" :>
                [vllm |-> [enable_expert_parallel |-> TRUE],
                 sglang |-> ("H20-96G" :> [mem_fraction_static |-> 9, enable_ep_moe |-> TRUE])
                            @@ ("H20-141G" :> [dp |-> 8, enable_dp_attention |-> TRUE]),
                 sglang_distributed |-> [enable_ep_moe |-> TRUE]])],
     embedding |-> [default |-> [vllm |-> [trust_remote_code |-> TRUE]]],
     rerank |-> [default |-> [vllm |-> [trust_remote_code |-> TRUE]]]]

Ascend ==
    [llm |->
        [default |->
            [vllm_ascend |-> [max_model_len |-> 4096],
             vllm_ascend_distributed |-> [max_model_len |-> 4096],
             mindie |-> [maxSeqLen |-> 4096]],
         DeepseekV3ForCausalLM |->
            [default |->
                [vllm_ascend |-> [enable_auto_tool_choice |-> TRUE,
                                  tool_call_parser |-> "deepseek_v3"],
                 mindie |-> [tp |-> 4, dp |-> 4], mindie_distributed |-> [tp |-> 4, dp |-> 4]]]],
     embedding |-> [default |-> [vllm_ascend |-> [trust_remote_code |-> TRUE]]],
     rerank |-> [default |-> [vllm_ascend |-> [trust_remote_code |-> TRUE]]]]

Sections == [nvidia |-> Nvidia, ascend |-> Ascend]

\* sglang_default.json and mindie_default.json, for a type of model no section knows.
Fallbacks == [sglang |-> [context_length |-> 4096], mindie |-> [maxInputTokenLen |-> 2048]]

-----------------------------------------------------------------------------
Gpu == [device |-> "gpu", count |-> 4, name |-> ""]
Npu == [device |-> "npu", count |-> 8, name |-> "Ascend910B"]
Old == [device |-> "ascend", count |-> 0, name |-> "Ascend310P"]

Llm(arch, name, described) ==
    [arch |-> arch, name |-> name, listed |-> "llm", described |-> described, mtp |-> FALSE]
Models ==
    {Llm("DeepseekV3ForCausalLM", "DeepSeek-R1", FALSE),
     Llm("DeepseekV3ForCausalLM", "DeepSeek-R1-w8a8", TRUE),
     Llm("Qwen3MoeForCausalLM", "Qwen3-30B-A3B", TRUE),
     [Llm("XLMRobertaModel", "bge-m3", FALSE) EXCEPT !.listed = "embedding"]}

Args == [host |-> "0.0.0.0", port |-> 18000, seqs |-> 32, quantization |-> "",
         chunked |-> TRUE, ep |-> FALSE, prefix |-> FALSE, input |-> 4096, output |-> 1024]

NoEnv == [lmcache |-> "false", pd |-> "", router |-> "false", group |-> "g", atb |-> "false",
          fp8 |-> "false", fp4 |-> "false", force |-> "false", h20 |-> "", port |-> 0, accel |-> FALSE]

Plain ==
    [hw |-> Gpu, model |-> Llm("DeepseekV3ForCausalLM", "DeepSeek-R1", FALSE),
     engine |-> "unset", modelType |-> "auto", usage |-> "full", devices |-> 2, backend |-> "ray",
     args |-> Args, spec |-> "false", sparse |-> "false", draft |-> FALSE,
     distributed |-> FALSE, masterKnown |-> TRUE, nodes |-> 1, env |-> NoEnv, file |-> Empty]

Engines == {"unset", "vllm", "vllm_ascend", "sglang", "mindie"}

\* Where and as what: each engine and model on each device, alone and in clusters.
Clusters ==
    {[Plain EXCEPT !.distributed = TRUE, !.nodes = k, !.backend = b] :
        k \in 1..3, b \in {"ray", "dp_deployment"}}
Places == {Plain, [Plain EXCEPT !.distributed = TRUE, !.masterKnown = FALSE, !.nodes = 2]} \cup Clusters
Deployments ==
    {[p EXCEPT !.hw = h, !.model = m, !.engine = e] :
        p \in Places, h \in {Gpu, Npu, Old}, m \in Models, e \in Engines}

\* What else is switched on: the switches that change the engine, two at a time at most.
Envs ==
    {[NoEnv EXCEPT !.lmcache = l, !.pd = p, !.router = r, !.atb = a] :
        l \in {"false", "true"}, p \in {"", "P", "D"}, r \in {"false", "true"}, a \in {"false", "true"}}
        \cup {[NoEnv EXCEPT !.lmcache = "1", !.port = 7000, !.fp8 = "true", !.accel = TRUE],
              [NoEnv EXCEPT !.pd = "X", !.group = "", !.router = "true", !.h20 = "H20-96G"]}

Switched == {[d EXCEPT !.env = v] : d \in Deployments, v \in Envs}

Oddities(d) ==
    {[d EXCEPT !.engine = "trt"], [d EXCEPT !.modelType = "rerank"], [d EXCEPT !.modelType = "vision"],
     [d EXCEPT !.usage = "mig"], [d EXCEPT !.usage = "mig", !.devices = 0],
     [d EXCEPT !.spec = "1", !.sparse = "true"], [d EXCEPT !.spec = "true", !.draft = TRUE, !.env.accel = TRUE, !.env.fp4 = "true"],
     [d EXCEPT !.file = [host |-> "10.0.0.9", port |-> 9999]],
     [d EXCEPT !.file = [host |-> "10.0.0.9", port |-> 9999], !.env.force = "true"],
     [d EXCEPT !.args.host = "10.0.0.9", !.args.port = 8000, !.args.output = 8192],
     [d EXCEPT !.model.arch = "Qwen3NextForCausalLM", !.spec = "true"],
     [d EXCEPT !.args.ep = TRUE], [d EXCEPT !.env.h20 = "H20-141G"],
     [d EXCEPT !.model.arch = "Qwen3ForCausalLM"]}

Deployed == Switched \cup UNION {Oddities(d) : d \in Deployments}
=============================================================================
