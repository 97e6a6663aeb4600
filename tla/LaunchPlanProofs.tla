--------------------------- MODULE LaunchPlanProofs ---------------------------
(***************************************************************************)
(* Proofs about LaunchPlan.  A pod's script is a function of the setting   *)
(* and of the pod's place only; the invariant says which place that is.    *)
(* The rest is about the merge of parameters: a step of it leaves alone    *)
(* every parameter it does not name.                                       *)
(***************************************************************************)
EXTENDS LaunchPlan, FiniteSetTheorems, TLAPS

-----------------------------------------------------------------------------
(* Dictionaries.                                                           *)

\* The two dictionaries agree on a key.
Alike(f, g, key) ==
    /\ key \in DOMAIN f <=> key \in DOMAIN g
    /\ key \in DOMAIN f => f[key] = g[key]

LEMMA AlikeTwice ==
    ASSUME NEW f, NEW g, NEW e, NEW key, Alike(f, g, key), Alike(g, e, key)
    PROVE  Alike(f, e, key)
BY DEF Alike

\* What is laid over a dictionary wins.
LEMMA OverWins ==
    ASSUME NEW f, NEW g, NEW key \in DOMAIN f
    PROVE  key \in DOMAIN (f ++ g) /\ (f ++ g)[key] = f[key]
BY DEF ++

LEMMA OverKeeps ==
    ASSUME NEW f, NEW g, NEW key, key \notin DOMAIN f
    PROVE  Alike(f ++ g, g, key)
BY DEF ++, Alike

LEMMA AddIfKeeps ==
    ASSUME NEW cond, NEW add, NEW f, NEW key, key \notin DOMAIN add
    PROVE  Alike(AddIf(cond, add, f), f, key)
<1>1. CASE cond
      BY <1>1, OverKeeps DEF AddIf
<1>2. CASE ~cond
      BY <1>2 DEF AddIf, Alike
<1> QED BY <1>1, <1>2

LEMMA WithoutKeeps ==
    ASSUME NEW f, NEW keys, NEW key, key \notin keys
    PROVE  Alike(Without(f, keys), f, key)
BY DEF Without, Restrict, Alike

LEMMA WithoutDomain ==
    ASSUME NEW f, NEW keys
    PROVE  DOMAIN Without(f, keys) = DOMAIN f \ keys
BY DEF Without, Restrict

-----------------------------------------------------------------------------
(* The scripts.                                                            *)

Config(s, p) == Addressed(p, LoadAndMerge(s, p))
Started(s, p) == StartEngineService(s, p, Config(s, p))
Patched(v, patch) == [v EXCEPT !.patch = patch]

LEMMA BuiltPlan ==
    ASSUME NEW s, NEW p, BuildPlan(s, p).status = "written"
    PROVE  ~PlanFails(s, p) /\ BuildPlan(s, p) = Patched(Started(s, p), AccelLine(s))
<1>1. CASE PlanFails(s, p)
      BY <1>1 DEF BuildPlan
<1>2. CASE ~PlanFails(s, p)
      BY <1>2 DEF BuildPlan, Started, Config, Patched
<1> QED BY <1>1, <1>2

\* The engine that is started has an adapter.
LEMMA EngineIsKnown ==
    ASSUME NEW s, Accepted(s)
    PROVE  Chosen(s) \in {"vllm", "vllm_ascend", "sglang", "mindie"}
BY DEF Accepted, Chosen, Validated

-----------------------------------------------------------------------------
(* The invariant: a pod's script is the one for its own place.             *)

Positions == 1..Len(Nodes)

Planning(i) ==
    \/ plan[Nodes[i]] = NoPlan
    \/ /\ plan[Nodes[i]] = BuildPlan(setting, Place(setting, i - 1))
       /\ i = 1 \/ (InCluster(setting) /\ i <= setting.nodes)

PlanInv ==
    /\ setting \in Settings
    /\ DOMAIN plan = {Nodes[i] : i \in Positions}
    /\ \A i \in Positions : Planning(i)

LEMMA Addresses ==
    /\ Len(Nodes) \in Nat /\ Len(Nodes) > 0 /\ DOMAIN Nodes = Positions /\ 1 \in Positions
    /\ \A i, j \in Positions : Nodes[i] = Nodes[j] => i = j
BY NodesAssumption DEF IsInjective, Positions

LEMMA Distinct ==
    ASSUME NEW i \in Positions, NEW j \in Positions, Nodes[i] = Nodes[j]
    PROVE  i = j
BY Addresses

LEMMA WriteStep ==
    ASSUME PlanInv, NEW i \in Positions, Write(Nodes[i], Place(setting, i - 1)),
           i = 1 \/ (InCluster(setting) /\ i <= setting.nodes)
    PROVE  PlanInv'
<1>1. /\ setting' = setting
      /\ plan' = [plan EXCEPT ![Nodes[i]] = BuildPlan(setting, Place(setting, i - 1))]
      BY DEF Write
<1>2. DOMAIN plan' = DOMAIN plan /\ plan'[Nodes[i]] = BuildPlan(setting, Place(setting, i - 1))
      BY <1>1 DEF PlanInv
<1>3. \A j \in Positions \ {i} : plan'[Nodes[j]] = plan[Nodes[j]]
      BY <1>1, Addresses DEF PlanInv
<1>4. ASSUME NEW j \in Positions PROVE Planning(j)'
  <2>1. CASE j = i
        BY <1>1, <1>2, <2>1 DEF Planning, InCluster, Place, BuildPlan
  <2>2. CASE j # i
        BY <1>1, <1>3, <2>2 DEF Planning, PlanInv, InCluster
  <2> QED BY <2>1, <2>2
<1> QED BY <1>1, <1>2, <1>4 DEF PlanInv

\* Whatever the launchers were told, a pod's script is the one its own rank stands for, and
\* only the members of a cluster beside the first pod have one.
THEOREM PlansAreOfThePlace == Spec => []PlanInv
<1>1. Init => PlanInv
      BY Addresses DEF Init, PlanInv, Planning
<1>2. PlanInv /\ [Next]_vars => PlanInv'
  <2> SUFFICES ASSUME PlanInv, [Next]_vars PROVE PlanInv'
      OBVIOUS
  <2>1. CASE Standalone
        BY <2>1, WriteStep, Addresses DEF Standalone
  <2>2. CASE Master
        BY <2>2, WriteStep, Addresses DEF Master
  <2>3. ASSUME NEW rank \in 1..(Len(Nodes) - 1), StartEngine(rank) PROVE PlanInv'
    <3>1. rank + 1 \in Positions /\ (rank + 1) - 1 = rank
          BY Addresses DEF Positions
    <3>2. setting.nodes \in Nat
          BY SettingsAssumption, Addresses DEF PlanInv
    <3>3. /\ Write(Nodes[rank + 1], Place(setting, (rank + 1) - 1))
          /\ InCluster(setting) /\ rank + 1 <= setting.nodes
          BY <2>3, <3>1, <3>2 DEF StartEngine
    <3> QED BY <3>1, <3>3, WriteStep
  <2>4. CASE UNCHANGED vars
        BY <2>4 DEF vars, PlanInv, Planning, InCluster, Place, BuildPlan
  <2> QED BY <2>1, <2>2, <2>3, <2>4 DEF Next
<1> QED BY <1>1, <1>2, PTL DEF Spec

\* What a planned pod has.
LEMMA PlannedPod ==
    ASSUME PlanInv, NEW n \in Planned
    PROVE  \E i \in Positions :
              /\ n = Nodes[i]
              /\ i = 1 \/ (InCluster(setting) /\ i <= setting.nodes)
              /\ ~PlanFails(setting, Place(setting, i - 1))
              /\ plan[n] = Patched(Started(setting, Place(setting, i - 1)), AccelLine(setting))
<1>1. n \in DOMAIN plan /\ plan[n].status = "written"
      BY DEF Planned
<1>2. PICK i \in Positions : n = Nodes[i]
      BY <1>1 DEF PlanInv
<1>3. plan[n] # NoPlan
      BY <1>1 DEF NoPlan
<1>4. /\ plan[n] = BuildPlan(setting, Place(setting, i - 1))
      /\ i = 1 \/ (InCluster(setting) /\ i <= setting.nodes)
      BY <1>2, <1>3 DEF PlanInv, Planning
<1> QED BY <1>1, <1>2, <1>4, BuiltPlan

-----------------------------------------------------------------------------
(* The fields of the scripts.                                              *)

ScriptFields == {"status", "engine", "rank", "mode", "listens", "options", "host", "port", "meet",
                 "self", "size", "share", "patch"}

\* How a pod takes part, as a function of the setting and of its place.
ModeOf(s, p) ==
    CASE ~MultiNode(p) -> "single"
      [] MultiNode(p) /\ VllmFamily(Chosen(s)) -> IF s.backend = "ray" THEN "ray" ELSE "dp"
      [] MultiNode(p) /\ ~VllmFamily(Chosen(s)) -> Chosen(s)
MeetOf(s, p) ==
    CASE ModeOf(s, p) = "single" -> <<"none", 0>>
      [] ModeOf(s, p) = "ray" -> <<p.head, RayPort(s)>>
      [] ModeOf(s, p) = "dp" -> <<p.head, RpcPort>>
      [] ModeOf(s, p) = "sglang" -> <<p.head, DistPort(s)>>
      [] ModeOf(s, p) = "mindie" -> <<Nodes[1], MindieMasterPort>>
SizeOf(s, p) ==
    CASE ModeOf(s, p) = "single" -> 1
      [] ModeOf(s, p) = "dp" -> DpShare(s, p).size
      [] OTHER -> p.nnodes
ShareOf(s, p) ==
    CASE ModeOf(s, p) = "single" -> {0}
      [] ModeOf(s, p) = "dp" -> DpShare(s, p).ranks
      [] OTHER -> {p.rank}

Joins(v, s, p) ==
    /\ v.mode = ModeOf(s, p) /\ v.meet = MeetOf(s, p)
    /\ v.size = SizeOf(s, p) /\ v.share = ShareOf(s, p)

\* Where the script's pod listens, if it is the only one or the first.
Leads(p) == ~MultiNode(p) \/ p.rank = 0
At(v, c) == v.host = Get(c, "host") /\ v.port = Get(c, "port")

SelfOf(p, c) ==
    IF p.rank < Len(Get(c, "node_ips")) THEN Get(c, "node_ips")[p.rank + 1] ELSE Nodes[1]
PortOf(c) == IF "port" \in DOMAIN c THEN c["port"] ELSE 18000

\* The options of a script of vllm.
RayOptions(s, c) ==
    AddIf(s.model.arch = "Qwen3MoeForCausalLM",
          [pipeline_parallel_size |-> s.nodes, tensor_parallel_size |-> DeviceCount(s)],
          Extras(s, AddIf(Chosen(s) = "vllm_ascend", [enforce_eager |-> TRUE], Command(c))))
OptionsOf(s, p, c) ==
    CASE ModeOf(s, p) = "single" -> Extras(s, Command(c))
      [] ModeOf(s, p) = "ray" -> IF p.rank = 0 THEN RayOptions(s, c) ELSE Empty
      [] ModeOf(s, p) = "dp" -> IF p.rank = 0 THEN Command(c)
                                ELSE Without(Command(c), {"host", "port"})

LEMMA VllmFields ==
    ASSUME NEW s, NEW p, NEW c, NEW v, v = VllmScript(s, p, c), VllmFamily(Chosen(s))
    PROVE  /\ v.engine = Chosen(s) /\ v.listens = Serves(p) /\ DOMAIN v = ScriptFields
           /\ Leads(p) => At(v, c)
           /\ v.options = OptionsOf(s, p, c)
           /\ Joins(v, s, p)
<1> DEFINE w == [Script(s, p, c) EXCEPT !.options = Command(c)]
           ray == [w EXCEPT !.mode = "ray", !.meet = <<p.head, RayPort(s)>>,
                            !.size = p.nnodes, !.share = {p.rank}]
<1>1. CASE ~MultiNode(p)
  <2>1. v = [w EXCEPT !.options = Extras(s, w.options)]
        BY <1>1 DEF VllmScript
  <2>2. ModeOf(s, p) = "single"
        BY <1>1 DEF ModeOf
  <2> QED BY <1>1, <2>1, <2>2
          DEF Script, Joins, At, ScriptFields, OptionsOf, MeetOf, SizeOf, ShareOf
<1>2. CASE MultiNode(p) /\ s.backend = "ray"
  <2>1. v = IF p.rank = 0 THEN RayHead(s, p, ray) ELSE RayWorker(ray)
        BY <1>2 DEF VllmScript
  <2>2. ModeOf(s, p) = "ray"
        BY <1>2 DEF ModeOf
  <2>3. CASE p.rank = 0
        BY <1>2, <2>1, <2>2, <2>3
           DEF Script, Joins, At, ScriptFields, RayHead, OptionsOf, RayOptions,
               MeetOf, SizeOf, ShareOf
  <2>4. CASE p.rank # 0
        BY <1>2, <2>1, <2>2, <2>4
           DEF Script, Joins, Leads, ScriptFields, RayWorker, OptionsOf, MeetOf, SizeOf, ShareOf
  <2> QED BY <2>3, <2>4
<1>3. CASE MultiNode(p) /\ s.backend # "ray"
  <2>1. v = DataParallel(s, p, w)
        BY <1>3 DEF VllmScript
  <2>2. ModeOf(s, p) = "dp"
        BY <1>3 DEF ModeOf
  <2>3. /\ DOMAIN w = ScriptFields /\ w.engine = Chosen(s) /\ w.listens = Serves(p)
        /\ w.options = Command(c) /\ At(w, c)
        BY DEF Script, ScriptFields, At
  <2> HIDE DEF w
  <2>4. /\ v.mode = "dp" /\ v.meet = <<p.head, RpcPort>>
        /\ v.size = DpShare(s, p).size /\ v.share = DpShare(s, p).ranks
        BY <2>1, <2>3 DEF DataParallel, ScriptFields
  <2>5. Joins(v, s, p)
        BY <2>2, <2>4 DEF Joins, MeetOf, SizeOf, ShareOf
  <2>6. DOMAIN v = ScriptFields /\ v.engine = Chosen(s) /\ v.listens = Serves(p)
        BY <2>1, <2>3 DEF DataParallel, ScriptFields
  <2>7. CASE p.rank = 0
    <3>1. v.options = Command(c) /\ At(v, c)
          BY <2>1, <2>3, <2>7 DEF DataParallel, ScriptFields, At
    <3> QED BY <2>2, <2>5, <2>6, <2>7, <3>1 DEF OptionsOf
  <2>8. CASE p.rank # 0
    <3>1. v.options = Without(Command(c), {"host", "port"})
          BY <2>1, <2>3, <2>8 DEF DataParallel, ScriptFields
    <3> QED BY <1>3, <2>2, <2>5, <2>6, <2>8, <3>1 DEF OptionsOf, Leads
  <2> QED BY <2>7, <2>8
<1> QED BY <1>1, <1>2, <1>3

LEMMA SglangFields ==
    ASSUME NEW s, NEW p, NEW c, NEW v, v = SglangScript(s, p, c), Chosen(s) = "sglang"
    PROVE  /\ v.engine = Chosen(s) /\ v.listens = Serves(p) /\ DOMAIN v = ScriptFields
           /\ Leads(p) => At(v, c)
           /\ v.options = Command(c)
           /\ Joins(v, s, p)
<1>1. CASE ~MultiNode(p)
  <2>1. ModeOf(s, p) = "single"
        BY <1>1 DEF ModeOf
  <2> QED BY <1>1, <2>1 DEF SglangScript, Script, Joins, At, ScriptFields, MeetOf, SizeOf, ShareOf
<1>2. CASE MultiNode(p)
  <2>1. ModeOf(s, p) = "sglang"
        BY <1>2 DEF ModeOf, VllmFamily
  <2> QED BY <1>2, <2>1
          DEF SglangScript, Script, Joins, Leads, At, ScriptFields, MeetOf, SizeOf, ShareOf
<1> QED BY <1>1, <1>2

LEMMA MindieFields ==
    ASSUME NEW s, NEW p, NEW c, NEW v, v = MindieScript(s, p, c), Chosen(s) = "mindie"
    PROVE  /\ v.engine = Chosen(s) /\ v.listens /\ DOMAIN v = ScriptFields
           /\ v.options = MindieOptions(p, c)
           /\ v.port = PortOf(c)
           /\ Joins(v, s, p)
           /\ MultiNode(p) => v.self = SelfOf(p, c)
<1> DEFINE address == IF Serves(p) THEN "0.0.0.0" ELSE "127.0.0.1"
           w == [Script(s, p, c) EXCEPT
                     !.listens = TRUE, !.options = MindieOptions(p, c),
                     !.host = IF "ipAddress" \in DOMAIN c THEN c["ipAddress"] ELSE address,
                     !.port = IF "port" \in DOMAIN c THEN c["port"] ELSE 18000]
<1>1. v = IF MultiNode(p) THEN MindieCluster(p, c, w) ELSE w
      BY DEF MindieScript
<1>2. /\ w.engine = Chosen(s) /\ w.listens /\ w.options = MindieOptions(p, c)
      /\ w.port = PortOf(c)
      /\ w.mode = "single" /\ w.meet = <<"none", 0>> /\ w.size = 1 /\ w.share = {0}
      /\ DOMAIN w = ScriptFields
      BY DEF Script, ScriptFields, PortOf
<1> HIDE DEF w
<1>3. CASE ~MultiNode(p)
  <2>1. ModeOf(s, p) = "single"
        BY <1>3 DEF ModeOf
  <2> QED BY <1>1, <1>2, <1>3, <2>1 DEF Joins, MeetOf, SizeOf, ShareOf
<1>4. CASE MultiNode(p)
  <2>1. v = MindieCluster(p, c, w)
        BY <1>1, <1>4
  <2>2. ModeOf(s, p) = "mindie"
        BY <1>4 DEF ModeOf, VllmFamily
  <2> QED BY <1>2, <1>4, <2>1, <2>2
          DEF Joins, MindieCluster, ScriptFields, SelfOf, MeetOf, SizeOf, ShareOf
<1> QED BY <1>3, <1>4

\* The adapter that writes the script, by the engine.
LEMMA Adapters ==
    ASSUME NEW s, NEW p, NEW c, Accepted(s)
    PROVE  LET v == StartEngineService(s, p, c)
           IN  \/ VllmFamily(Chosen(s)) /\ v = VllmScript(s, p, c)
               \/ Chosen(s) = "sglang" /\ v = SglangScript(s, p, c)
               \/ Chosen(s) = "mindie" /\ v = MindieScript(s, p, c)
<1>1. CASE VllmFamily(Chosen(s))
  <2>1. AdapterOf(Chosen(s)) = "vllm"
        BY <1>1 DEF VllmFamily, AdapterOf
  <2> QED BY <1>1, <2>1 DEF StartEngineService
<1>2. CASE Chosen(s) = "sglang"
  <2>1. AdapterOf(Chosen(s)) = "sglang"
        BY <1>2 DEF AdapterOf
  <2> QED BY <1>2, <2>1 DEF StartEngineService
<1>3. CASE Chosen(s) = "mindie"
  <2>1. AdapterOf(Chosen(s)) = "mindie"
        BY <1>3 DEF AdapterOf
  <2> QED BY <1>3, <2>1 DEF StartEngineService
<1> QED BY <1>1, <1>2, <1>3, EngineIsKnown DEF VllmFamily

\* The accelerator line changes nothing but the patch.
LEMMA PatchOnly ==
    ASSUME NEW v, NEW patch, DOMAIN v = ScriptFields
    PROVE  /\ Patched(v, patch).patch = patch
           /\ \A field \in ScriptFields \ {"patch"} : Patched(v, patch)[field] = v[field]
BY DEF ScriptFields, Patched

\* A script of the plan is one of an adapter, with the patch put in.
LEMMA PlannedScript ==
    ASSUME NEW s, NEW p, NEW u, ~PlanFails(s, p),
           u = Patched(Started(s, p), AccelLine(s))
    PROVE  \E v : /\ u.patch = AccelLine(s)
                  /\ \A field \in ScriptFields \ {"patch"} : u[field] = v[field]
                  /\ v.engine = Chosen(s)
                  /\ \/ VllmFamily(Chosen(s)) /\ v = VllmScript(s, p, Config(s, p))
                     \/ Chosen(s) = "sglang" /\ v = SglangScript(s, p, Config(s, p))
                     \/ Chosen(s) = "mindie" /\ v = MindieScript(s, p, Config(s, p))
<1>1. PICK v : v = Started(s, p)
      OBVIOUS
<1>2. Accepted(s)
      BY DEF PlanFails
<1>3. \/ VllmFamily(Chosen(s)) /\ v = VllmScript(s, p, Config(s, p))
      \/ Chosen(s) = "sglang" /\ v = SglangScript(s, p, Config(s, p))
      \/ Chosen(s) = "mindie" /\ v = MindieScript(s, p, Config(s, p))
      BY <1>1, <1>2, Adapters DEF Started
<1>4. DOMAIN v = ScriptFields /\ v.engine = Chosen(s)
  <2>1. CASE VllmFamily(Chosen(s)) /\ v = VllmScript(s, p, Config(s, p))
        BY <2>1, VllmFields
  <2>2. CASE Chosen(s) = "sglang" /\ v = SglangScript(s, p, Config(s, p))
        BY <2>2, SglangFields
  <2>3. CASE Chosen(s) = "mindie" /\ v = MindieScript(s, p, Config(s, p))
        BY <2>3, MindieFields
  <2> QED BY <1>3, <2>1, <2>2, <2>3
<1>5. u = Patched(v, AccelLine(s))
      BY <1>1
<1>6. u.patch = AccelLine(s) /\ \A field \in ScriptFields \ {"patch"} : u[field] = v[field]
      BY <1>4, <1>5, PatchOnly
<1> QED BY <1>3, <1>4, <1>6

\* What a pod with this place has written.
Writes(u, s, p) ==
    /\ u.engine = Chosen(s) /\ u.patch = AccelLine(s) /\ Joins(u, s, p)
    /\ \/ VllmFamily(Chosen(s)) /\ u.options = OptionsOf(s, p, Config(s, p))
       \/ Chosen(s) = "sglang" /\ u.options = Command(Config(s, p))
       \/ /\ Chosen(s) = "mindie" /\ u.options = MindieOptions(p, Config(s, p))
          /\ MultiNode(p) => u.self = SelfOf(p, Config(s, p))

LEMMA PatchedWrites ==
    ASSUME NEW s, NEW p, ~PlanFails(s, p)
    PROVE  Writes(Patched(Started(s, p), AccelLine(s)), s, p)
<1>1. PICK u : u = Patched(Started(s, p), AccelLine(s))
      OBVIOUS
<1>2. PICK v : /\ u.patch = AccelLine(s)
               /\ \A field \in ScriptFields \ {"patch"} : u[field] = v[field]
               /\ v.engine = Chosen(s)
               /\ \/ VllmFamily(Chosen(s)) /\ v = VllmScript(s, p, Config(s, p))
                  \/ Chosen(s) = "sglang" /\ v = SglangScript(s, p, Config(s, p))
                  \/ Chosen(s) = "mindie" /\ v = MindieScript(s, p, Config(s, p))
      BY <1>1, PlannedScript
<1>3. /\ u.engine = v.engine /\ u.options = v.options /\ u.self = v.self /\ u.mode = v.mode
      /\ u.meet = v.meet /\ u.size = v.size /\ u.share = v.share
      BY <1>2 DEF ScriptFields
<1>4. Joins(v, s, p) => Joins(u, s, p)
      BY <1>3 DEF Joins
<1>5. CASE VllmFamily(Chosen(s)) /\ v = VllmScript(s, p, Config(s, p))
  <2>1. Joins(v, s, p) /\ v.options = OptionsOf(s, p, Config(s, p))
        BY <1>5, VllmFields
  <2> QED BY <1>1, <1>2, <1>3, <1>4, <1>5, <2>1 DEF Writes
<1>6. CASE Chosen(s) = "sglang" /\ v = SglangScript(s, p, Config(s, p))
  <2>1. Joins(v, s, p) /\ v.options = Command(Config(s, p))
        BY <1>6, SglangFields
  <2> QED BY <1>1, <1>2, <1>3, <1>4, <1>6, <2>1 DEF Writes
<1>7. CASE Chosen(s) = "mindie" /\ v = MindieScript(s, p, Config(s, p))
  <2>1. /\ Joins(v, s, p) /\ v.options = MindieOptions(p, Config(s, p))
        /\ MultiNode(p) => v.self = SelfOf(p, Config(s, p))
        BY <1>7, MindieFields
  <2> QED BY <1>1, <1>2, <1>3, <1>4, <1>7, <2>1 DEF Writes
<1> QED BY <1>2, <1>5, <1>6, <1>7

LEMMA PlannedWrites ==
    ASSUME PlanInv, NEW n \in Planned
    PROVE  \E i \in Positions :
              /\ n = Nodes[i]
              /\ i = 1 \/ (InCluster(setting) /\ i <= setting.nodes)
              /\ ~PlanFails(setting, Place(setting, i - 1))
              /\ Writes(plan[n], setting, Place(setting, i - 1))
<1>1. PICK i \in Positions :
              /\ n = Nodes[i]
              /\ i = 1 \/ (InCluster(setting) /\ i <= setting.nodes)
              /\ ~PlanFails(setting, Place(setting, i - 1))
              /\ plan[n] = Patched(Started(setting, Place(setting, i - 1)), AccelLine(setting))
      BY PlannedPod
<1>2. Writes(plan[n], setting, Place(setting, i - 1))
      BY <1>1, PatchedWrites
<1> QED BY <1>1, <1>2

-----------------------------------------------------------------------------
(* What the merge and the adapters leave alone.                            *)

LEMMA SoftQuantizedKeeps ==
    ASSUME NEW s, NEW params,
           NEW key, key \notin {"quantization", "enable_expert_parallel"},
           Device(s) = "ascend" /\ IsDeepseekFp8(s) =>
               key \notin {"enforce_eager", "no_enable_prefix_caching", "data_parallel_size",
                          "tensor_parallel_size", "use_kunlun_atb"}
    PROVE  Alike(SoftQuantized(s, params), params, key)
<1> DEFINE ascend == Device(s) = "ascend"
           qwen == ascend /\ IsQwen3Fp8(s)
           deepseek == ascend /\ ~IsQwen3Fp8(s) /\ IsDeepseekFp8(s)
           p1 == AddIf(qwen \/ deepseek, [quantization |-> "ascend"], params)
           p2 == AddIf(qwen /\ s.model.arch = "Qwen3MoeForCausalLM",
                       [enable_expert_parallel |-> FALSE], p1)
           fixed == [enforce_eager |-> TRUE, no_enable_prefix_caching |-> TRUE,
                     enable_expert_parallel |-> FALSE, data_parallel_size |-> 4,
                     tensor_parallel_size |-> 4, use_kunlun_atb |-> FALSE]
           p3 == AddIf(deepseek, fixed, p2)
           p4 == AddIf(ascend /\ IsFp4(s), [quantization |-> "ascend"], p3)
<1>1. SoftQuantized(s, params) = p4
      BY DEF SoftQuantized
<1>2. deepseek => key \notin DOMAIN fixed
      OBVIOUS
<1> HIDE DEF fixed
<1>3. Alike(p1, params, key)
      BY AddIfKeeps
<1> HIDE DEF p1
<1>4. Alike(p2, p1, key)
      BY AddIfKeeps
<1> HIDE DEF p2
<1>5. Alike(p3, p2, key)
  <2>1. CASE deepseek
        BY <1>2, <2>1, AddIfKeeps
  <2>2. CASE ~deepseek
        BY <2>2 DEF AddIf, Alike
  <2> QED BY <2>1, <2>2
<1> HIDE DEF p3
<1>6. Alike(p4, p3, key)
      BY AddIfKeeps
<1> HIDE DEF p4
<1> QED BY <1>1, <1>3, <1>4, <1>5, <1>6 DEF Alike

LEMMA PooledKeeps ==
    ASSUME NEW s, NEW params,
           NEW key, key \notin {"task", "enforce_eager", "use_kunlun_atb",
                               "enable_chunked_prefill", "enable_prefix_caching"}
    PROVE  Alike(Pooled(s, params), params, key)
<1> DEFINE task == IF ModelType(s) = "embedding" THEN "embedding" ELSE "score"
           p1 == AddIf(Pooling(s), [task |-> task], params)
           eager == [enforce_eager |-> TRUE, use_kunlun_atb |-> FALSE]
           p2 == AddIf(Pooling(s) /\ Device(s) = "ascend", eager, p1)
           less == Without(p2, {"enable_chunked_prefill", "enable_prefix_caching"})
<1>1. Pooled(s, params) = IF Pooling(s) THEN less ELSE p2
      BY DEF Pooled
<1>2. key \notin DOMAIN eager
      OBVIOUS
<1> HIDE DEF eager, task
<1>3. Alike(p1, params, key)
      BY AddIfKeeps
<1> HIDE DEF p1
<1>4. Alike(p2, p1, key)
      BY <1>2, AddIfKeeps
<1> HIDE DEF p2
<1>5. Alike(less, p2, key)
      BY WithoutKeeps
<1> HIDE DEF less
<1> QED BY <1>1, <1>3, <1>4, <1>5 DEF Alike

\* The user's file and the address of the plan.
LEMMA ConfigKeeps ==
    ASSUME NEW s, NEW p, NEW key, ~Forced(s), key \notin DOMAIN s.file, key \notin {"host", "port"}
    PROVE  Alike(Config(s, p), MergeCmd(s, p), key)
<1>1. PICK own : own = [host |-> "0.0.0.0", port |-> BackendPort]
      OBVIOUS
<1>2. DOMAIN own = {"host", "port"}
      BY <1>1
<1>3. Config(s, p) = IF Serves(p) THEN own ++ LoadAndMerge(s, p)
                     ELSE Without(LoadAndMerge(s, p), {"host", "port"})
      BY <1>1 DEF Config, Addressed
<1>4. Alike(Config(s, p), LoadAndMerge(s, p), key)
      BY <1>2, <1>3, OverKeeps, WithoutKeeps
<1>5. Alike(LoadAndMerge(s, p), MergeCmd(s, p), key)
      BY OverKeeps DEF LoadAndMerge
<1> QED BY <1>4, <1>5, AlikeTwice

\* The user's file hides nothing that was merged.
LEMMA ConfigHas ==
    ASSUME NEW s, NEW p, NEW key \in DOMAIN MergeCmd(s, p), ~Forced(s), key \notin {"host", "port"}
    PROVE  key \in DOMAIN Config(s, p)
<1>1. key \in DOMAIN LoadAndMerge(s, p)
      BY DEF LoadAndMerge, ++
<1>2. CASE Serves(p)
  <2>1. PICK own : own = [host |-> "0.0.0.0", port |-> BackendPort]
        OBVIOUS
  <2>2. Config(s, p) = own ++ LoadAndMerge(s, p)
        BY <1>2, <2>1 DEF Config, Addressed
  <2> QED BY <1>1, <2>2 DEF ++
<1>3. CASE ~Serves(p)
  <2>1. Config(s, p) = Without(LoadAndMerge(s, p), {"host", "port"})
        BY <1>3 DEF Config, Addressed
  <2> QED BY <1>1, <2>1, WithoutDomain
<1> QED BY <1>2, <1>3

LEMMA CommandKeeps ==
    ASSUME NEW c, NEW key, key \notin Switches, key \notin Texts, key # "use_kunlun_atb"
    PROVE  Alike(Command(c), c, key)
BY WithoutKeeps DEF Command

LEMMA ExtrasKeep ==
    ASSUME NEW s, NEW c, NEW key, key # "speculative_config",
           Truthy(s.sparse) => key \notin {"sparse_config", "enforce_eager", "kv_transfer_config"}
    PROVE  Alike(Extras(s, c), c, key)
<1> DEFINE o1 == AddIf(Truthy(s.spec), [speculative_config |-> Speculation(s)], c)
           add == [sparse_config |-> TRUE, enforce_eager |-> TRUE,
                   kv_transfer_config |-> {<<"SparseConnector", "kv_both">>}]
           o2 == AddIf(Truthy(s.sparse) /\ Chosen(s) = "vllm", add, o1)
<1>1. Extras(s, c) = o2
      BY DEF Extras
<1>2. Alike(o1, c, key)
      BY AddIfKeeps
<1> HIDE DEF o1
<1>3. Truthy(s.sparse) => key \notin DOMAIN add
      OBVIOUS
<1> HIDE DEF add
<1>4. Alike(o2, o1, key)
  <2>1. CASE Truthy(s.sparse)
        BY <1>3, <2>1, AddIfKeeps
  <2>2. CASE ~Truthy(s.sparse)
        BY <2>2 DEF AddIf, Alike
  <2> QED BY <2>1, <2>2
<1> HIDE DEF o2
<1> QED BY <1>1, <1>2, <1>4, AlikeTwice

\* The command of vllm, if there is one, carries what the configuration says.
LEMMA OptionsKeep ==
    ASSUME NEW s, NEW p, NEW c, NEW key, OptionsOf(s, p, c) # Empty,
           ModeOf(s, p) \in {"single", "ray", "dp"},
           key \notin Switches, key \notin Texts,
           key \notin {"use_kunlun_atb", "speculative_config", "host", "port"},
           Truthy(s.sparse) => key \notin {"sparse_config", "enforce_eager", "kv_transfer_config"},
           ModeOf(s, p) = "ray" => key \notin {"pipeline_parallel_size", "tensor_parallel_size"}
    PROVE  Alike(OptionsOf(s, p, c), c, key)
<1>1. Alike(Command(c), c, key)
      BY CommandKeeps
<1>2. CASE ModeOf(s, p) = "single"
  <2>1. OptionsOf(s, p, c) = Extras(s, Command(c))
        BY <1>2 DEF OptionsOf
  <2> QED BY <1>1, <2>1, ExtrasKeep, AlikeTwice
<1>3. CASE ModeOf(s, p) = "ray"
  <2> DEFINE o1 == AddIf(Chosen(s) = "vllm_ascend", [enforce_eager |-> TRUE], Command(c))
             o2 == Extras(s, o1)
             stages == [pipeline_parallel_size |-> s.nodes, tensor_parallel_size |-> DeviceCount(s)]
             o3 == AddIf(s.model.arch = "Qwen3MoeForCausalLM", stages, o2)
  <2>1. OptionsOf(s, p, c) = o3
        BY <1>3 DEF OptionsOf, RayOptions
  <2>2. key # "enforce_eager"
        BY DEF Switches
  <2>3. Alike(o1, Command(c), key)
        BY <2>2, AddIfKeeps
  <2> HIDE DEF o1
  <2>4. Alike(o2, o1, key)
        BY ExtrasKeep
  <2> HIDE DEF o2
  <2>5. key \notin DOMAIN stages
        BY <1>3
  <2> HIDE DEF stages
  <2>6. Alike(o3, o2, key)
        BY <2>5, AddIfKeeps
  <2> HIDE DEF o3
  <2> QED BY <1>1, <2>1, <2>3, <2>4, <2>6 DEF Alike
<1>4. CASE ModeOf(s, p) = "dp"
  <2>1. OptionsOf(s, p, c) = IF p.rank = 0 THEN Command(c)
                             ELSE Without(Command(c), {"host", "port"})
        BY <1>4 DEF OptionsOf
  <2>2. Alike(Without(Command(c), {"host", "port"}), Command(c), key)
        BY WithoutKeeps
  <2> QED BY <1>1, <2>1, <2>2, AlikeTwice
<1> QED BY <1>2, <1>3, <1>4

-----------------------------------------------------------------------------
(* The engine listens where the proxy sends.                               *)

LEMMA ServedAddress ==
    ASSUME NEW s, NEW p, Serves(p)
    PROVE  /\ "host" \in DOMAIN Config(s, p) /\ Config(s, p)["host"] = "0.0.0.0"
           /\ "port" \in DOMAIN Config(s, p) /\ Config(s, p)["port"] = BackendPort
<1>1. PICK own : own = [host |-> "0.0.0.0", port |-> BackendPort]
      OBVIOUS
<1>2. Config(s, p) = own ++ LoadAndMerge(s, p)
      BY <1>1 DEF Config, Addressed
<1>3. DOMAIN own = {"host", "port"} /\ own["host"] = "0.0.0.0" /\ own["port"] = BackendPort
      BY <1>1
<1> QED BY <1>2, <1>3, OverWins

\* Whatever the arguments, the environment and the user's file say, the proxy's engine
\* listens on the proxy's port.
LEMMA ListensInv == ASSUME PlanInv PROVE ListensWhereProxySends
<1> SUFFICES ASSUME Nodes[1] \in Planned
             PROVE  LET script == plan[Nodes[1]]
                    IN  /\ script.listens /\ script.port = BackendPort
                        /\ script.engine # "mindie" => script.host = "0.0.0.0"
    BY DEF ListensWhereProxySends
<1> DEFINE p == Place(setting, 0)
           c == Config(setting, p)
<1>1. /\ ~PlanFails(setting, p)
      /\ plan[Nodes[1]] = Patched(Started(setting, p), AccelLine(setting))
  <2>1. PICK i \in Positions :
              /\ Nodes[1] = Nodes[i]
              /\ i = 1 \/ (InCluster(setting) /\ i <= setting.nodes)
              /\ ~PlanFails(setting, Place(setting, i - 1))
              /\ plan[Nodes[1]] = Patched(Started(setting, Place(setting, i - 1)),
                                          AccelLine(setting))
        BY PlannedPod
  <2>2. i = 1
    <3>1. 1 \in Positions
          BY Addresses
    <3>2. Nodes[i] = Nodes[1] /\ i \in Positions
          BY <2>1
    <3> QED BY <3>1, <3>2, Distinct
  <2> QED BY <2>1, <2>2
<1>2. p.rank = 0 /\ Serves(p)
      BY DEF Place, Serves
<1>3. /\ "host" \in DOMAIN c /\ c["host"] = "0.0.0.0"
      /\ "port" \in DOMAIN c /\ c["port"] = BackendPort
      BY <1>2, ServedAddress
<1>4. Get(c, "host") = "0.0.0.0" /\ Get(c, "port") = BackendPort
      BY <1>3 DEF Get
<1> HIDE DEF p, c
<1>5. PICK v : /\ \A field \in ScriptFields \ {"patch"} : plan[Nodes[1]][field] = v[field]
               /\ v.engine = Chosen(setting)
               /\ \/ VllmFamily(Chosen(setting)) /\ v = VllmScript(setting, p, c)
                  \/ Chosen(setting) = "sglang" /\ v = SglangScript(setting, p, c)
                  \/ Chosen(setting) = "mindie" /\ v = MindieScript(setting, p, c)
      BY <1>1, PlannedScript DEF c
<1>6. v.listens /\ v.port = BackendPort /\ (v.engine # "mindie" => v.host = "0.0.0.0")
  <2>1. CASE VllmFamily(Chosen(setting)) /\ v = VllmScript(setting, p, c)
        BY <1>2, <1>4, <2>1, VllmFields DEF At, Leads
  <2>2. CASE Chosen(setting) = "sglang" /\ v = SglangScript(setting, p, c)
        BY <1>2, <1>4, <2>2, SglangFields DEF At, Leads
  <2>3. CASE Chosen(setting) = "mindie" /\ v = MindieScript(setting, p, c)
    <3>1. v.listens /\ v.port = BackendPort /\ v.engine = "mindie"
          BY <1>3, <2>3, MindieFields DEF PortOf
    <3> QED BY <3>1
  <2> QED BY <1>5, <2>1, <2>2, <2>3
<1> QED BY <1>5, <1>6 DEF ScriptFields

\* Whatever the arguments, the environment and the user's file say, the engine beside the
\* proxy listens on the port the proxy forwards to.
THEOREM EngineIsReached == Spec => []ListensWhereProxySends
BY PlansAreOfThePlace, ListensInv, PTL

-----------------------------------------------------------------------------
(* One cluster.                                                            *)

\* Whatever the rank of a pod, it joins in the same way at the same place.
LEMMA SamePlace ==
    ASSUME NEW s, NEW i, NEW j
    PROVE  /\ ModeOf(s, Place(s, i)) = ModeOf(s, Place(s, j))
           /\ MeetOf(s, Place(s, i)) = MeetOf(s, Place(s, j))
           /\ SizeOf(s, Place(s, i)) = SizeOf(s, Place(s, j))
<1>1. /\ MultiNode(Place(s, i)) <=> MultiNode(Place(s, j))
      /\ Place(s, i).nnodes = Place(s, j).nnodes /\ Place(s, i).head = Place(s, j).head
      BY DEF MultiNode, Place
<1>2. ModeOf(s, Place(s, i)) = ModeOf(s, Place(s, j))
      BY <1>1 DEF ModeOf
<1>3. MeetOf(s, Place(s, i)) = MeetOf(s, Place(s, j))
      BY <1>1, <1>2 DEF MeetOf
<1>4. SizeOf(s, Place(s, i)) = SizeOf(s, Place(s, j))
      BY <1>1, <1>2 DEF SizeOf, DpShare
<1> QED BY <1>2, <1>3, <1>4

\* The share of the pod at a position of a cluster, and the size they are shares of.
LEMMA Shares ==
    ASSUME NEW s \in Settings, InCluster(s), Accepted(s), NEW i \in 1..s.nodes
    PROVE  LET p == Place(s, i - 1)
               split == DeepSeek(s) /\ Chosen(s) = "vllm_ascend" /\ s.backend # "ray"
           IN  /\ split /\ s.nodes = 2 =>
                     /\ SizeOf(s, p) = 4
                     /\ ShareOf(s, p) = IF i = 1 THEN {0, 1} ELSE {2, 3}
               /\ ~split => SizeOf(s, p) = s.nodes /\ ShareOf(s, p) = {i - 1}
<1> DEFINE p == Place(s, i - 1)
           split == DeepSeek(s) /\ Chosen(s) = "vllm_ascend" /\ s.backend # "ray"
<1>1. s.nodes \in Nat /\ s.nodes > 0
      BY SettingsAssumption, Addresses
<1>2. p.nnodes = s.nodes /\ p.rank = i - 1 /\ (MultiNode(p) <=> s.nodes > 1)
      BY DEF Place, InCluster, MultiNode
<1> HIDE DEF p
<1>3. Chosen(s) \in {"vllm", "vllm_ascend", "sglang", "mindie"}
      BY EngineIsKnown
<1>4. CASE s.nodes = 1
  <2>1. ModeOf(s, p) = "single"
        BY <1>2, <1>4 DEF ModeOf
  <2>2. SizeOf(s, p) = 1 /\ ShareOf(s, p) = {0} /\ i = 1
        BY <1>4, <2>1 DEF SizeOf, ShareOf
  <2> QED BY <1>4, <2>2 DEF p
<1>5. CASE s.nodes > 1 /\ split
  <2>1. ModeOf(s, p) = "dp"
        BY <1>2, <1>5 DEF ModeOf, VllmFamily
  <2>2. SizeOf(s, p) = 4 /\ ShareOf(s, p) = IF p.rank = 0 THEN {0, 1} ELSE {2, 3}
        BY <1>5, <2>1 DEF SizeOf, ShareOf, DpShare
  <2> QED BY <1>2, <1>5, <2>2 DEF p
<1>6. CASE s.nodes > 1 /\ ~split
  <2>1. ModeOf(s, p) # "single" /\ (ModeOf(s, p) = "dp" => VllmFamily(Chosen(s)) /\ s.backend # "ray")
        BY <1>2, <1>3, <1>6 DEF ModeOf, VllmFamily
  <2>2. SizeOf(s, p) = s.nodes /\ ShareOf(s, p) = {i - 1}
        BY <1>2, <1>6, <2>1 DEF SizeOf, ShareOf, DpShare
  <2> QED BY <1>6, <2>2 DEF p
<1> QED BY <1>1, <1>4, <1>5, <1>6

\* As many pods as the cluster has, if they are all different, are all of them.
LEMMA AllOfThem ==
    ASSUME NEW k \in Positions, NEW S \in SUBSET {Nodes[i] : i \in 1..k}, Cardinality(S) = k
    PROVE  S = {Nodes[i] : i \in 1..k}
<1> DEFINE T == {Nodes[i] : i \in 1..k}
           f == [i \in 1..k |-> Nodes[i]]
<1>1. k \in Nat /\ k > 0 /\ 1..k \subseteq Positions
      BY Addresses DEF Positions
<1>2. f \in Surjection(1..k, T)
      BY DEF Surjection
<1>3. f \in Injection(1..k, T)
  <2>1. ASSUME NEW i \in 1..k, NEW j \in 1..k, f[i] = f[j] PROVE i = j
        BY <1>1, <2>1, Distinct
  <2>2. f \in [1..k -> T]
        OBVIOUS
  <2> HIDE DEF f
  <2> QED BY <2>1, <2>2 DEF Injection, IsInjective
<1>4. IsFiniteSet(1..k) /\ Cardinality(1..k) = k
      BY <1>1, FS_Interval
<1> HIDE DEF f
<1>5. IsFiniteSet(T) /\ Cardinality(T) = k
      BY <1>2, <1>3, <1>4, FS_Surjection
<1> QED BY <1>5, FS_Subset

\* A pod of mindie finds its own address at its rank.
LEMMA OwnAddress ==
    ASSUME NEW s \in Settings, InCluster(s), NEW i \in 1..s.nodes, Chosen(s) = "mindie",
           ~Forced(s), "node_ips" \notin DOMAIN s.file
    PROVE  SelfOf(Place(s, i - 1), Config(s, Place(s, i - 1))) = Nodes[i]
<1> DEFINE p == Place(s, i - 1)
           c == Config(s, p)
<1>1. s.nodes \in Nat /\ s.nodes <= Len(Nodes) /\ 1..s.nodes \subseteq Positions
      BY SettingsAssumption, Addresses DEF Positions
<1>2. p.distributed /\ p.rank = i - 1
      BY DEF Place, InCluster
<1> HIDE DEF p
<1>3. Alike(MergeMindie(s, p, DeployDefaults(s, p)), [node_ips |-> Members(s)], "node_ips")
  <2>1. PICK own : own = [worldSize |-> DeviceCount(s), multiNodesInferEnabled |-> FALSE,
                          node_ips |-> Members(s)]
        OBVIOUS
  <2>2. \E params : MergeMindie(s, p, DeployDefaults(s, p)) = own ++ params
        BY <1>2, <2>1 DEF MergeMindie
  <2>3. "node_ips" \in DOMAIN own /\ own["node_ips"] = Members(s)
        BY <2>1
  <2> QED BY <2>2, <2>3, OverWins DEF Alike
<1>4. MergeCmd(s, p) = MergeMindie(s, p, DeployDefaults(s, p))
      BY DEF MergeCmd, VllmFamily
<1>5. Alike(c, MergeCmd(s, p), "node_ips")
      BY ConfigKeeps
<1> HIDE DEF c
<1>6. "node_ips" \in DOMAIN c /\ c["node_ips"] = Members(s)
      BY <1>3, <1>4, <1>5 DEF Alike
<1>7. Get(c, "node_ips") = Members(s)
      BY <1>6 DEF Get
<1>8. Len(Members(s)) = s.nodes /\ Members(s)[i] = Nodes[i]
      BY <1>1, NodesAssumption DEF Members, Positions
<1>9. p.rank < Len(Get(c, "node_ips")) /\ Get(c, "node_ips")[p.rank + 1] = Nodes[i]
      BY <1>1, <1>2, <1>7, <1>8
<1> QED BY <1>9 DEF SelfOf, p, c

LEMMA OneClusterInv == ASSUME PlanInv PROVE OneCluster
<1> SUFFICES ASSUME InCluster(setting)
    PROVE  /\ \A n, m \in Planned :
                 /\ \A field \in {"engine", "mode", "meet", "size"} : plan[n][field] = plan[m][field]
                 /\ n # m /\ ~(FixedSplit /\ setting.nodes # 2) =>
                       plan[n].share \cap plan[m].share = {}
           /\ Cardinality(Planned) = setting.nodes /\ ~(FixedSplit /\ setting.nodes # 2) =>
                 UNION {plan[n].share : n \in Planned} = 0..(plan[Nodes[1]].size - 1)
           /\ \A n \in Planned :
                 plan[n].mode = "mindie" /\ ~OwnWords({"node_ips"}) => plan[n].self = n
    BY DEF OneCluster
<1> DEFINE P(i) == Place(setting, i - 1)
<1>1. setting \in Settings /\ setting.nodes \in Positions
      BY SettingsAssumption DEF PlanInv, Positions
<1>2. ASSUME NEW n \in Planned
      PROVE  \E i \in 1..setting.nodes :
                n = Nodes[i] /\ Accepted(setting) /\ Writes(plan[n], setting, P(i))
  <2>1. PICK i \in Positions :
              /\ n = Nodes[i]
              /\ i = 1 \/ (InCluster(setting) /\ i <= setting.nodes)
              /\ ~PlanFails(setting, Place(setting, i - 1))
              /\ Writes(plan[n], setting, Place(setting, i - 1))
        BY PlannedWrites
  <2>2. Accepted(setting)
        BY <2>1 DEF PlanFails
  <2>3. i \in 1..setting.nodes
        BY <1>1, <2>1, Addresses DEF Positions
  <2> QED BY <2>1, <2>2, <2>3
<1>3. ASSUME NEW n \in Planned, NEW m \in Planned
      PROVE  \A field \in {"engine", "mode", "meet", "size"} : plan[n][field] = plan[m][field]
  <2>1. PICK i \in 1..setting.nodes : Writes(plan[n], setting, P(i))
        BY <1>2
  <2>2. PICK j \in 1..setting.nodes : Writes(plan[m], setting, P(j))
        BY <1>2
  <2>3. /\ plan[n].engine = plan[m].engine
        /\ Joins(plan[n], setting, P(i)) /\ Joins(plan[m], setting, P(j))
        BY <2>1, <2>2 DEF Writes
  <2>4. /\ plan[n].mode = plan[m].mode /\ plan[n].meet = plan[m].meet
        /\ plan[n].size = plan[m].size
        BY <2>3, SamePlace DEF Joins
  <2> QED BY <2>3, <2>4
<1>4. ASSUME NEW i \in 1..setting.nodes, Accepted(setting)
      PROVE  /\ FixedSplit /\ setting.nodes = 2 =>
                   /\ SizeOf(setting, P(i)) = 4
                   /\ ShareOf(setting, P(i)) = IF i = 1 THEN {0, 1} ELSE {2, 3}
             /\ ~FixedSplit =>
                   SizeOf(setting, P(i)) = setting.nodes /\ ShareOf(setting, P(i)) = {i - 1}
      BY <1>1, <1>4, Shares DEF FixedSplit
<1>5. ASSUME NEW n \in Planned, NEW m \in Planned, n # m, ~(FixedSplit /\ setting.nodes # 2)
      PROVE  plan[n].share \cap plan[m].share = {}
  <2>1. PICK i \in 1..setting.nodes :
               n = Nodes[i] /\ Accepted(setting) /\ Writes(plan[n], setting, P(i))
        BY <1>2
  <2>2. PICK j \in 1..setting.nodes : m = Nodes[j] /\ Writes(plan[m], setting, P(j))
        BY <1>2
  <2>3. plan[n].share = ShareOf(setting, P(i)) /\ plan[m].share = ShareOf(setting, P(j))
        BY <2>1, <2>2 DEF Writes, Joins
  <2>4. i # j
        BY <1>5, <2>1, <2>2
  <2> HIDE DEF P
  <2>5. CASE ~FixedSplit
    <3>1. ShareOf(setting, P(i)) = {i - 1} /\ ShareOf(setting, P(j)) = {j - 1}
          BY <1>4, <2>1, <2>5
    <3> QED BY <2>3, <2>4, <3>1
  <2>6. CASE FixedSplit /\ setting.nodes = 2
    <3>1. /\ ShareOf(setting, P(i)) = IF i = 1 THEN {0, 1} ELSE {2, 3}
          /\ ShareOf(setting, P(j)) = IF j = 1 THEN {0, 1} ELSE {2, 3}
          BY <1>4, <2>1, <2>6
    <3>2. i \in {1, 2} /\ j \in {1, 2}
          BY <2>6
    <3> QED BY <2>3, <2>4, <3>1, <3>2
  <2> QED BY <1>5, <2>5, <2>6
<1>6. ASSUME Cardinality(Planned) = setting.nodes, ~(FixedSplit /\ setting.nodes # 2)
      PROVE  UNION {plan[n].share : n \in Planned} = 0..(plan[Nodes[1]].size - 1)
  <2>1. Planned = {Nodes[i] : i \in 1..setting.nodes}
    <3>1. Planned \in SUBSET {Nodes[i] : i \in 1..setting.nodes}
          BY <1>2
    <3> QED BY <1>1, <1>6, <3>1, AllOfThem
  <2>2. setting.nodes \in Nat /\ setting.nodes > 0
        BY <1>1, Addresses DEF Positions
  <2>3. ASSUME NEW i \in 1..setting.nodes
        PROVE  /\ Accepted(setting) /\ plan[Nodes[i]].size = SizeOf(setting, P(i))
               /\ plan[Nodes[i]].share = ShareOf(setting, P(i))
    <3>1. Nodes[i] \in Planned
          BY <2>1
    <3>2. PICK j \in 1..setting.nodes :
                 Nodes[i] = Nodes[j] /\ Accepted(setting) /\ Writes(plan[Nodes[i]], setting, P(j))
          BY <1>2, <3>1
    <3>3. i \in Positions /\ j \in Positions
          BY <1>1, <2>2, Addresses DEF Positions
    <3>4. i = j
          BY <3>2, <3>3, Distinct
    <3> QED BY <3>2, <3>4 DEF Writes, Joins
  <2> HIDE DEF P
  <2>4. Accepted(setting)
        BY <2>2, <2>3
  <2>5. \A x : x \in UNION {plan[n].share : n \in Planned} <=>
                  \E i \in 1..setting.nodes : x \in ShareOf(setting, P(i))
        BY <2>1, <2>3
  <2>6. plan[Nodes[1]].size = SizeOf(setting, P(1))
        BY <2>2, <2>3
  <2>7. CASE ~FixedSplit
    <3>1. \A i \in 1..setting.nodes : ShareOf(setting, P(i)) = {i - 1}
          BY <1>4, <2>4, <2>7
    <3>2. SizeOf(setting, P(1)) = setting.nodes
          BY <1>4, <2>2, <2>4, <2>7
    <3>3. ASSUME NEW x
          PROVE  (\E i \in 1..setting.nodes : x \in ShareOf(setting, P(i)))
                     <=> x \in 0..(setting.nodes - 1)
      <4>1. ASSUME NEW i \in 1..setting.nodes, x \in ShareOf(setting, P(i))
            PROVE  x \in 0..(setting.nodes - 1)
            BY <2>2, <3>1, <4>1
      <4>2. ASSUME x \in 0..(setting.nodes - 1)
            PROVE  \E i \in 1..setting.nodes : x \in ShareOf(setting, P(i))
        <5>1. x + 1 \in 1..setting.nodes /\ (x + 1) - 1 = x
              BY <2>2, <4>2
        <5>2. ShareOf(setting, P(x + 1)) = {x}
              BY <3>1, <5>1
        <5> QED BY <5>1, <5>2
      <4> QED BY <4>1, <4>2
    <3> QED BY <2>5, <2>6, <3>2, <3>3
  <2>8. CASE FixedSplit /\ setting.nodes = 2
    <3>1. /\ SizeOf(setting, P(1)) = 4 /\ ShareOf(setting, P(1)) = {0, 1}
          /\ ShareOf(setting, P(2)) = {2, 3}
          BY <1>4, <2>4, <2>8
    <3>2. \A x : (\E i \in 1..setting.nodes : x \in ShareOf(setting, P(i))) <=> x \in 0..3
          BY <2>8, <3>1
    <3> QED BY <2>5, <2>6, <3>1, <3>2
  <2> QED BY <1>6, <2>7, <2>8
<1>7. ASSUME NEW n \in Planned, plan[n].mode = "mindie", ~OwnWords({"node_ips"})
      PROVE  plan[n].self = n
  <2>1. PICK i \in 1..setting.nodes :
               n = Nodes[i] /\ Accepted(setting) /\ Writes(plan[n], setting, P(i))
        BY <1>2
  <2>2. ModeOf(setting, P(i)) = "mindie"
        BY <1>7, <2>1 DEF Writes, Joins
  <2>3. MultiNode(P(i)) /\ Chosen(setting) = "mindie"
        BY <2>2, <2>1, EngineIsKnown DEF ModeOf, VllmFamily
  <2>4. plan[n].self = SelfOf(P(i), Config(setting, P(i)))
        BY <2>1, <2>3 DEF Writes, VllmFamily
  <2>5. ~Forced(setting) /\ "node_ips" \notin DOMAIN setting.file
        BY <1>7 DEF OwnWords
  <2> QED BY <1>1, <2>1, <2>3, <2>4, <2>5, OwnAddress
<1> HIDE DEF P
<1>8. \A n, m \in Planned :
         /\ \A field \in {"engine", "mode", "meet", "size"} : plan[n][field] = plan[m][field]
         /\ n # m /\ ~(FixedSplit /\ setting.nodes # 2) => plan[n].share \cap plan[m].share = {}
      BY <1>3, <1>5
<1> QED BY <1>6, <1>7, <1>8

\* The pods of a cluster plan one by one, and what they write fits together all the same,
\* whatever they were told and however many of them have planned so far.
THEOREM ClusterFitsTogether == Spec => []OneCluster
BY PlansAreOfThePlace, OneClusterInv, PTL

-----------------------------------------------------------------------------
(* No feature is lost.                                                     *)

\* The engine that is chosen runs on the device, and has what is asked for.
LEMMA EngineServes ==
    ASSUME NEW s, Accepted(s)
    PROVE  /\ Device(s) = "nvidia" /\ Requested(s) \in {"vllm", "sglang"} =>
                 Chosen(s) \in {"vllm", "sglang"}
           /\ Device(s) = "ascend" /\ Requested(s) \in {"vllm", "vllm_ascend", "mindie"} =>
                 Chosen(s) \in {"vllm_ascend", "mindie"}
           /\ /\ Pooling(s) \/ On(s.env.lmcache) \/ On(s.env.router)
              /\ ~(Requested(s) = "mindie" /\ Is310(s))
              => VllmFamily(Chosen(s))
           /\ PdRole(s) # "" /\ Requested(s) # "mindie" => VllmFamily(Chosen(s))
<1>1. Device(s) \in {"nvidia", "ascend"}
      BY DEF Device, Detected, Normalised
<1>2. Requested(s) \in {"vllm", "vllm_ascend"} => Validated(s) = Requested(s)
      BY DEF Validated
<1>3. Requested(s) = "sglang" =>
         /\ Validated(s) \in {"sglang", "vllm"}
         /\ Pooling(s) \/ On(s.env.lmcache) \/ On(s.env.router) \/ PdRole(s) # "" =>
               Validated(s) = "vllm"
      BY DEF Validated
<1>4. Requested(s) = "mindie" =>
         /\ Validated(s) \in {"mindie", "vllm_ascend", "vllm"}
         /\ (Pooling(s) \/ On(s.env.lmcache) \/ On(s.env.router)) /\ ~Is310(s) =>
               Validated(s) \in {"vllm_ascend", "vllm"}
      BY DEF Validated
<1>5. Requested(s) \in {"vllm", "vllm_ascend", "sglang", "mindie"}
      BY DEF Accepted
<1>6. Chosen(s) = IF Validated(s) = "vllm" /\ Device(s) = "ascend" THEN "vllm_ascend"
                  ELSE Validated(s)
      BY DEF Chosen
<1>7. CASE Requested(s) \in {"vllm", "vllm_ascend"}
      BY <1>1, <1>2, <1>6, <1>7 DEF VllmFamily
<1>8. CASE Requested(s) = "sglang"
      BY <1>1, <1>3, <1>6, <1>8 DEF VllmFamily
<1>9. CASE Requested(s) = "mindie"
      BY <1>1, <1>4, <1>6, <1>9 DEF VllmFamily
<1> QED BY <1>5, <1>7, <1>8, <1>9

\* The accelerator patches the features in, into the engine that is started.
LEMMA PatchNamesFeature ==
    ASSUME NEW s, s.env.accel, On(s.spec)
    PROVE  \E features \in SUBSET AllFeatures :
              /\ "speculative_decode" \in features
              /\ <<AdapterOf(Chosen(s)), features>> \in AccelLine(s)
<1>1. "speculative_decode" \in Features(s) /\ Features(s) \in SUBSET AllFeatures
      BY DEF Features, AllFeatures
<1>2. AccelLine(s) = {<<PatchKey(Chosen(s)), Features(s)>>}
      BY <1>1 DEF AccelLine
<1>3. PatchKey(Chosen(s)) = AdapterOf(Chosen(s))
      BY DEF PatchKey, AdapterOf
<1> QED BY <1>1, <1>2, <1>3

\* The connectors and the events get through the merge.
LEMMA ConnectorsMerged ==
    ASSUME NEW s, NEW p, NEW defaults
    PROVE  /\ Connectors(s) # {} =>
                 /\ "kv_transfer_config" \in DOMAIN MergeVllm(s, p, defaults)
                 /\ MergeVllm(s, p, defaults)["kv_transfer_config"] = Connectors(s)
           /\ On(s.env.router) /\ s.env.group # "" =>
                 "kv_events_config" \in DOMAIN MergeVllm(s, p, defaults)
<1> DEFINE length == s.args.input + s.args.output
           p1 == FunctionCall(Renamed(s.args, VllmNames) ++ defaults)
           p2 == AddIf(length > 0, [max_model_len |-> length], p1)
           p3 == AdjustTp(s, p, "tensor_parallel_size", p.distributed, p2)
           p4 == AddIf(Connectors(s) # {}, [kv_transfer_config |-> Connectors(s)], p3)
           p5 == AddIf(On(s.env.router) /\ s.env.group # "", [kv_events_config |-> s.env.group], p4)
           p6 == AddIf(On(s.env.atb) /\ Device(s) = "ascend", [use_kunlun_atb |-> TRUE], p5)
           p7 == SoftQuantized(s, p6)
           p8 == AddIf(s.usage # "full" /\ ModelType(s) = "llm", [cuda_graph_sizes |-> 1], p7)
<1>1. MergeVllm(s, p, defaults) = Pooled(s, p8)
      BY DEF MergeVllm
<1> HIDE DEF p3
<1>2. Connectors(s) # {} =>
         "kv_transfer_config" \in DOMAIN p4 /\ p4["kv_transfer_config"] = Connectors(s)
      BY OverWins DEF AddIf
<1> HIDE DEF p4
<1>3. Alike(p5, p4, "kv_transfer_config")
      BY AddIfKeeps
<1>4. On(s.env.router) /\ s.env.group # "" => "kv_events_config" \in DOMAIN p5
      BY OverWins DEF AddIf
<1> HIDE DEF p5
<1>5. ASSUME NEW key \in {"kv_transfer_config", "kv_events_config"}
      PROVE  Alike(Pooled(s, p8), p5, key)
  <2>1. Alike(p6, p5, key)
        BY AddIfKeeps
  <2> HIDE DEF p6
  <2>2. Alike(p7, p6, key)
        BY SoftQuantizedKeeps
  <2> HIDE DEF p7
  <2>3. Alike(p8, p7, key)
        BY AddIfKeeps
  <2> HIDE DEF p8
  <2>4. Alike(Pooled(s, p8), p8, key)
        BY PooledKeeps
  <2> QED BY <2>1, <2>2, <2>3, <2>4 DEF Alike
<1> HIDE DEF p8
<1> QED BY <1>1, <1>2, <1>3, <1>4, <1>5 DEF Alike

LEMMA VllmModes ==
    ASSUME NEW s, NEW p, VllmFamily(Chosen(s))
    PROVE  ModeOf(s, p) \in {"single", "ray", "dp"}
BY DEF ModeOf

\* They get into the command, if there is one, through the user's file and the adapter.
LEMMA ConnectorsCarried ==
    ASSUME NEW s, NEW p, NEW options, options = OptionsOf(s, p, Config(s, p)), options # Empty,
           VllmFamily(Chosen(s)), ~Forced(s), "kv_transfer_config" \notin DOMAIN s.file,
           ~Truthy(s.sparse)
    PROVE  /\ Connectors(s) # {} => Get(options, "kv_transfer_config") = Connectors(s)
           /\ On(s.env.router) /\ s.env.group # "" => "kv_events_config" \in DOMAIN options
<1> DEFINE merged == MergeCmd(s, p)
           c == Config(s, p)
<1>1. merged = MergeVllm(s, p, DeployDefaults(s, p))
      BY DEF MergeCmd, VllmFamily
<1>2. /\ Connectors(s) # {} =>
            "kv_transfer_config" \in DOMAIN merged /\ merged["kv_transfer_config"] = Connectors(s)
      /\ On(s.env.router) /\ s.env.group # "" => "kv_events_config" \in DOMAIN merged
      BY <1>1, ConnectorsMerged
<1>3. Alike(c, merged, "kv_transfer_config")
      BY ConfigKeeps
<1>4. "kv_events_config" \in DOMAIN merged => "kv_events_config" \in DOMAIN c
      BY ConfigHas
<1> HIDE DEF merged, c
<1>5. ModeOf(s, p) \in {"single", "ray", "dp"}
      BY VllmModes
<1>6. Alike(options, c, "kv_transfer_config")
      BY <1>5, OptionsKeep DEF c, Switches, Texts
<1>7. Alike(options, c, "kv_events_config")
      BY <1>5, OptionsKeep DEF c, Switches, Texts
<1> QED BY <1>2, <1>3, <1>4, <1>6, <1>7 DEF Alike, Get

LEMMA FeaturesInv == ASSUME PlanInv PROVE FeaturesHonoured
<1> DEFINE s == setting
<1> SUFFICES ASSUME NEW n \in Planned
    PROVE  /\ Fits(Requested(s)) \/ Requested(s) = "vllm" => Fits(plan[n].engine)
           /\ /\ Pooling(s) \/ On(s.env.lmcache) \/ On(s.env.router)
              /\ ~(Requested(s) = "mindie" /\ Is310(s))
              => VllmFamily(plan[n].engine)
           /\ PdRole(s) # "" /\ Requested(s) # "mindie" => VllmFamily(plan[n].engine)
           /\ /\ plan[n].options # Empty /\ ~OwnWords({"kv_transfer_config"}) /\ ~Truthy(s.sparse)
              /\ VllmFamily(plan[n].engine)
              => /\ On(s.env.lmcache) => <<"LMCacheConnectorV1", "kv_both">> \in Named(n)
                 /\ PdRole(s) # "" => PdConnector(s) \in Named(n)
                 /\ On(s.env.router) /\ s.env.group # "" => "kv_events_config" \in DOMAIN Options(n)
           /\ s.env.accel /\ On(s.spec) /\ "speculative_config" \in DOMAIN Options(n) =>
                 \E features \in SUBSET AllFeatures :
                     /\ "speculative_decode" \in features
                     /\ <<AdapterOf(plan[n].engine), features>> \in plan[n].patch
    BY DEF FeaturesHonoured
<1>1. PICK i \in Positions : /\ ~PlanFails(s, Place(s, i - 1))
                             /\ Writes(plan[n], s, Place(s, i - 1))
      BY PlannedWrites
<1>2. plan[n].engine = Chosen(s) /\ plan[n].patch = AccelLine(s)
      BY <1>1 DEF Writes
<1>3. Accepted(s)
      BY <1>1 DEF PlanFails
<1>4. /\ Device(s) \in {"nvidia", "ascend"}
      /\ Requested(s) \in {"vllm", "vllm_ascend", "sglang", "mindie"}
      BY <1>3 DEF Device, Detected, Normalised, Accepted
<1>5. Fits(Requested(s)) \/ Requested(s) = "vllm" => Fits(plan[n].engine)
      BY <1>2, <1>3, <1>4, EngineServes DEF Fits
<1>6. /\ /\ Pooling(s) \/ On(s.env.lmcache) \/ On(s.env.router)
         /\ ~(Requested(s) = "mindie" /\ Is310(s))
         => VllmFamily(plan[n].engine)
      /\ PdRole(s) # "" /\ Requested(s) # "mindie" => VllmFamily(plan[n].engine)
      BY <1>2, <1>3, EngineServes
<1>7. ASSUME plan[n].options # Empty, ~OwnWords({"kv_transfer_config"}), ~Truthy(s.sparse),
             VllmFamily(plan[n].engine)
      PROVE  /\ On(s.env.lmcache) => <<"LMCacheConnectorV1", "kv_both">> \in Named(n)
             /\ PdRole(s) # "" => PdConnector(s) \in Named(n)
             /\ On(s.env.router) /\ s.env.group # "" => "kv_events_config" \in DOMAIN Options(n)
  <2>1. ~Forced(s) /\ "kv_transfer_config" \notin DOMAIN s.file
        BY <1>7 DEF OwnWords
  <2>2. PICK p : p = Place(s, i - 1)
        OBVIOUS
  <2>3. Options(n) = OptionsOf(s, p, Config(s, p)) /\ VllmFamily(Chosen(s))
        BY <1>1, <1>2, <1>7, <2>2 DEF Writes, Options, VllmFamily
  <2>4. Options(n) # Empty
        BY <1>7 DEF Options
  <2>5. /\ Connectors(s) # {} => Named(n) = Connectors(s)
        /\ On(s.env.router) /\ s.env.group # "" => "kv_events_config" \in DOMAIN Options(n)
        BY <1>7, <2>1, <2>3, <2>4, ConnectorsCarried DEF Named
  <2>6. /\ On(s.env.lmcache) => <<"LMCacheConnectorV1", "kv_both">> \in Connectors(s)
        /\ PdRole(s) # "" => PdConnector(s) \in Connectors(s)
        BY DEF Connectors
  <2> QED BY <2>5, <2>6
<1>8. ASSUME s.env.accel, On(s.spec)
      PROVE  \E features \in SUBSET AllFeatures :
                /\ "speculative_decode" \in features
                /\ <<AdapterOf(plan[n].engine), features>> \in plan[n].patch
      BY <1>2, <1>8, PatchNamesFeature
<1> QED BY <1>5, <1>6, <1>7, <1>8

\* Whatever the launchers were told, the engine that is started has the features that are
\* asked for, and its command and the accelerator's patch carry them.
THEOREM FeaturesGetThrough == Spec => []FeaturesHonoured
BY PlansAreOfThePlace, FeaturesInv, PTL

-----------------------------------------------------------------------------
(* The devices.                                                            *)

\* The one degree of parallelism a dictionary names, or none.
NoDegree(f) == \A k \in Degrees : k \notin DOMAIN f
OnlyDegree(f, key, value) ==
    /\ key \in DOMAIN f /\ f[key] = value
    /\ \A k \in Degrees \ {key} : k \notin DOMAIN f

LEMMA NoDegreeKept ==
    ASSUME NEW f, NEW g, NoDegree(f), \A k \in Degrees : Alike(g, f, k)
    PROVE  NoDegree(g)
BY DEF NoDegree, Alike

LEMMA DegreeKept ==
    ASSUME NEW f, NEW g, NEW key \in Degrees, NEW value, OnlyDegree(f, key, value),
           \A k \in Degrees : Alike(g, f, k)
    PROVE  OnlyDegree(g, key, value)
BY DEF OnlyDegree, Alike

\* A dictionary without degrees, laid over another one, changes none.
LEMMA OverWithout ==
    ASSUME NEW f, NEW g, NoDegree(f)
    PROVE  \A k \in Degrees : Alike(f ++ g, g, k)
BY OverKeeps DEF NoDegree

LEMMA AddWithout ==
    ASSUME NEW cond, NEW add, NEW f, NoDegree(add)
    PROVE  \A k \in Degrees : Alike(AddIf(cond, add, f), f, k)
BY AddIfKeeps DEF NoDegree

LEMMA LessWithout ==
    ASSUME NEW f, NEW keys, keys \cap Degrees = {}
    PROVE  \A k \in Degrees : Alike(Without(f, keys), f, k)
BY WithoutKeeps

LEMMA DegreeAdded ==
    ASSUME NEW s, NEW p, NEW key \in Degrees, NEW distributed, NEW f, NoDegree(f)
    PROVE  OnlyDegree(AdjustTp(s, p, key, distributed, f), key,
                      IF distributed /\ PdRole(s) = "" THEN DeviceCount(s) * s.nodes
                      ELSE DeviceCount(s))
<1> DEFINE tp == IF distributed /\ PdRole(s) = "" THEN DeviceCount(s) * s.nodes ELSE DeviceCount(s)
<1>1. PICK add : add = [k \in {key} |-> tp]
      OBVIOUS
<1>2. DOMAIN add = {key} /\ add[key] = tp
      BY <1>1
<1>3. key \notin DOMAIN f
      BY DEF NoDegree
<1>4. AdjustTp(s, p, key, distributed, f) = add ++ f
      BY <1>1, <1>3 DEF AdjustTp, AddIf
<1> HIDE DEF tp
<1>5. key \in DOMAIN (add ++ f) /\ (add ++ f)[key] = tp
      BY <1>2, OverWins
<1>6. \A k \in Degrees \ {key} : k \notin DOMAIN (add ++ f)
      BY <1>2 DEF NoDegree, ++
<1> QED BY <1>4, <1>5, <1>6 DEF OnlyDegree, tp

\* The defaults are the same for every pod, and name no degree.
LEMMA SameDefaults ==
    ASSUME NEW s, NEW rank
    PROVE  DeployDefaults(s, Place(s, rank)) = DeployDefaults(s, Place(s, 0))
<1>1. Place(s, rank).distributed = Place(s, 0).distributed
      BY DEF Place
<1>2. EngineKey(s, Place(s, rank)) = EngineKey(s, Place(s, 0))
      BY <1>1 DEF EngineKey
<1>3. OwnSection(s, Place(s, rank)) = OwnSection(s, Place(s, 0))
      BY <1>1, <1>2 DEF OwnSection
<1> QED BY <1>2, <1>3 DEF DeployDefaults

LEMMA DefaultsNameNone ==
    ASSUME NEW s \in Settings, NEW rank
    PROVE  NoDegree(DeployDefaults(s, Place(s, rank)))
BY SameDefaults, DefaultsAssumption DEF NoDegree

LEMMA NamesNameNone ==
    ASSUME NEW args, NEW names \in {VllmNames, SglangNames, MindieNames}
    PROVE  NoDegree(Renamed(args, names))
<1>1. DOMAIN Renamed(args, names) = Range(names)
      BY DEF Renamed
<1>2. \A k \in Degrees : k \notin Range(names)
  <2>1. \A k \in Degrees : k \notin Range(VllmNames)
        BY DEF Range, VllmNames, Degrees
  <2>2. \A k \in Degrees : k \notin Range(SglangNames)
        BY DEF Range, SglangNames, Degrees
  <2>3. \A k \in Degrees : k \notin Range(MindieNames)
        BY DEF Range, MindieNames, Degrees
  <2> QED BY <2>1, <2>2, <2>3
<1> QED BY <1>1, <1>2 DEF NoDegree

\* What _adjust_tensor_parallelism makes of a place.
TpOf(s, p) ==
    IF p.distributed /\ PdRole(s) = "" THEN DeviceCount(s) * s.nodes ELSE DeviceCount(s)

LEMMA VllmDegree ==
    ASSUME NEW s, NEW p, NEW defaults, NoDegree(defaults), ~(Device(s) = "ascend" /\ IsDeepseekFp8(s))
    PROVE  OnlyDegree(MergeVllm(s, p, defaults), "tensor_parallel_size", TpOf(s, p))
<1> DEFINE named == Renamed(s.args, VllmNames) ++ defaults
           length == s.args.input + s.args.output
           p1 == FunctionCall(named)
           p2 == AddIf(length > 0, [max_model_len |-> length], p1)
           p3 == AdjustTp(s, p, "tensor_parallel_size", p.distributed, p2)
           p4 == AddIf(Connectors(s) # {}, [kv_transfer_config |-> Connectors(s)], p3)
           p5 == AddIf(On(s.env.router) /\ s.env.group # "", [kv_events_config |-> s.env.group], p4)
           p6 == AddIf(On(s.env.atb) /\ Device(s) = "ascend", [use_kunlun_atb |-> TRUE], p5)
           p7 == SoftQuantized(s, p6)
           p8 == AddIf(s.usage # "full" /\ ModelType(s) = "llm", [cuda_graph_sizes |-> 1], p7)
           p9 == Pooled(s, p8)
           K  == "tensor_parallel_size"
<1>1. MergeVllm(s, p, defaults) = p9
      BY DEF MergeVllm
<1>2. /\ NoDegree([max_model_len |-> length]) /\ NoDegree([kv_transfer_config |-> Connectors(s)])
      /\ NoDegree([kv_events_config |-> s.env.group]) /\ NoDegree([use_kunlun_atb |-> TRUE])
      /\ NoDegree([cuda_graph_sizes |-> 1])
      BY DEF NoDegree, Degrees
<1>3. K \in Degrees
      BY DEF Degrees
<1>4. NoDegree(named)
  <2>1. NoDegree(Renamed(s.args, VllmNames))
        BY NamesNameNone
  <2>2. \A k \in Degrees : Alike(named, defaults, k)
        BY <2>1, OverWithout
  <2> HIDE DEF named
  <2> QED BY <2>2, NoDegreeKept
<1> HIDE DEF named, length
<1>5. NoDegree(p1)
      BY <1>4, WithoutDomain DEF FunctionCall, NoDegree
<1> HIDE DEF p1
<1>6. NoDegree(p2)
  <2>1. \A k \in Degrees : Alike(p2, p1, k)
        BY <1>2, AddWithout
  <2> HIDE DEF p2
  <2> QED BY <1>5, <2>1, NoDegreeKept
<1> HIDE DEF p2
<1>7. OnlyDegree(p3, K, TpOf(s, p))
      BY <1>3, <1>6, DegreeAdded DEF TpOf
<1> HIDE DEF p3
<1>8. \A k \in Degrees : Alike(p4, p3, k)
      BY <1>2, AddWithout
<1> HIDE DEF p4
<1>9. \A k \in Degrees : Alike(p5, p4, k)
      BY <1>2, AddWithout
<1> HIDE DEF p5
<1>10. \A k \in Degrees : Alike(p6, p5, k)
       BY <1>2, AddWithout
<1> HIDE DEF p6
<1>11. \A k \in Degrees : Alike(p7, p6, k)
       BY SoftQuantizedKeeps DEF Degrees
<1> HIDE DEF p7
<1>12. \A k \in Degrees : Alike(p8, p7, k)
       BY <1>2, AddWithout
<1> HIDE DEF p8
<1>13. \A k \in Degrees : Alike(p9, p8, k)
       BY PooledKeeps DEF Degrees
<1> HIDE DEF p9
<1>14. \A k \in Degrees : Alike(p9, p3, k)
       BY <1>8, <1>9, <1>10, <1>11, <1>12, <1>13 DEF Alike
<1> QED BY <1>1, <1>3, <1>7, <1>14, DegreeKept DEF K

LEMMA SglangDegree ==
    ASSUME NEW s, NEW p, NEW defaults, NoDegree(defaults)
    PROVE  OnlyDegree(MergeSglang(s, p, defaults), "tp_size", TpOf(s, p))
<1> DEFINE cache == [disable_chunked_prefix_cache |-> ~s.args.prefix]
           args == Renamed(s.args, SglangNames)
           length == s.args.input + s.args.output
           p1 == cache ++ args ++ defaults
           p2 == AddIf(s.args.input > 0 /\ s.args.output > 0, [context_length |-> length], p1)
           p3 == AdjustTp(s, p, "tp_size", p.distributed, p2)
           less == Without(p3, {"enable_ep_moe"})
           size == p3["tp_size"]
           p4 == AddIf("enable_ep_moe" \in DOMAIN p3, [ep_size |-> size], less)
           K  == "tp_size"
<1>1. MergeSglang(s, p, defaults) =
         IF "enable_tool_choice" \in DOMAIN p4 THEN Without(p4, {"enable_tool_choice"})
         ELSE Without(p4, {"tool_call_parser"})
      BY DEF MergeSglang
<1>2. /\ NoDegree(cache) /\ NoDegree([context_length |-> length]) /\ NoDegree([ep_size |-> size])
      /\ K \in Degrees
      BY DEF NoDegree, Degrees
<1>3. NoDegree(args)
      BY NamesNameNone
<1> HIDE DEF cache, args, length, size
<1>4. NoDegree(p1)
      BY <1>2, <1>3 DEF NoDegree, ++
<1> HIDE DEF p1
<1>5. NoDegree(p2)
  <2>1. \A k \in Degrees : Alike(p2, p1, k)
        BY <1>2, AddWithout
  <2> HIDE DEF p2
  <2> QED BY <1>4, <2>1, NoDegreeKept
<1> HIDE DEF p2
<1>6. OnlyDegree(p3, K, TpOf(s, p))
      BY <1>2, <1>5, DegreeAdded DEF TpOf
<1> HIDE DEF p3
<1>7. \A k \in Degrees : Alike(less, p3, k)
      BY LessWithout DEF Degrees
<1> HIDE DEF less
<1>8. \A k \in Degrees : Alike(p4, less, k)
      BY <1>2, AddWithout
<1> HIDE DEF p4
<1>9. \A k \in Degrees : Alike(MergeSglang(s, p, defaults), p4, k)
      BY <1>1, LessWithout DEF Degrees
<1>10. \A k \in Degrees : Alike(MergeSglang(s, p, defaults), p3, k)
       BY <1>7, <1>8, <1>9 DEF Alike
<1> QED BY <1>2, <1>6, <1>10, DegreeKept DEF K

LEMMA MindieDegree ==
    ASSUME NEW s, NEW p, NEW defaults, NoDegree(defaults)
    PROVE  OnlyDegree(MergeMindie(s, p, defaults), "worldSize", DeviceCount(s))
<1> DEFINE named == Renamed(s.args, MindieNames) ++ defaults
           known == [isMTP |-> s.model.mtp,
                     isMOE |-> \/ s.model.name = "DeepSeek-R1-671B"
                               \/ named["enable_ep_moe"],
                     npuDeviceIds |-> DeviceCount(s)]
           p1 == known ++ named
           length == [maxSeqLen |-> s.args.input + s.args.output,
                      maxPrefillTokens |-> IF s.args.input > 8192 THEN s.args.input ELSE 8192]
           p2 == AddIf(s.args.input > 0 /\ s.args.output > 0, length, p1)
           split == [dp |-> 1, sp |-> 8, cp |-> 2, tp |-> 2]
           p3 == AddIf(SplitsLongContext(s, p), split, p2)
           own == [worldSize |-> DeviceCount(s), multiNodesInferEnabled |-> FALSE,
                   node_ips |-> Members(s)]
           K == "worldSize"
<1>1. MergeMindie(s, p, defaults) =
         IF p.distributed THEN own ++ p3 ELSE AdjustTp(s, p, K, FALSE, p3)
      BY DEF MergeMindie
<1>2. /\ NoDegree(known) /\ NoDegree(length) /\ NoDegree(split) /\ K \in Degrees
      /\ DOMAIN own = {K, "multiNodesInferEnabled", "node_ips"} /\ own[K] = DeviceCount(s)
      BY DEF NoDegree, Degrees
<1>3. NoDegree(Renamed(s.args, MindieNames))
      BY NamesNameNone
<1> HIDE DEF known, length, split, own
<1>4. NoDegree(named)
      BY <1>3 DEF NoDegree, ++
<1> HIDE DEF named
<1>5. NoDegree(p1)
      BY <1>2, <1>4 DEF NoDegree, ++
<1> HIDE DEF p1
<1>6. NoDegree(p2)
  <2>1. \A k \in Degrees : Alike(p2, p1, k)
        BY <1>2, AddWithout
  <2> HIDE DEF p2
  <2> QED BY <1>5, <2>1, NoDegreeKept
<1> HIDE DEF p2
<1>7. NoDegree(p3)
  <2>1. \A k \in Degrees : Alike(p3, p2, k)
        BY <1>2, AddWithout
  <2> HIDE DEF p3
  <2> QED BY <1>6, <2>1, NoDegreeKept
<1> HIDE DEF p3
<1>8. CASE p.distributed
  <2>1. K \in DOMAIN (own ++ p3) /\ (own ++ p3)[K] = DeviceCount(s)
        BY <1>2, OverWins
  <2>2. \A k \in Degrees \ {K} : k \notin DOMAIN (own ++ p3)
        BY <1>2, <1>7 DEF NoDegree, Degrees, ++
  <2> QED BY <1>1, <1>8, <2>1, <2>2 DEF OnlyDegree
<1>9. CASE ~p.distributed
      BY <1>1, <1>2, <1>7, <1>9, DegreeAdded
<1> QED BY <1>8, <1>9

\* Without a split of the context the merge names no tp and no dp of its own.
LEMMA MindieNamesNone ==
    ASSUME NEW s, NEW p, NEW defaults, ~SplitsLongContext(s, p),
           NEW key \in {"tp", "dp"}, key \notin DOMAIN defaults
    PROVE  key \notin DOMAIN MergeMindie(s, p, defaults)
<1> DEFINE named == Renamed(s.args, MindieNames) ++ defaults
           known == [isMTP |-> s.model.mtp,
                     isMOE |-> \/ s.model.name = "DeepSeek-R1-671B"
                               \/ named["enable_ep_moe"],
                     npuDeviceIds |-> DeviceCount(s)]
           p1 == known ++ named
           length == [maxSeqLen |-> s.args.input + s.args.output,
                      maxPrefillTokens |-> IF s.args.input > 8192 THEN s.args.input ELSE 8192]
           p2 == AddIf(s.args.input > 0 /\ s.args.output > 0, length, p1)
           split == [dp |-> 1, sp |-> 8, cp |-> 2, tp |-> 2]
           p3 == AddIf(SplitsLongContext(s, p), split, p2)
           own == [worldSize |-> DeviceCount(s), multiNodesInferEnabled |-> FALSE,
                   node_ips |-> Members(s)]
<1>1. MergeMindie(s, p, defaults) =
         IF p.distributed THEN own ++ p3 ELSE AdjustTp(s, p, "worldSize", FALSE, p3)
      BY DEF MergeMindie
<1>2. key \notin DOMAIN known /\ key \notin DOMAIN length /\ key \notin DOMAIN own
      OBVIOUS
<1>3. key \notin DOMAIN named
  <2>1. DOMAIN Renamed(s.args, MindieNames) = Range(MindieNames)
        BY DEF Renamed
  <2>2. key \notin Range(MindieNames)
        BY DEF Range, MindieNames
  <2> QED BY <2>1, <2>2 DEF ++
<1> HIDE DEF known, length, split, own, named
<1>4. key \notin DOMAIN p1
      BY <1>2, <1>3 DEF ++
<1> HIDE DEF p1
<1>5. key \notin DOMAIN p2
      BY <1>2, <1>4, AddIfKeeps DEF Alike
<1> HIDE DEF p2
<1>6. key \notin DOMAIN p3
      BY <1>5 DEF AddIf
<1> HIDE DEF p3
<1>7. CASE p.distributed
      BY <1>1, <1>2, <1>6, <1>7 DEF ++
<1>8. CASE ~p.distributed
  <2>1. PICK add : /\ add = [k \in {"worldSize"} |-> DeviceCount(s)]
                   /\ AdjustTp(s, p, "worldSize", FALSE, p3)
                         = AddIf("worldSize" \notin DOMAIN p3, add, p3)
        BY DEF AdjustTp
  <2>2. key \notin DOMAIN add
        BY <2>1
  <2> QED BY <1>1, <1>6, <1>8, <2>1, <2>2, AddIfKeeps DEF Alike
<1> QED BY <1>7, <1>8

\* What the adapter of mindie makes of a configuration with a worldSize: it keeps that, and
\* where no tp and dp are named the ranks are as many.
LEMMA MindieSizes ==
    ASSUME NEW p, NEW c, NEW size \in Int, OnlyDegree(c, "worldSize", size)
    PROVE  /\ OnlyDegree(MindieOptions(p, c), "worldSize", size)
           /\ "tp" \notin DOMAIN c /\ "dp" \notin DOMAIN c =>
                 MindieRanks(MindieOptions(p, c)) = MindieOptions(p, c)["worldSize"]
<1> DEFINE sized == c ++ [worldSize |-> IF p.distributed THEN 8 ELSE 1]
           experts == [tp |-> sized["worldSize"], dp |-> -1]
           options == MindieOptions(p, c)
           E == "isMOE" \in DOMAIN c /\ c["isMOE"]
<1>1. "worldSize" \in DOMAIN c /\ c["worldSize"] = size
      BY DEF OnlyDegree
<1>2. DOMAIN sized = DOMAIN c /\ \A k \in DOMAIN c : sized[k] = c[k]
      BY <1>1 DEF ++
<1>3. /\ DOMAIN experts = {"tp", "dp"}
      /\ experts["tp"] = size /\ experts["dp"] = -1
      BY <1>1, <1>2
<1>4. options = IF E THEN sized ++ experts ELSE sized
      BY DEF MindieOptions
<1> HIDE DEF sized, experts, options, E
<1>5. /\ DOMAIN options = IF E THEN DOMAIN c \cup {"tp", "dp"} ELSE DOMAIN c
      /\ \A k \in DOMAIN c : options[k] = c[k]
      /\ E => \A k \in {"tp", "dp"} \ DOMAIN c : options[k] = experts[k]
      BY <1>2, <1>3, <1>4 DEF ++
<1>6. OnlyDegree(options, "worldSize", size)
      BY <1>1, <1>5 DEF OnlyDegree, Degrees
<1>7. ASSUME "tp" \notin DOMAIN c, "dp" \notin DOMAIN c
      PROVE  MindieRanks(options) = options["worldSize"]
  <2>1. options["worldSize"] = size
        BY <1>6 DEF OnlyDegree
  <2>2. CASE E
    <3>1. /\ "tp" \in DOMAIN options /\ options["tp"] = size
          /\ "dp" \in DOMAIN options /\ options["dp"] = -1
          BY <1>3, <1>5, <1>7, <2>2
    <3>2. Degree(options, "dp") = -1
          BY <3>1 DEF Degree
    <3>3. MindieRanks(options) = size * 1
          BY <3>1, <3>2 DEF MindieRanks
    <3> QED BY <2>1, <3>3
  <2>3. CASE ~E
    <3>1. "tp" \notin DOMAIN options /\ "dp" \notin DOMAIN options
          BY <1>5, <1>7, <2>3
    <3>2. Degree(options, "dp") = 1
          BY <3>1 DEF Degree
    <3>3. MindieRanks(options) = size * 1
          BY <2>1, <3>1, <3>2 DEF MindieRanks
    <3> QED BY <2>1, <3>3
  <2> QED BY <2>2, <2>3
<1> QED BY <1>6, <1>7 DEF options

\* The degree that is named is the one the property reads.
LEMMA DegreeRead ==
    ASSUME NEW options, NEW key \in Degrees \ {"pipeline_parallel_size"}, NEW value,
           OnlyDegree(options, key, value)
    PROVE  TensorDegree(options) = value /\ Degree(options, "pipeline_parallel_size") = 1
<1>1. (Degrees \ {"pipeline_parallel_size"}) \cap DOMAIN options = {key}
      BY DEF OnlyDegree
<1>2. (CHOOSE k \in {key} : TRUE) = key
      OBVIOUS
<1>3. "pipeline_parallel_size" \notin DOMAIN options
      BY DEF OnlyDegree, Degrees
<1> QED BY <1>1, <1>2, <1>3 DEF TensorDegree, Degree, OnlyDegree

\* The parameter in which an engine takes its degree, and what the merge makes of it.
DegreeKey(s) ==
    CASE VllmFamily(Chosen(s)) -> "tensor_parallel_size"
      [] Chosen(s) = "sglang" -> "tp_size"
      [] Chosen(s) = "mindie" -> "worldSize"
DegreeOf(s, p) == IF Chosen(s) = "mindie" THEN DeviceCount(s) ELSE TpOf(s, p)

LEMMA MergedDegree ==
    ASSUME NEW s \in Settings, NEW rank, NEW p, p = Place(s, rank), Accepted(s),
           ~(Device(s) = "ascend" /\ IsDeepseekFp8(s) /\ VllmFamily(Chosen(s)))
    PROVE  /\ OnlyDegree(MergeCmd(s, p), DegreeKey(s), DegreeOf(s, p))
           /\ DegreeKey(s) \in Degrees \ {"pipeline_parallel_size"}
<1>1. PICK defaults : defaults = DeployDefaults(s, p)
      OBVIOUS
<1>2. NoDegree(defaults)
      BY <1>1, DefaultsNameNone
<1>3. CASE VllmFamily(Chosen(s))
  <2>1. MergeCmd(s, p) = MergeVllm(s, p, defaults) /\ DegreeKey(s) = "tensor_parallel_size"
        BY <1>1, <1>3 DEF MergeCmd, DegreeKey, VllmFamily
  <2>2. DegreeOf(s, p) = TpOf(s, p)
        BY <1>3 DEF DegreeOf, VllmFamily
  <2> QED BY <1>2, <1>3, <2>1, <2>2, VllmDegree DEF Degrees
<1>4. CASE Chosen(s) = "sglang"
  <2>1. ~VllmFamily(Chosen(s)) /\ DegreeOf(s, p) = TpOf(s, p)
        BY <1>4 DEF VllmFamily, DegreeOf
  <2>2. MergeCmd(s, p) = MergeSglang(s, p, defaults) /\ DegreeKey(s) = "tp_size"
        BY <1>1, <1>4, <2>1 DEF MergeCmd, DegreeKey
  <2> QED BY <1>2, <2>1, <2>2, SglangDegree DEF Degrees
<1>5. CASE Chosen(s) = "mindie"
  <2>1. ~VllmFamily(Chosen(s)) /\ DegreeOf(s, p) = DeviceCount(s)
        BY <1>5 DEF VllmFamily, DegreeOf
  <2>2. MergeCmd(s, p) = MergeMindie(s, p, defaults) /\ DegreeKey(s) = "worldSize"
        BY <1>1, <1>5, <2>1 DEF MergeCmd, DegreeKey
  <2> QED BY <1>2, <2>1, <2>2, MindieDegree DEF Degrees
<1> QED BY <1>3, <1>4, <1>5, EngineIsKnown DEF VllmFamily

\* The user's file names none, so it reaches the configuration.
LEMMA ConfigDegree ==
    ASSUME NEW s, NEW p, NEW key \in Degrees, NEW value, OnlyDegree(MergeCmd(s, p), key, value),
           ~Forced(s), Degrees \cap DOMAIN s.file = {}
    PROVE  OnlyDegree(Config(s, p), key, value)
<1>1. ASSUME NEW k \in Degrees PROVE Alike(Config(s, p), MergeCmd(s, p), k)
  <2>1. k \notin DOMAIN s.file /\ k \notin {"host", "port"}
        BY DEF Degrees
  <2> QED BY <2>1, ConfigKeeps
<1> QED BY <1>1, DegreeKept

\* The pod alone has one node; a cluster's process is told DISTRIBUTED.
LEMMA ClusterOrAlone ==
    ASSUME NEW s \in Settings, NEW rank, NEW p, p = Place(s, rank), Accepted(s),
           s.distributed => s.masterKnown
    PROVE  /\ p.distributed <=> s.distributed
           /\ ModeOf(s, p) = "single" /\ s.distributed => s.nodes = 1
           /\ ModeOf(s, p) # "single" => s.distributed
<1>1. p.distributed = s.distributed /\ p.nnodes = IF InCluster(s) THEN s.nodes ELSE 1
      BY DEF Place
<1>2. s.distributed => p.nnodes = s.nodes
      BY <1>1 DEF InCluster
<1>3. s.nodes \in Nat /\ s.nodes > 0
      BY SettingsAssumption, Addresses
<1>4. ModeOf(s, p) = "single" => ~MultiNode(p)
  <2>1. ASSUME MultiNode(p) PROVE ModeOf(s, p) # "single"
    <3>1. CASE VllmFamily(Chosen(s))
          BY <2>1, <3>1 DEF ModeOf
    <3>2. CASE ~VllmFamily(Chosen(s))
      <4>1. ModeOf(s, p) = Chosen(s)
            BY <2>1, <3>2 DEF ModeOf
      <4>2. Chosen(s) # "single"
            BY EngineIsKnown
      <4> QED BY <4>1, <4>2
    <3> QED BY <3>1, <3>2
  <2> QED BY <2>1
<1>5. ModeOf(s, p) # "single" => MultiNode(p)
      BY DEF ModeOf
<1> QED BY <1>1, <1>2, <1>3, <1>4, <1>5 DEF MultiNode

\* The command of vllm carries the degree; on ray, Qwen3Moe gets stages and a degree instead.
CommandDegrees(s, p, options, value) ==
    IF ModeOf(s, p) = "ray" /\ s.model.arch = "Qwen3MoeForCausalLM"
    THEN /\ TensorDegree(options) = DeviceCount(s)
         /\ Degree(options, "pipeline_parallel_size") = s.nodes
    ELSE TensorDegree(options) = value /\ Degree(options, "pipeline_parallel_size") = 1

LEMMA VllmCommandDegree ==
    ASSUME NEW s, NEW p, NEW options, NEW value, options = OptionsOf(s, p, Config(s, p)),
           options # Empty, VllmFamily(Chosen(s)),
           OnlyDegree(Config(s, p), "tensor_parallel_size", value)
    PROVE  CommandDegrees(s, p, options, value)
<1> DEFINE c  == Config(s, p)
           o1 == AddIf(Chosen(s) = "vllm_ascend", [enforce_eager |-> TRUE], Command(c))
           o2 == Extras(s, o1)
           stages == [pipeline_parallel_size |-> s.nodes, tensor_parallel_size |-> DeviceCount(s)]
           K  == "tensor_parallel_size"
<1> HIDE DEF c
<1>1. \A k \in Degrees : /\ k \notin Switches /\ k \notin Texts
                         /\ k \notin {"use_kunlun_atb", "speculative_config", "host", "port",
                                      "sparse_config", "enforce_eager", "kv_transfer_config"}
      BY DEF Degrees, Switches, Texts
<1>2. ModeOf(s, p) \in {"single", "ray", "dp"}
      BY VllmModes
<1>3. options = OptionsOf(s, p, c) /\ OnlyDegree(c, K, value)
      BY DEF c
<1>4. K \in Degrees \ {"pipeline_parallel_size"}
      BY DEF Degrees
<1>5. CASE ModeOf(s, p) # "ray"
  <2>1. \A k \in Degrees : Alike(options, c, k)
        BY <1>1, <1>2, <1>3, <1>5, OptionsKeep
  <2>2. OnlyDegree(options, K, value)
        BY <1>3, <1>4, <2>1, DegreeKept
  <2> QED BY <1>4, <1>5, <2>2, DegreeRead DEF CommandDegrees
<1>6. CASE ModeOf(s, p) = "ray"
  <2>1. options = AddIf(s.model.arch = "Qwen3MoeForCausalLM", stages, o2)
        BY <1>3, <1>6 DEF OptionsOf, RayOptions
  <2>2. \A k \in Degrees : Alike(Command(c), c, k)
        BY <1>1, CommandKeeps
  <2>3. NoDegree([enforce_eager |-> TRUE])
        BY DEF NoDegree, Degrees
  <2>4. \A k \in Degrees : Alike(o1, Command(c), k)
        BY <2>3, AddWithout
  <2> HIDE DEF o1
  <2>5. \A k \in Degrees : Alike(o2, o1, k)
        BY <1>1, ExtrasKeep
  <2> HIDE DEF o2
  <2>6. \A k \in Degrees : Alike(o2, c, k)
        BY <2>2, <2>4, <2>5 DEF Alike
  <2>7. OnlyDegree(o2, K, value)
        BY <1>3, <1>4, <2>6, DegreeKept
  <2>8. CASE s.model.arch # "Qwen3MoeForCausalLM"
    <3>1. options = o2
          BY <2>1, <2>8 DEF AddIf
    <3> QED BY <1>4, <2>7, <2>8, <3>1, DegreeRead DEF CommandDegrees
  <2>9. CASE s.model.arch = "Qwen3MoeForCausalLM"
    <3>1. options = stages ++ o2
          BY <2>1, <2>9 DEF AddIf
    <3>2. /\ DOMAIN stages = {K, "pipeline_parallel_size"} /\ stages[K] = DeviceCount(s)
          /\ stages["pipeline_parallel_size"] = s.nodes
          OBVIOUS
    <3> HIDE DEF stages
    <3>3. /\ K \in DOMAIN options /\ options[K] = DeviceCount(s)
          /\ "pipeline_parallel_size" \in DOMAIN options
          /\ options["pipeline_parallel_size"] = s.nodes
          BY <3>1, <3>2, OverWins
    <3>4. DOMAIN options = DOMAIN stages \cup DOMAIN o2
          BY <3>1 DEF ++
    <3>5. \A k \in Degrees \ {K} : k \notin DOMAIN o2
          BY <2>7 DEF OnlyDegree
    <3>6. (Degrees \ {"pipeline_parallel_size"}) \cap DOMAIN options = {K}
          BY <1>4, <3>2, <3>4, <3>5
    <3>7. (CHOOSE k \in {K} : TRUE) = K
          OBVIOUS
    <3>8. TensorDegree(options) = DeviceCount(s)
          BY <3>3, <3>6, <3>7 DEF TensorDegree
    <3>9. Degree(options, "pipeline_parallel_size") = s.nodes
          BY <3>3 DEF Degree
    <3> QED BY <1>6, <2>9, <3>8, <3>9 DEF CommandDegrees
  <2> QED BY <2>8, <2>9
<1> QED BY <1>5, <1>6

\* The configuration of sglang loses no degree on the way into the command.
LEMMA CommandDegree ==
    ASSUME NEW c, NEW key \in Degrees, NEW value, OnlyDegree(c, key, value)
    PROVE  OnlyDegree(Command(c), key, value)
<1>1. \A k \in Degrees : k \notin Switches /\ k \notin Texts /\ k # "use_kunlun_atb"
      BY DEF Degrees, Switches, Texts
<1>2. \A k \in Degrees : Alike(Command(c), c, k)
      BY <1>1, CommandKeeps
<1> QED BY <1>2, DegreeKept

\* What the property asks of a script.
Spreads(s, mode, options) ==
    TensorDegree(options) * Degree(options, "pipeline_parallel_size")
        = DeviceCount(s) * (IF mode \in {"ray", "sglang"} THEN s.nodes ELSE 1)

\* The ways in which the engines do it: one process over the whole cluster, in stages or not,
\* or each pod for itself, a single one included.
Wide(mode) == mode \in {"ray", "sglang"}
Spreading(s, mode, tensor, stages) ==
    \/ Wide(mode) /\ tensor = DeviceCount(s) /\ stages = s.nodes
    \/ Wide(mode) /\ tensor = DeviceCount(s) * s.nodes /\ stages = 1
    \/ ~Wide(mode) /\ tensor = DeviceCount(s) /\ stages = 1
    \/ ~Wide(mode) /\ tensor = DeviceCount(s) * s.nodes /\ stages = 1 /\ s.nodes = 1

LEMMA SpreadsWell ==
    ASSUME NEW s, DeviceCount(s) \in Int, s.nodes \in Int, NEW mode, NEW options,
           Spreading(s, mode, TensorDegree(options), Degree(options, "pipeline_parallel_size"))
    PROVE  Spreads(s, mode, options)
<1>1. PICK dc, nodes : dc = DeviceCount(s) /\ nodes = s.nodes
      OBVIOUS
<1>2. PICK tensor, stages : /\ tensor = TensorDegree(options)
                            /\ stages = Degree(options, "pipeline_parallel_size")
      OBVIOUS
<1>3. dc \in Int /\ nodes \in Int
      BY <1>1
<1>4. Spreading(s, mode, tensor, stages)
      BY <1>2
<1>5. CASE Wide(mode)
  <2>1. (tensor = dc /\ stages = nodes) \/ (tensor = dc * nodes /\ stages = 1)
        BY <1>1, <1>5, <1>4 DEF Spreading
  <2>2. tensor * stages = dc * nodes
        BY <1>3, <2>1
  <2> QED BY <1>1, <1>2, <1>5, <2>2 DEF Spreads, Wide
<1>6. CASE ~Wide(mode)
  <2>1. (tensor = dc /\ stages = 1) \/ (tensor = dc * nodes /\ stages = 1 /\ nodes = 1)
        BY <1>1, <1>6, <1>4 DEF Spreading
  <2>2. tensor * stages = dc * 1
        BY <1>3, <2>1
  <2> QED BY <1>1, <1>2, <1>6, <2>2 DEF Spreads, Wide
<1> QED BY <1>5, <1>6

LEMMA CountsAreIntegers ==
    ASSUME NEW s \in Settings
    PROVE  DeviceCount(s) \in Int /\ s.nodes \in Int
<1>1. s.hw.count \in Int /\ s.devices \in Int /\ s.nodes \in 1..Len(Nodes)
      BY SettingsAssumption
<1>2. Detected(s.hw).count \in Int
      BY <1>1 DEF Detected
<1> QED BY <1>1, <1>2, Addresses DEF DeviceCount

\* sglang does not know the roles of prefill and decode, and is replaced where one is set.
LEMMA SglangHasNoRole ==
    ASSUME NEW s, Chosen(s) = "sglang"
    PROVE  PdRole(s) = ""
<1>1. Validated(s) = "sglang"
      BY DEF Chosen
<1>2. Requested(s) = "sglang"
      BY <1>1 DEF Validated
<1> QED BY <1>1, <1>2 DEF Validated

LEMMA ScriptSpreads ==
    ASSUME NEW s \in Settings, NEW rank, NEW p, NEW u, p = Place(s, rank), Accepted(s),
           Writes(u, s, p), ~Forced(s), Degrees \cap DOMAIN s.file = {}, u.options # Empty,
           ~(Device(s) = "ascend" /\ IsDeepseekFp8(s) /\ VllmFamily(Chosen(s))),
           ~(u.mode = "ray" /\ PdRole(s) # ""), ~(u.mode = "dp" /\ PdRole(s) = ""),
           s.distributed => s.masterKnown
    PROVE  Spreads(s, u.mode, u.options)
<1> DEFINE K == DegreeKey(s)
           V == DegreeOf(s, p)
           dc == DeviceCount(s)
           mode == ModeOf(s, p)
           options == u.options
<1>1. K \in Degrees \ {"pipeline_parallel_size"} /\ OnlyDegree(MergeCmd(s, p), K, V)
      BY MergedDegree
<1>2. OnlyDegree(Config(s, p), K, V)
      BY <1>1, ConfigDegree
<1>3. u.mode = mode
      BY DEF Writes, Joins
<1>4. dc \in Int /\ s.nodes \in Int
      BY CountsAreIntegers
<1>5. /\ p.distributed <=> s.distributed
      /\ mode = "single" /\ s.distributed => s.nodes = 1
      /\ mode # "single" => s.distributed
      BY ClusterOrAlone
<1>6. mode \in {"single", "ray", "dp", "sglang", "mindie"}
      BY EngineIsKnown DEF ModeOf, VllmFamily
<1>7. TpOf(s, p) = IF s.distributed /\ PdRole(s) = "" THEN dc * s.nodes ELSE dc
      BY <1>5 DEF TpOf
<1> DEFINE wide == Wide(mode)
<1>8. TpOf(s, p) = dc * s.nodes \/ TpOf(s, p) = dc
      BY <1>7
<1>9. wide /\ PdRole(s) = "" => TpOf(s, p) = dc * s.nodes
      BY <1>5, <1>7 DEF Wide
<1>10. mode \in {"single", "dp"} /\ ~(mode = "dp" /\ PdRole(s) = "")
       => TpOf(s, p) = dc \/ (TpOf(s, p) = dc * s.nodes /\ s.nodes = 1)
      BY <1>5, <1>7 DEF Wide
<1>11. SUFFICES Spreading(s, mode, TensorDegree(options), Degree(options, "pipeline_parallel_size"))
      BY <1>3, <1>4, SpreadsWell
<1>12. CASE VllmFamily(Chosen(s))
  <2>1. options = OptionsOf(s, p, Config(s, p)) /\ K = "tensor_parallel_size" /\ V = TpOf(s, p)
        BY <1>12 DEF Writes, DegreeKey, DegreeOf, VllmFamily
  <2>2. mode \in {"single", "ray", "dp"}
        BY <1>12, VllmModes
  <2>3. OnlyDegree(Config(s, p), "tensor_parallel_size", V)
        BY <1>2, <2>1
  <2> HIDE DEF K, V, options
  <2>4. options # Empty
        BY DEF options
  <2>5. CommandDegrees(s, p, options, V)
        BY <1>12, <2>1, <2>3, <2>4, VllmCommandDegree
  <2>6. CASE mode = "ray"
    <3>1. wide /\ V = dc * s.nodes
          BY <1>3, <1>9, <2>1, <2>6 DEF Wide
    <3> QED BY <2>5, <2>6, <3>1 DEF Spreading, Wide, CommandDegrees
  <2>7. CASE mode # "ray"
    <3>1. ~wide /\ (V = dc \/ (V = dc * s.nodes /\ s.nodes = 1))
          BY <1>3, <1>10, <2>1, <2>2, <2>7 DEF Wide
    <3> QED BY <2>5, <2>7, <3>1 DEF Spreading, Wide, CommandDegrees
  <2> QED BY <2>6, <2>7
<1>13. CASE Chosen(s) = "sglang"
  <2>1. options = Command(Config(s, p)) /\ V = TpOf(s, p)
        BY <1>13 DEF Writes, DegreeOf, VllmFamily
  <2>2. OnlyDegree(options, K, V)
        BY <1>1, <1>2, <2>1, CommandDegree
  <2>3. TensorDegree(options) = V /\ Degree(options, "pipeline_parallel_size") = 1
        BY <1>1, <2>2, DegreeRead
  <2>4. mode \in {"single", "sglang"} /\ PdRole(s) = ""
        BY <1>13, SglangHasNoRole DEF ModeOf, VllmFamily
  <2>5. CASE mode = "single"
        BY <1>10, <2>1, <2>3, <2>5 DEF Spreading, Wide
  <2>6. CASE mode = "sglang"
        BY <1>9, <2>1, <2>3, <2>4, <2>6 DEF Spreading, Wide
  <2> QED BY <2>4, <2>5, <2>6
<1>14. CASE Chosen(s) = "mindie"
  <2>1. options = MindieOptions(p, Config(s, p)) /\ V = dc /\ K = "worldSize"
        BY <1>14 DEF Writes, DegreeOf, DegreeKey, VllmFamily
  <2>4. OnlyDegree(options, K, V)
        BY <1>2, <1>4, <2>1, MindieSizes
  <2>2. TensorDegree(options) = V /\ Degree(options, "pipeline_parallel_size") = 1
        BY <1>1, <2>4, DegreeRead
  <2>3. mode \in {"single", "mindie"}
        BY <1>14 DEF ModeOf, VllmFamily
  <2> QED BY <2>1, <2>2, <2>3 DEF Spreading, Wide
<1> QED BY <1>12, <1>13, <1>14, EngineIsKnown DEF VllmFamily

\* A pod of mindie whose tp and dp nobody has fixed has as many ranks as devices.
LEMMA MindieSpreads ==
    ASSUME NEW s \in Settings, NEW rank, NEW p, NEW u, p = Place(s, rank), ~PlanFails(s, p),
           Writes(u, s, p), ~Forced(s), (Degrees \cup OwnDegrees) \cap DOMAIN s.file = {},
           ~DegreesAreFixed(s), Chosen(s) = "mindie"
    PROVE  MindieRanks(u.options) = u.options["worldSize"]
<1>1. PICK c : c = Config(s, p)
      OBVIOUS
<1>2. u.options = MindieOptions(p, c) /\ ~VllmFamily(Chosen(s))
      BY <1>1 DEF Writes, VllmFamily
<1>3. Accepted(s) /\ ~SplitsLongContext(s, p)
      BY DEF PlanFails
<1>4. OnlyDegree(c, "worldSize", DeviceCount(s))
  <2>1. OnlyDegree(MergeCmd(s, p), "worldSize", DeviceCount(s))
        BY <1>2, <1>3, MergedDegree DEF DegreeKey, DegreeOf
  <2> QED BY <1>1, <2>1, ConfigDegree DEF Degrees
<1>5. ASSUME NEW key \in {"tp", "dp"} PROVE key \notin DOMAIN c
  <2>1. key \notin DOMAIN DeployDefaults(s, p)
        BY SameDefaults DEF DegreesAreFixed, OwnDegrees
  <2>2. MergeCmd(s, p) = MergeMindie(s, p, DeployDefaults(s, p))
        BY <1>2 DEF MergeCmd
  <2>3. key \notin DOMAIN MergeCmd(s, p)
        BY <1>3, <2>1, <2>2, MindieNamesNone
  <2>4. key \notin DOMAIN s.file /\ key \notin {"host", "port"}
        BY DEF OwnDegrees
  <2> QED BY <1>1, <2>3, <2>4, ConfigKeeps DEF Alike
<1> QED BY <1>2, <1>4, <1>5, MindieSizes, CountsAreIntegers

LEMMA DevicesInv == ASSUME PlanInv PROVE DevicesMatch
<1> DEFINE s == setting
<1> SUFFICES ASSUME NEW n \in Planned, ~OwnWords(Degrees \cup OwnDegrees), plan[n].options # Empty,
                    ~(Device(s) = "ascend" /\ IsDeepseekFp8(s) /\ VllmFamily(plan[n].engine)),
                    ~(plan[n].mode = "ray" /\ PdRole(s) # ""),
                    ~(plan[n].mode = "dp" /\ PdRole(s) = ""),
                    ~(s.distributed /\ ~s.masterKnown)
             PROVE  /\ Spreads(s, plan[n].mode, plan[n].options)
                    /\ plan[n].engine = "mindie" /\ ~DegreesAreFixed(s) =>
                          MindieRanks(plan[n].options) = plan[n].options["worldSize"]
    BY DEF DevicesMatch, Spreads, DevicesOf
<1>1. PICK i \in Positions : /\ ~PlanFails(s, Place(s, i - 1))
                             /\ Writes(plan[n], s, Place(s, i - 1))
      BY PlannedWrites
<1>2. PICK p : p = Place(s, i - 1)
      OBVIOUS
<1>3. Accepted(s) /\ Writes(plan[n], s, p) /\ plan[n].engine = Chosen(s)
      BY <1>1, <1>2 DEF PlanFails, Writes
<1>4. s \in Settings /\ ~Forced(s) /\ (Degrees \cup OwnDegrees) \cap DOMAIN s.file = {}
      BY DEF PlanInv, OwnWords
<1>5. Degrees \cap DOMAIN s.file = {}
      BY <1>4
<1>6. Spreads(s, plan[n].mode, plan[n].options)
      BY <1>2, <1>3, <1>4, <1>5, ScriptSpreads
<1>7. ASSUME plan[n].engine = "mindie", ~DegreesAreFixed(s)
      PROVE  MindieRanks(plan[n].options) = plan[n].options["worldSize"]
      BY <1>1, <1>2, <1>3, <1>4, <1>7, MindieSpreads
<1> QED BY <1>6, <1>7

\* Whatever the launchers were told, but for what DevicesMatch leaves out, the degrees of
\* parallelism in the command of a pod multiply to the devices the pod or its cluster has,
\* and tp and dp of mindie to its worldSize unless the shipped section fixes them.
THEOREM CommandUsesTheDevices == Spec => []DevicesMatch
BY PlansAreOfThePlace, DevicesInv, PTL

=============================================================================
