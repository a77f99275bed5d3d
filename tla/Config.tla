-------------------------------- MODULE Config --------------------------------
(***************************************************************************)
(* The configuration files as values, and what the code asks of them:      *)
(* kernel.yaml (config/kernel.rs) and llm.yaml (config/llm.rs).  A section *)
(* of kernel.yaml is "omitted" (serde takes the section's default),        *)
(* "default" (written out, as config init does), "bad" (a value validate   *)
(* refuses) or the name of what was changed in it.                         *)
(***************************************************************************)
EXTENDS Integers, Sequences

Modalities == {"text", "image", "speech", "transcription", "embedding"}

\* SchedulerConfig: validate looks at tickMs and maxConcurrentAgents.
Scheduler == {"omitted", "default", "changed", "bad"}

\* MemoryConfig: validate looks at defaultContextLimit.
MemorySection == {"omitted", "default", "changed", "bad"}

\* IpcConfig: "moved" is a change of transport, socketName or maxMessageBytes,
\* "timeout" one of timeoutMs alone.
IpcSection == {"omitted", "default", "moved", "timeout", "bad"}

\* SafetyConfig: validate looks at maxToolChainLength.
Safety == {"omitted", "default", "changed", "bad"}

\* ModelsConfig: "kernel" is a change of the kernel's model, "other" one of
\* another model or of the temperature.
Models == {"omitted", "default", "kernel", "other", "bad"}

\* ObservabilityConfig: validate looks at logPath.
Observability == {"omitted", "default", "changed", "bad"}

\* SecretsConfig: "key" and "store" are changes of masterKey and store,
\* "audit" one of the algorithm or of the audit settings; validate looks at none.
Secrets == {"omitted", "default", "key", "store", "audit"}

KernelSpec ==
    [scheduler : Scheduler, memory : MemorySection, ipc : IpcSection, safety : Safety,
     models : Models, observability : Observability, secrets : Secrets]

\* What config init writes: every section, with the values of the defaults.
KernelTemplate ==
    [scheduler |-> "default", memory |-> "default", ipc |-> "default", safety |-> "default",
     models |-> "default", observability |-> "default", secrets |-> "default"]

\* KernelConfig::validate.  MemoryConfig derives Default, so the context limit
\* of an omitted memory section is 0 and not the 200000 of an omitted field.
Validates(spec) ==
    /\ spec.scheduler # "bad"
    /\ spec.ipc # "bad"
    /\ spec.safety # "bad"
    /\ spec.models # "bad"
    /\ spec.observability # "bad"
    /\ spec.memory \notin {"bad", "omitted"}

\* KernelConfig::requires_restart against the defaults.
RequiresRestart(spec) ==
    spec.ipc = "moved" \/ spec.models = "kernel" \/ spec.secrets \in {"key", "store"}

\* section_changed: the section differs from KernelSpec::default().
Changed(section) == section \notin {"omitted", "default"}

\* The sections run_config_reload says need a restart.
Restarts(spec) ==
    (IF Changed(spec.ipc) THEN {"ipc"} ELSE {}) \cup
    (IF spec.models = "kernel" THEN {"models"} ELSE {}) \cup
    (IF spec.secrets \in {"key", "store"} THEN {"secrets"} ELSE {})

\* The sections it says are applied without one: four of them always.
Reloads(spec) ==
    {"scheduler", "memory", "safety", "observability"} \cup
    (IF Changed(spec.models) /\ spec.models # "kernel" THEN {"models"} ELSE {}) \cup
    (IF Changed(spec.secrets) /\ spec.secrets \notin {"key", "store"} THEN {"secrets"} ELSE {})

-----------------------------------------------------------------------------
(* llm.yaml: the default provider of each modality, and the providers in   *)
(* the order of the file, each with the modalities it offers               *)

ProviderConfig(name, offers) == [name |-> name, offers |-> offers]

\* The file config init writes.
LlmTemplate ==
    [default   |-> [m \in Modalities |-> IF m = "text" THEN "anthropic" ELSE "openai"],
     providers |-> <<ProviderConfig("anthropic", {"text"}),
                     ProviderConfig("openai", Modalities \ {"text"})>>]

\* LlmConfig::default_provider_for and find: the first provider of that name.
FirstNamed(cfg, name) ==
    CHOOSE i \in DOMAIN cfg.providers :
        cfg.providers[i].name = name /\ \A j \in 1 .. i - 1 : cfg.providers[j].name # name

\* LlmConfig::validate.
LlmValid(cfg) ==
    \A m \in Modalities :
        /\ \E i \in DOMAIN cfg.providers : cfg.providers[i].name = cfg.default[m]
        /\ m \in cfg.providers[FirstNamed(cfg, cfg.default[m])].offers
=============================================================================
