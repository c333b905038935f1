----------------------------- MODULE MCProbeStage -----------------------------
(***************************************************************************)
(* One run on a host with up to two GPUs, with a file that sets both       *)
(* options of a server, one, or none of them, or has something else where  *)
(* a section belongs.                                                      *)
(***************************************************************************)
EXTENDS ProbeStage

Gpu == [fb : {NotAvailable, 2, 3}, bar1 : {1}]
MCGpus == {<<>>} \cup [1..1 -> Gpu] \cup [1..2 -> Gpu]

Servers(model) ==
  {Null, Mapping(<<>>), Mapping([port |-> Value("q")])}
  \cup {Mapping([k \in {model} |-> Value("n")]),
        Mapping([k \in {model, "port"} |-> IF k = model THEN Null ELSE Value("q")])}

Runtimes(model) ==
  {Absent, Null} \cup {Mapping([docker_server |-> server]) : server \in Servers(model)}

Options ==
  {Absent, Null, Value("text")}
  \cup {Mapping([k \in {n \in DOMAIN both : both[n] # Absent} |-> both[k]]) :
          both \in [vllm : Runtimes("model"), llama_cpp : Runtimes("model_file")]}

MCFiles ==
  [valid : {TRUE}, runtime_options : Options, model : {Null, Value("m")}]
  \cup [valid : {FALSE}, runtime_options : {Absent}, model : {Null}]
=============================================================================
