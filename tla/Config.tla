-------------------------------- MODULE Config --------------------------------
(***************************************************************************)
(* load_config (config.py): a file's sections merged over the defaults.    *)
(* Only runtime_options is written out; probe_options and workload are     *)
(* merged by the same function and have nothing put into them afterwards.  *)
(***************************************************************************)
EXTENDS SequencesExt

\* What YAML makes of a part of the file.
Value(v)    == [is |-> "value", value |-> v]
Mapping(at) == [is |-> "mapping", at |-> at]
Null        == Value("null")
Absent      == [is |-> "absent"]

\* What a key has below it, and what there is at a path of keys.
Item(tree, key) == IF tree.is = "mapping" /\ key \in DOMAIN tree.at THEN tree.at[key] ELSE Absent

At(tree, path) ==
  LET item[n \in 0..Len(path)] == IF n = 0 THEN tree ELSE Item(item[n - 1], path[n])
  IN item[Len(path)]

\* The names of the default options.
OptionNames == {"vllm", "llama_cpp", "docker_server", "model", "model_file", "port"}

\* Mutant: {**defaults, **overrides}.
ShallowMerge(defaults, overrides) ==
  Mapping([key \in DOMAIN defaults.at \cup DOMAIN overrides.at |->
    IF key \in DOMAIN overrides.at THEN overrides.at[key] ELSE defaults.at[key]])

\* One item of _deep_merge, where below has what is merged under each key: two
\* mappings are merged, anything else replaces, None too, and what the defaults
\* have no key for is taken over.
MergeItem(default, override, below) ==
  CASE override = Absent -> default
    [] override.is = "mapping" /\ default.is = "mapping" ->
         Mapping([key \in DOMAIN default.at \cup DOMAIN override.at |->
                    IF key \in DOMAIN default.at THEN below[key] ELSE override.at[key]])
    [] OTHER -> override

\* merged[path] is what there is at a path that both have mappings above.
DeepMerge(defaults, overrides) ==
  LET merged[path \in Seq(OptionNames)] ==
        MergeItem(At(defaults, path), At(overrides, path),
                  [key \in OptionNames |-> merged[Append(path, key)]])
  IN merged[<<>>]

\* Where the configured model goes, whichever runtime is the run's.
VllmModel     == <<"vllm", "docker_server", "model">>
LlamaCppModel == <<"llama_cpp", "docker_server", "model_file">>
ModelPaths    == {VllmModel, LlamaCppModel}

\* Of _DEFAULT_RUNTIME_OPTIONS, a server's model and one more of its options.
DefaultRuntimeOptions ==
  Mapping([vllm      |-> Mapping([docker_server |-> Mapping([model |-> Null, port |-> Value("p")])]),
           llama_cpp |-> Mapping([docker_server |-> Mapping([model_file |-> Null,
                                                             port |-> Value("p")])])])

\* _ensure_mapping.
EnsureMapping(section) == IF section \in {Absent, Null} THEN Mapping(<<>>) ELSE section

\* options[path[1]][path[2]][path[3]] = model.
PutAt(options, path, model) ==
  [options EXCEPT !.at[path[1]].at[path[2]].at =
     [key \in DOMAIN @ \cup {path[3]} |-> IF key = path[3] THEN model ELSE @[key]]]

PutModel(options, model) ==
  PutAt(PutAt(options, VllmModel, model), LlamaCppModel, model)

Rejected == [is |-> "rejected"]

\* valid: the required keys, a known runtime, an experiment_id and a seed.  A
\* server's section that is no mapping has no item to put the model into.
LoadConfig(file) ==
  IF ~file.valid \/ EnsureMapping(file.runtime_options).is # "mapping" THEN Rejected
  ELSE LET options == DeepMerge(DefaultRuntimeOptions, EnsureMapping(file.runtime_options))
       IN IF file.model = Null THEN options
          ELSE IF \E path \in ModelPaths : At(options, Front(path)).is # "mapping" THEN Rejected
          ELSE PutModel(options, file.model)

(***************************************************************************)
(* What is to come of a file, said path by path: the model if it has one,  *)
(* else what the file says, else the default, unless the file has replaced *)
(* a section above by something that is no mapping.                        *)
(***************************************************************************)
OptionPaths ==
  ModelPaths \cup {<<runtime, "docker_server", "port">> : runtime \in {"vllm", "llama_cpp"}}

\* The sections on the way to them.
Sections == {SubSeq(path, 1, n) : path \in OptionPaths, n \in 0..2}

WithoutModel(file, path) ==
  LET given(n) == At(file.runtime_options, SubSeq(path, 1, n)) IN
  CASE given(3) # Absent                        -> given(3)
    [] \E n \in 1..2 : given(n).is = "value"    -> Absent
    [] OTHER                                    -> At(DefaultRuntimeOptions, path)

Expected(file, path) ==
  IF path \in ModelPaths /\ file.model # Null THEN file.model ELSE WithoutModel(file, path)
=============================================================================
