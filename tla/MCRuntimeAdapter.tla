--------------------------- MODULE MCRuntimeAdapter ---------------------------
(***************************************************************************)
(* Two runs, one with vLLM's adapter, which retries docker run, and one    *)
(* with either adapter, which does not; and three names: a stranger's and  *)
(* a free one with vLLM's prefix, and a free one with llama.cpp's.  The    *)
(* runs' names may differ, coincide, be taken, or have the other adapter's *)
(* prefix.                                                                 *)
(***************************************************************************)
EXTENDS RuntimeAdapter

CONSTANTS r1, r2, n1, n2, n3

MCRun         == {r1, r2}
MCSetups      == {adapters \in [MCRun -> Adapter] : adapters[r1] = "vllm"}
MCName        == {n1, n2, n3}
MCOccupied    == {n1}
MCPrefixed    == [vllm |-> {n1, n2}, llama_cpp |-> {n3}]
MCGpuFallback == {r1}
=============================================================================
