------------------------------ MODULE MCConfig ------------------------------
(* Instance: bin below app below root, home below root; one key of each kind   *)
(* (both keys of the GPU model) or the place of the files varies.             *)
EXTENDS Config

MCParent == [d \in Dir |-> IF d = "bin" THEN "app" ELSE "root"]
Kinds == {{"port"}, {"batch_limit"}, {"retry_seconds"}, {"network"}, {"host"}, {"database_url"},
          {"aux_baseline_w"}, {"psu_efficiency"}, {"gpu_idle_w", "gpu_max_w"}, {"enabled"},
          {"batch_sleep"}}
Number(n) == [kind |-> "num", n |-> n]
Values == {Number(n) : n \in {-1, 0, 1, 90, 65536, 131072}}
            \cup {[kind |-> x, n |-> 0] : x \in {"unset", "blank", "bad"}}
MCFocus == {[keys |-> K, values |-> Values, dirs |-> {"app"}, starts |-> {"home"}] : K \in Kinds}
             \cup {[keys |-> {"port"}, values |-> {Number(90)}, dirs |-> Dir, starts |-> Dir]}
=============================================================================
