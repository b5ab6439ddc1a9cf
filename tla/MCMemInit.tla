----------------------------- MODULE MCMemInit ------------------------------
(***************************************************************************)
(* MemInit for TLC: every map whose entries begin and end at given cuts.   *)
(***************************************************************************)
EXTENDS MemInit

Cuts == <<0, 32, 80, 100, 144, 186, 272>>

\* Between two cuts there is an entry or a hole; two entries may touch.
MCMaps ==
    {{[base |-> Cuts[i], length |-> Cuts[i + 1] - Cuts[i], type |-> k[i]] :
          i \in {j \in DOMAIN k : k[j] # "hole"}} :
        k \in {f \in [1 .. Len(Cuts) - 1 -> {"Free", "Reserved", "hole"}] :
                  f[1] # "hole" /\ \E i \in DOMAIN f : f[i] = "Free"}}
=============================================================================
