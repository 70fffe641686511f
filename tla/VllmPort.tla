------------------------------- MODULE VllmPort -------------------------------
(***************************************************************************)
(* The native port as a whole (docker/Dockerfile): the image build patches *)
(* the installed vLLM, and a server started from the image loads and runs  *)
(* the model if the registry names it.  The stand-alone model needs no     *)
(* registration.                                                           *)
(***************************************************************************)
EXTENDS SmolLM3, RegistryPatch

vars == <<mvars, rvars>>

Init == ModelInit /\ PatchInit

(* The server has not started yet. *)
Building == weights \in Checkpoint(conf)

Native == \E f \in DOMAIN disk : {"native", "native_comma"} \cap Range(disk[f]) # {}
Started == patching = NoScript /\ (conf.vllm => Native)

Next ==
  \/ Building /\ patch_registry /\ UNCHANGED mvars
  \/ Building /\ patch_init /\ UNCHANGED mvars
  \/ \E whole \in BOOLEAN : Close(whole) /\ UNCHANGED mvars
  \/ Started /\ load_weight /\ UNCHANGED rvars
  \/ Started /\ tie_weights /\ UNCHANGED rvars
  \/ Started /\ embed_tokens /\ UNCHANGED rvars
  \/ Started /\ attention /\ UNCHANGED rvars
  \/ Started /\ mlp /\ UNCHANGED rvars
  \/ Started /\ norm /\ UNCHANGED rvars

Spec == Init /\ [][Next]_vars

=============================================================================
