---------------------------- MODULE RegistryPatch ----------------------------
(***************************************************************************)
(* scripts/patch_registry.py and scripts/patch_init.py, which the image    *)
(* build runs to register the port in the installed vLLM.  A file is the   *)
(* sequence of the entries and lines the scripts' patterns tell apart;     *)
(* they match entries with a comma before the closing parenthesis, and     *)
(* write one without.                                                      *)
(***************************************************************************)
EXTENDS Places, Functions

CONSTANTS
  Layouts,   \* installed vLLM packages: the contents of registry.py and __init__.py
  MaxPatches \* bound: scripts started

(* A package has texts that import and export the port at most once.       *)
ASSUME LayoutAssumption ==
  \A d \in Layouts :
    /\ DOMAIN d \subseteq {"registry", "init"} /\ d = [f \in DOMAIN d |-> d[f]]
    /\ \A f \in DOMAIN d :
         /\ d[f] \in Seq(Range(d[f]))
         /\ \A e \in {"import", "exported"} : Cardinality(PlacesOf(d[f], e)) <= 1

VARIABLES
  disk,      \* the files that exist
  original,  \* history: the files before any patch
  patching,  \* the script that runs, and the file it has opened for writing
  patched,   \* what it is about to write
  patches    \* history: the scripts run to their end or cut short, in order

rvars == <<disk, original, patching, patched, patches>>

NoScript == <<"none", "none">>

PatchInit ==
  /\ disk \in Layouts /\ original = disk
  /\ patching = NoScript /\ patched = <<>> /\ patches = <<>>

INSERT_CANDIDATES == <<"stablelm", "starcoder2">>
Mentions == {"transformers", "transformers_inline", "native", "native_comma", "import", "exported"}

(* Fault: the entry takes the place of the anchor. *)
ReplaceBy(content, anchor, entry) ==
  [i \in DOMAIN content |-> IF content[i] = anchor THEN entry ELSE content[i]]

(* content.replace(anchor, anchor + entry) *)
InsertAfter(content, anchor, entry) == Insert(content, PlacesOf(content, anchor), entry)

patch_content(content) ==
  LET rest == Keep(content, {i \in DOMAIN content : content[i] # "transformers"})
      found == {c \in DOMAIN INSERT_CANDIDATES : INSERT_CANDIDATES[c] \in Range(rest)}
  IN IF "native_comma" \in Range(rest) \/ found = {} THEN rest
     ELSE InsertAfter(rest, INSERT_CANDIDATES[Nth(found, 1)], "native")

(* Fault: only the export list is looked at. *)
NotInAll(content) == "exported" \in Range(content)

(* "SmolLM3ForCausalLM" in content *)
Exported(content) == Mentions \cap Range(content) # {}

(* The import goes behind the first import of a model, or on top, and the  *)
(* name to the end of the first export list, if there is one.              *)
add_export(content) ==
  LET imports == PlacesOf(content, "model_import")
      imported == Insert(content, {IF imports = {} THEN 0 ELSE Nth(imports, 1)}, "import")
      lists == PlacesOf(imported, "__all__")
  IN Insert(imported, IF lists = {} THEN {} ELSE {Nth(lists, 1)}, "exported")

(* A script reads its file, and opens it for writing, which empties it. *)
Open(script, file, content) ==
  /\ patching = NoScript /\ Len(patches) < MaxPatches
  /\ patching' = <<script, file>> /\ patched' = content
  /\ disk' = [disk EXCEPT ![file] = <<>>]
  /\ UNCHANGED <<original, patches>>

patch_registry ==
  LET file == IF "registry" \in DOMAIN disk THEN "registry" ELSE "init"
  IN file \in DOMAIN disk /\ Open("patch_registry", file, patch_content(disk[file]))

patch_init ==
  /\ "init" \in DOMAIN disk /\ ~Exported(disk["init"])
  /\ Open("patch_init", "init", add_export(disk["init"]))

(* It writes, or dies before it has. *)
Close(whole) ==
  /\ patching # NoScript /\ patching' = NoScript
  /\ disk' = IF whole THEN [disk EXCEPT ![patching[2]] = patched] ELSE disk
  /\ patched' = <<>>
  /\ patches' = Append(patches, IF whole THEN patching ELSE <<"cut", patching[2]>>)
  /\ UNCHANGED original

PatchNext == patch_registry \/ patch_init \/ \E whole \in BOOLEAN : Close(whole)

PatchSpec == PatchInit /\ [][PatchNext]_rvars

-----------------------------------------------------------------------------
(* The entries of a file that are not about the port. *)
Foreign(content) == Keep(content, {i \in DOMAIN content : content[i] \notin Mentions})

(* The port is registered wherever there is an anchor to put it. *)
Registered(content) ==
  Range(INSERT_CANDIDATES) \cap Range(content) # {} =>
    {"native", "native_comma"} \cap Range(content) # {}

(* The entries that send the port's name to the Transformers backend, on   *)
(* several lines and on one.                                               *)
Fallbacks == {"transformers", "transformers_inline"}

(* As long as no script was cut short, patching, once or again, keeps the  *)
(* other entries of a file and their order; a file that was patched names  *)
(* the port, if it has an anchor; and it has no fallback to Transformers   *)
(* left, if what vLLM shipped had none on one line.  (The one-line entry,  *)
(* the one the port's documentation quotes, the script does not match, and *)
(* leaves behind.)                                                         *)
PatchKeeps ==
  \A f \in DOMAIN disk :
    f # patching[2] /\ <<"cut", f>> \notin Range(patches) =>
      /\ Foreign(disk[f]) = Foreign(original[f])
      /\ <<"patch_registry", f>> \in Range(patches) =>
           /\ Registered(disk[f])
           /\ "transformers_inline" \notin Range(original[f]) =>
                Fallbacks \cap Range(disk[f]) = {}

(* patch_init recognises its own work: the port is imported once and is in *)
(* the export list once, however often the scripts run.                    *)
ExportedOnce ==
  \A f \in DOMAIN disk : \A e \in {"import", "exported"} :
    Cardinality(PlacesOf(disk[f], e)) <= 1

=============================================================================
