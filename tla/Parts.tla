-------------------------------- MODULE Parts --------------------------------
(***************************************************************************)
(* Five parts of the program that share no state with each other, each the *)
(* whole of a behaviour: a launch on every engine that can run it, the     *)
(* core's memory with the launches it runs itself, the split of a launch,  *)
(* the KV cache, and the installers.  Their properties are safety          *)
(* properties.                                                             *)
(***************************************************************************)
EXTENDS Kernels, CoreMemory, Split, KvCache, Installer

VARIABLE part    (* the part this behaviour is of *)

partsVars == <<part, kernelsVars, memoryVars, vars, kvVars, filesVars>>

(* A part that does not run has one initial state.                         *)
AnySplit == CHOOSE n \in Scores \X Sizes : TRUE

PartsInit ==
    /\ part \in {"kernels", "memory", "split", "cache", "files"}
    /\ KernelsInit /\ (part # "kernels" => launch = CHOOSE l \in Launches : TRUE)
    /\ MemoryInit
    /\ Init /\ (part # "split" => /\ score = [k \in List |-> AnySplit[1]]
                                 /\ global = [d \in 1..WorkDim |-> AnySplit[2]]
                                 /\ local = <<>>)
    /\ KvInit
    /\ FilesInit /\ (part # "files" => vendors = {})

Of(name) == part = name /\ UNCHANGED part

KernelsPart == Of("kernels") /\ KernelsNext /\ UNCHANGED <<memoryVars, vars, kvVars, filesVars>>
MemoryPart  == Of("memory") /\ MemoryNext /\ UNCHANGED <<kernelsVars, vars, kvVars, filesVars>>
SplitPart   == Of("split") /\ Next /\ UNCHANGED <<kernelsVars, memoryVars, kvVars, filesVars>>
CachePart   == Of("cache") /\ KvNext /\ UNCHANGED <<kernelsVars, memoryVars, vars, filesVars>>
FilesPart   == Of("files") /\ FilesNext /\ UNCHANGED <<kernelsVars, memoryVars, vars, kvVars>>

PartsNext == KernelsPart \/ MemoryPart \/ SplitPart \/ CachePart \/ FilesPart

PartsSpec == PartsInit /\ [][PartsNext]_partsVars
----------------------------------------------------------------------------
(* Every part keeps its types: a launch has an outcome the code knows, an  *)
(* engine's copy is of a buffer, no share is empty and no offset negative. *)
PartsTypeOK == CASE part = "kernels" -> KernelsTypeOK
                 [] part = "memory" -> MemoryTypeOK
                 [] part = "split" -> TypeOK
                 [] OTHER -> TRUE
=============================================================================
