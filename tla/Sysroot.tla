------------------------------ MODULE Sysroot ------------------------------
(***************************************************************************)
(* SysrootAssembler::assemble_sysroot (sysroot.rs): the artifacts of the   *)
(* dependencies are staged into one directory, one after the other.  The   *)
(* manifest of an artifact was written when it was made, or is generated;  *)
(* the directory may be there from an earlier assembly.                    *)
(***************************************************************************)
EXTENDS Naturals, Sequences

CONSTANTS
    Artifacts,      \* <recipe>/<task>-<signature>
    Paths,          \* of files in a sysroot
    Whitelist,      \* the paths under dup_whitelist
    MaxDependencies \* bound: how many artifacts are asked for

Nobody == "nobody"

ASSUME WhitelistOfPaths == Whitelist \subseteq Paths
ASSUME NobodyIsNoArtifact == Nobody \notin Artifacts
ASSUME MaxDependenciesNat == MaxDependencies \in Nat

VARIABLES
    contents,       \* the files of each artifact's sysroot; NoSysroot without
    manifests,      \* the files of its manifest; NoManifest without one
    sameFilesystem, \* of the artifacts and the sysroot
    dependencies,   \* what is still to be staged
    asked,          \* history: all that was asked for
    staged_files,   \* whose each path is
    sysroot,        \* the output directory: whose file is at each path
    assembled       \* how the call has returned: "no" if it has not

sysrootVars ==
    <<contents, manifests, sameFilesystem, dependencies, asked, staged_files, sysroot, assembled>>

NoSysroot == {"no sysroot"}
NoManifest == {"no manifest"}
Earlier == "earlier"        \* a file that an earlier assembly has left

(* A manifest may be older than the files.                                 *)
SysrootInit ==
    /\ contents \in [Artifacts -> (SUBSET Paths) \cup {NoSysroot}]
    /\ manifests \in [Artifacts -> (SUBSET Paths) \cup {NoManifest}]
    /\ sameFilesystem \in BOOLEAN
    /\ \E n \in 0 .. MaxDependencies : dependencies \in [1 .. n -> Artifacts]
    /\ asked = {dependencies[i] : i \in DOMAIN dependencies}
    /\ staged_files = [p \in Paths |-> Nobody]
    /\ \E left \in SUBSET Paths : sysroot = [p \in Paths |-> IF p \in left THEN Earlier ELSE Nobody]
    /\ assembled = "no"

(* The manifest that is loaded, or generated from the files.               *)
Manifest(a) == IF manifests[a] = NoManifest THEN contents[a] ELSE manifests[a]

(* The files that were staged before, by an earlier dependency.            *)
Conflicts(a) == {p \in Manifest(a) \ Whitelist : staged_files[p] # Nobody}

(* "Warning: Sysroot not found"                                            *)
SkipMissing ==
    /\ assembled = "no"
    /\ dependencies # << >>
    /\ contents[Head(dependencies)] = NoSysroot
    /\ dependencies' = Tail(dependencies)
    /\ UNCHANGED <<contents, manifests, sameFilesystem, asked, staged_files, sysroot, assembled>>

FileConflict ==
    /\ assembled = "no"
    /\ dependencies # << >>
    /\ contents[Head(dependencies)] # NoSysroot
    /\ Conflicts(Head(dependencies)) # {}
    /\ assembled' = "conflict"
    /\ UNCHANGED <<contents, manifests, sameFilesystem, dependencies, asked, staged_files, sysroot>>

(* On one filesystem cp is given the pattern src/* without a shell to      *)
(* expand it, finds no file of that name and fails.                        *)
CommandFailed ==
    /\ assembled = "no"
    /\ dependencies # << >>
    /\ contents[Head(dependencies)] # NoSysroot
    /\ Conflicts(Head(dependencies)) = {}
    /\ sameFilesystem
    /\ assembled' = "failed"
    /\ UNCHANGED <<contents, manifests, sameFilesystem, dependencies, asked, staged_files, sysroot>>

(* All files are copied over what is there.                                *)
CopiedTree(a) == [p \in Paths |-> IF p \in contents[a] THEN a ELSE sysroot[p]]

(* Mutant: what was staged is not entered into staged_files.               *)
StageUntracked ==
    LET a == Head(dependencies) IN
    /\ assembled = "no"
    /\ dependencies # << >>
    /\ contents[a] # NoSysroot
    /\ Conflicts(a) = {}
    /\ ~sameFilesystem
    /\ sysroot' = CopiedTree(a)
    /\ dependencies' = Tail(dependencies)
    /\ UNCHANGED <<contents, manifests, sameFilesystem, asked, staged_files, assembled>>

(* Otherwise they are copied, and the manifest is entered into             *)
(* staged_files.                                                           *)
Stage ==
    LET a == Head(dependencies) IN
    /\ assembled = "no"
    /\ dependencies # << >>
    /\ contents[a] # NoSysroot
    /\ Conflicts(a) = {}
    /\ ~sameFilesystem
    /\ sysroot' = CopiedTree(a)
    /\ staged_files' = [p \in Paths |-> IF p \in Manifest(a) THEN a ELSE staged_files[p]]
    /\ dependencies' = Tail(dependencies)
    /\ UNCHANGED <<contents, manifests, sameFilesystem, asked, assembled>>

Assembled ==
    /\ assembled = "no"
    /\ dependencies = << >>
    /\ assembled' = "ok"
    /\ UNCHANGED <<contents, manifests, sameFilesystem, dependencies, asked, staged_files, sysroot>>

SysrootStep == SkipMissing \/ FileConflict \/ CommandFailed \/ Stage \/ Assembled

-----------------------------------------------------------------------------
(* The artifacts whose manifest has every file they bring.                 *)
Honest(a) == contents[a] \subseteq Manifest(a)
Brings(a, p) == contents[a] # NoSysroot /\ p \in contents[a]

(* After Ok every path that an artifact brings has a file of an artifact   *)
(* that was asked for, and outside the whitelist there was one to bring it,*)
(* if the manifests have all the files: nothing is overwritten in silence. *)
OneProvider ==
    assembled = "ok" =>
        \A p \in Paths :
            LET providers == {a \in asked : Brings(a, p)} IN
            /\ providers # {} => sysroot[p] \in providers
            /\ p \notin Whitelist /\ (\A a \in asked : Honest(a)) =>
                   \A a, b \in providers : a = b

(* A dependency with files is never staged by links: Ok on one filesystem  *)
(* means that there was nothing to stage.                                  *)
NothingLinked ==
    assembled = "ok" /\ sameFilesystem => \A a \in asked : contents[a] = NoSysroot

(* Staged files have one provider, and a sysroot that failed has none.     *)
SysrootSound == OneProvider /\ NothingLinked
=============================================================================
