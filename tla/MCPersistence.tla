---------------------------- MODULE MCPersistence ----------------------------
(***************************************************************************)
(* What a build leaves behind for the next one, each part on its own: one  *)
(* object of the content store down to the files, the objects and actions  *)
(* of a small cache, the signatures of the last plan, downloads and a      *)
(* repository, a sysroot; what an attempt leaves for the next attempt; and *)
(* the executions of tasks, in sandboxes and without.                      *)
(***************************************************************************)
EXTENDS ContentStore, CacheCollection, IncrementalPlan, Downloads, Sysroot, Retry,
        SandboxRuns, ScriptExecution, TLC

VARIABLE part       \* which of them: "store", "cache", "plan", ...

(* One task puts out two contents, the other a large one: both together    *)
(* are beyond the threshold, and each alone is within the target.          *)
MCOutputs == [s \in Signatures |-> IF s = "s1" THEN {"x", "y"} ELSE {"z"}]
MCSize == [h \in Hashes |-> IF h = "z" THEN 2 ELSE 1]

(* A chain, a task with two dependencies, and the chain without its end.   *)
MCRelations ==
    {("k1" :> {}) @@ ("k2" :> {"k1"}) @@ ("k3" :> {"k2"}),
     ("k1" :> {}) @@ ("k2" :> {}) @@ ("k3" :> {"k1", "k2"}),
     ("k2" :> {}) @@ ("k3" :> {"k2"})}

(* Two of the URLs end in the same name.                                   *)
MCFileName == [u \in Urls |-> IF u = "c/v1" THEN "v2" ELSE "v1"]

(* The lines of scripts: every command, on a file or a directory that is   *)
(* there or not, under a variable that is exported in between.             *)
InV(n) == <<"V", n>>
InWork(n) == <<"", n>>
Line(c, ws) == [cmd |-> c, words |-> ws]
Export(v, d) == [cmd |-> "export", words |-> << >>, variable |-> v, value |-> d]
MCLines ==
    {Export("V", "a"), Export("V", "b"), Export("D", "a")}
    \cup {Line(c, <<w>>) : c \in {"touch", "rm", "rm_rf", "rm_f"}, w \in {InV("x"), InV("y")}}
    \cup {Line(c, <<InV("x")>>) : c \in {"mkdir", "chmod", "rm_r", "echo_to", "cp"}}
    \cup {Line(c, << >>) : c \in {"note", "pipe"}}
    \cup {Line("touch", <<<<"D", "x">>>>), Line("bbdirs", <<InV("x"), InV("y")>>)}
    \cup {Line(c, <<InV("x"), InWork("y")>>) : c \in {"cp", "cp_r", "mv", "ln_s", "ln_sf"}}
    \cup {Line(c, <<InWork("y"), InV("x")>>) : c \in {"cp", "mv", "ln_s"}}
    \cup {Line(c, <<InV("y"), InV("x")>>) : c \in {"cp_r", "mv"}}
    \cup {Line("ln_s", <<InV("x"), InV("y")>>)}

Symmetry == Permutations(Processes)

(* The parts that are not looked at.                                       *)
OtherInputs ==
    /\ part # "plan" =>
           /\ relation = CHOOSE r \in Relations : TRUE
           /\ inputs = [k \in TaskKeys |-> CHOOSE i \in Inputs : TRUE]
    /\ part # "repository" => client = "kas"
    /\ part # "sandboxes" =>
           backend = "basic" /\ cgroups = "none" /\ ~group /\ prelude = "absent"

SysrootIdle ==
    /\ contents = << >> /\ manifests = << >> /\ sameFilesystem = FALSE
    /\ dependencies = << >> /\ asked = {} /\ staged_files = << >>
    /\ sysroot = << >> /\ assembled = "no"
RetryIdle == policy = << >> /\ attempts = << >> /\ slept = << >> /\ retried = "no"
ScriptIdle ==
    /\ script = << >> /\ given = << >> /\ mode = "none" /\ position = 0
    /\ direct = [ok |-> TRUE] /\ shell = direct /\ deviated = FALSE /\ answer = "none"

MCInit ==
    /\ part \in {"store", "cache", "plan", "download", "repository", "sysroot", "retry",
                "sandboxes", "script"}
    /\ StoreInit
    /\ CacheInit
    /\ PlanInit
    /\ DownloadsInit
    /\ SandboxesInit
    /\ OtherInputs
    /\ IF part = "sysroot" THEN SysrootInit ELSE SysrootIdle
    /\ IF part = "retry" THEN RetryInit ELSE RetryIdle
    /\ IF part = "script" THEN ScriptInit ELSE ScriptIdle

(* Only the part that is looked at takes steps.                            *)
Only(p) ==
    /\ part = p /\ UNCHANGED part
    /\ p # "store"      => UNCHANGED storeVars
    /\ p # "cache"      => UNCHANGED cacheVars
    /\ p # "plan"       => UNCHANGED planVars
    /\ p # "download"   => UNCHANGED fileVars
    /\ p # "repository" => UNCHANGED gitVars
    /\ p # "sysroot"    => UNCHANGED sysrootVars
    /\ p # "retry"      => UNCHANGED retryVars
    /\ p # "sandboxes"  => UNCHANGED sandboxVars
    /\ p # "script"     => UNCHANGED scriptVars

MCNext ==
    \/ Only("store") /\ StoreNext
    \/ Only("cache") /\ CacheNext
    \/ Only("plan") /\ PlanStep
    \/ Only("download") /\ FilesStep
    \/ Only("repository") /\ GitStep
    \/ Only("sysroot") /\ (SysrootStep \/ (assembled # "no" /\ UNCHANGED sysrootVars))
    \/ Only("retry") /\ (RetryStep \/ (retried # "no" /\ UNCHANGED retryVars))
    \/ Only("sandboxes") /\ (SandboxStep \/ (SandboxesDone /\ UNCHANGED sandboxVars))
    \/ Only("script") /\ (ScriptStep \/ (answer # "none" /\ UNCHANGED scriptVars))

mcVars == <<storeVars, cacheVars, planVars, downloadVars, sysrootVars, retryVars,
            sandboxVars, scriptVars, part>>

MCSpec == MCInit /\ [][MCNext]_mcVars

(* The store: one writer at a time, whole objects, and collections that    *)
(* take nothing an action still needs.                                     *)
StoreSound == WritersSound /\ CacheSound

(* No step takes bytes from an object, or an object from an action that is *)
(* being published.                                                        *)
ObjectsStay == WholeStays /\ PublishedWhole
=============================================================================
