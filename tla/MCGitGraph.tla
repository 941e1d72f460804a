---------------------------- MODULE MCGitGraph ----------------------------
(***************************************************************************)
(* Three repositories whose manifests form a circle: a kas file that also  *)
(* refers to the repository it is in, a repo manifest with a relative      *)
(* remote, a default and a revision of each kind, and a recipe.            *)
(***************************************************************************)
EXTENDS GitGraph, TLC

MCMaxDepths == {-1, 0, 1}
MCNames == <<"dev", "main", "v1">>
MCCommits == {"a1", "a2", "b1", "b2", "c0", "c1"}
MCAncestry ==
    [c \in MCCommits |-> CASE c = "a2" -> {"a1", "a2"} [] c = "c1" -> {"c0", "c1"} [] OTHER -> {c}]
MCAuthor == [c \in MCCommits |-> IF c \in {"a1", "a2"} THEN "p" ELSE "q"]

Kas(repos) == [kind |-> "kas", path |-> "kas.yml", repos |-> repos]
At(u, n) == [url |-> u, refspec |-> n]
Project(name, remote, revision, dest) ==
    [name |-> name, remote |-> remote, revision |-> revision, dest_branch |-> dest]
Is(prefix, name) == {[prefix |-> prefix, name |-> name]}
RepoManifest ==
    [kind |-> "repo", path |-> "TODO.xml",
     remotes |-> <<[name |-> "near", fetch |-> {".."}], [name |-> "up", fetch |-> {"../"}]>>,
     default |-> [remote |-> {"near"}, revision |-> Is("refs/heads/", "main"), dest_branch |-> {}],
     projects |-> <<Project("a", {}, {}, {}),
                    Project("a", {}, Is("", "a1"), Is("refs/tags/", "v1")),
                    Project("x", {"up"}, Is("", "c1"), {})>>]
Recipe ==
    [kind |-> "bitbake", path |-> "r.bb", assignments |->
        <<[name |-> "SRC_URI", value |-> <<[scheme |-> "git", url |-> "a"]>>],
          [name |-> "SRC_URI", value |-> <<[scheme |-> "git", url |-> "b"],
                                           [scheme |-> "file", url |-> "c"]>>]>>]
MCManifests ==
    ("a1" :> {Kas({At({"b"}, {"main"}), At({}, {"v1"})})})
    @@ ("a2" :> {Kas({At({"b"}, {"dev"}), At({"c"}, {})})})
    @@ ("b1" :> {RepoManifest}) @@ ("b2" :> {}) @@ ("c0" :> {})
    @@ ("c1" :> {Recipe, Kas({At({"a"}, {"main"})})})

(* "../" and the name "x" is not asked for: the URL above is that of c.    *)
MCJoin(base, path) == IF path = <<"../">> THEN "c" ELSE path[2]

MCHeads ==
    ("a" :> (("dev" :> "a1") @@ ("main" :> "a1"))) @@ ("b" :> ("main" :> "b1"))
    @@ ("c" :> ("main" :> "c1"))
MCTags == ("a" :> ("v1" :> "a1")) @@ ("b" :> ("main" :> "b2")) @@ ("c" :> ("v1" :> "c0"))
Branch(u, n, to) == [kind |-> "branch", url |-> u, name |-> n, to |-> to]
MCMoves ==
    {Branch("a", "dev", {}), Branch("a", "dev", {"a2"}), Branch("a", "main", {"a2"}),
     Branch("b", "main", {"b2"}), Branch("a", "v1", {"a2"}),
     [kind |-> "tag", url |-> "a", name |-> "dev", to |-> {"a2"}]}
=============================================================================
