------------------------------ MODULE GitGraph ------------------------------
(***************************************************************************)
(* graph-git-cli: the crawl that enters repositories, their references and *)
(* the manifests found on them into a graph database, and the follow-up    *)
(* crawls over the same database while the repositories move on.           *)
(* A repository is cloned into a temporary directory, the remote is asked  *)
(* again for its branches and again for its tags, and everything collected *)
(* is run as one transaction.  References and commits are names, URLs,     *)
(* manifests are records; the text of a Cypher query is what it does.      *)
(***************************************************************************)
EXTENDS Integers, Sequences, FiniteSets, SequencesExt

CONSTANTS
    Root,           \* the URL of the command line
    Urls,           \* the URLs a manifest may name
    Names,          \* the names of branches and tags, in the order of a remote's list
    Commits,
    Ancestry,       \* for each commit itself and the commits it descends from
    Author,         \* for each commit its author
    Manifests,      \* for each commit the manifests at the top of its tree
    Relative,       \* the fetch attributes that are relative URLs
    Slashed,        \* the fetch attributes that end in "/"
    Join(_, _),     \* a URL and what is joined to it: a URL
    Heads, Tags,    \* for each URL the branches and tags at first
    Moves,          \* the pushes the world may make
    MaxPushes,      \* bound: how many of them
    MaxDepths,      \* the values of --max-depth
    MaxCrawls       \* bound: how often the program is run

(* The branches or the tags of a remote: names of commits.                 *)
Refs == UNION {[S -> Commits] : S \in SUBSET ToSet(Names)}

ASSUME UrlsFinite == IsFiniteSet(Urls) /\ Root \in Urls
ASSUME NamesListed == Names \in Seq(ToSet(Names))
ASSUME RefsTyped == Heads \in [Urls -> Refs] /\ Tags \in [Urls -> Refs]
ASSUME MovesTyped ==
    \A m \in Moves : m.url \in Urls /\ m.name \in ToSet(Names) /\ m.to \subseteq Commits
ASSUME AncestryTyped == Ancestry \in [Commits -> SUBSET Commits]
ASSUME DepthsInt == MaxDepths \subseteq Int

VARIABLES
    heads, tags,    \* the repositories: for each URL its branches, its tags
    pushes,         \* how many pushes there were
    database,       \* the graph: its nodes and its links
    max_depth, queue, iteration_queue, current_depth,
    phase,          \* where application() is
    url, tracking,  \* the repository at hand, and its refs/remotes/origin
    objects,        \* the commits in the clone's object store
    collector,      \* the queries collected
    crawls          \* how often the program was run

VARIABLES           \* what the properties remember
    reported,       \* for each URL the branches of its last transaction
    reporting,      \* those of the transaction at hand
    visited,        \* the repositories of this crawl
    found,          \* <<from, to>>: the repositories their manifests named
    written,        \* the links this crawl wrote
    left,           \* the commits that branches left, in this crawl
    raced           \* the commits listed for a name that was cloned at another

world == <<heads, tags, pushes>>
clone == <<url, tracking, objects>>
levels == <<queue, iteration_queue, current_depth>>
memory == <<reported, visited, written, left>>
crawlVars == <<world, clone, levels, memory, database, max_depth, phase, collector, crawls,
          reporting, found, raced>>

-----------------------------------------------------------------------------
(* The graph: nodes, and links <<from, label, to>>.                        *)
Repository(u) == <<"Repository", u>>
Reference(n, u) == <<"Reference", n, u>>
Tag(n, u) == <<"Tag", n, u>>
Commit(c) == <<"Commit", c>>
Person(c) == <<"Person", Author[c]>>
Message(c) == <<"Message", c>>
Manifest(m, c) == <<"Manifest", m.kind, m.path, c>>

Touches(link, n) == n \in {link[1], link[3]}

(* Merges commute: the queries between two deletions are a set of nodes,   *)
(* all merged, and a set of links, merged after their nodes.               *)
Merge(nodes, links) == [nodes |-> nodes, links |-> links]
Together(S) == Merge(UNION {s.nodes : s \in S}, UNION {s.links : s \in S})

(* One step of a transaction: some nodes lose their links, some are        *)
(* deleted with them, the rest is merged.                                  *)
DeleteReferences(nodes) == [cut |-> nodes, gone |-> {}, merged |-> Merge({}, {})]
DeleteNodes(nodes) == [cut |-> nodes, gone |-> nodes, merged |-> Merge({}, {})]
MergeAll(m) == [cut |-> {}, gone |-> {}, merged |-> m]

(* The graph after steps qs: what was there and what a step merged, unless *)
(* a later step takes it away.  A link needs both its nodes.               *)
RunQueries(g, qs) ==
    LET Steps(i) == {qs[j] : j \in {k \in DOMAIN qs : k > i}}
        NodesFrom(S, i) == {n \in S : \A q \in Steps(i) : n \notin q.gone}
        LinksFrom(S, i) == {l \in S : \A q \in Steps(i) : \A n \in q.cut : ~Touches(l, n)}
        nodes == NodesFrom(g.nodes, 0)
                     \cup UNION {NodesFrom(qs[i].merged.nodes, i) : i \in DOMAIN qs}
        links == LinksFrom(g.links, 0)
                     \cup UNION {LinksFrom(qs[i].merged.links, i) : i \in DOMAIN qs}
    IN  Merge(nodes, {l \in links : {l[1], l[3]} \subseteq nodes})

BranchesInDb(u) ==
    {n \in ToSet(Names) : <<Repository(u), "has", Reference(n, u)>> \in database.links}
CommitsInDb(n, u) ==
    {c \in Commits : <<Commit(c), "links_to", Reference(n, u)>> \in database.links}

-----------------------------------------------------------------------------
(* The queue of a level, and what was ever put into it.                    *)
NewQueue == [items |-> << >>, dict |-> {}]
AddAlways(q, us) == [items |-> q.items \o us, dict |-> q.dict \cup ToSet(us)]  \* mutant
AddOne(q, u) ==
    IF u \in q.dict THEN q ELSE [items |-> Append(q.items, u), dict |-> q.dict \cup {u}]
Add(q, us) == FoldLeft(AddOne, q, us)

(* The end of the loop: the next level, once this one is empty.            *)
NextLevel(q, next) ==
    IF q.items = << >>
    THEN /\ queue' = Add(q, next.items)
         /\ iteration_queue' = NewQueue
         /\ current_depth' = current_depth + 1
    ELSE queue' = q /\ iteration_queue' = next /\ current_depth' = current_depth

-----------------------------------------------------------------------------
(* Manifests.  An option is a set; a revision is [prefix, name], with the  *)
(* prefix "refs/tags/", "refs/heads/" or none.                             *)
Chosen(option, default) == IF option # {} THEN CHOOSE x \in option : TRUE ELSE default
Todo == [prefix |-> "", name |-> "TODO"]

(* The first remote of that name; a remote without a fetch is "TODO".      *)
Fetch(m, name) ==
    LET matching == SelectSeq(m.remotes, LAMBDA r : r.name = name)
    IN  IF matching = << >> THEN "TODO" ELSE Chosen(matching[1].fetch, "TODO")
ProjectFetch(m, p) == Fetch(m, Chosen(p.remote, Chosen(m.default.remote, "TODO")))
DestBranch(m, p) ==
    Chosen(p.dest_branch, Chosen(m.default.dest_branch,
        Chosen(p.revision, Chosen(m.default.revision, Todo))))
(* What has the length of a commit id, and its digits, is one.             *)
IsCommit(revision) == revision.prefix = "" /\ revision.name \in Commits
IsTag(revision) == revision.prefix = "refs/tags/"
(* A relative fetch that ends in "/" is joined without the project's name. *)
GitUrl(m, p, base) ==
    LET fetch == ProjectFetch(m, p)
    IN  Join(base, IF fetch \in Relative \cap Slashed THEN <<fetch>> ELSE <<fetch, p.name>>)

(* The last assignment to SRC_URI, whatever its operator; an assignment    *)
(* with an override is one of another name.                                *)
SrcUris(m) ==
    LET assigned == SelectSeq(m.assignments, LAMBDA a : a.name = "SRC_URI")
    IN  IF assigned = << >> THEN << >>
        ELSE SelectSeq(Last(assigned).value,
                       LAMBDA s : s.scheme \in {"git", "gitsm", "https", "http"})

(* A recipe without such sources is no manifest, a file that does not      *)
(* parse is not one either.                                                *)
Found(c, kind) ==
    {m \in Manifests[c] : m.kind = kind /\ (kind = "bitbake" => SrcUris(m) # << >>)}

KasUrl(r, u) == Chosen(r.url, u)
(* The repositories a tree names to be visited, in whatever order the      *)
(* directory and the map of a kas file are read.                           *)
NamedIn(c, u) ==
    (UNION {UNION {r.url : r \in m.repos} : m \in Found(c, "kas")})
        \cup UNION {{GitUrl(m, p, u) : p \in ToSet(m.projects)} : m \in Found(c, "repo")}

-----------------------------------------------------------------------------
ASSUME NamedAreUrls == \A c \in Commits, u \in Urls : NamedIn(c, u) \subseteq Urls

(* What is merged for a manifest of the tree at commit o.                  *)
Contained(m, o) == Merge({Manifest(m, o)}, {<<Commit(o), "contains", Manifest(m, o)>>})
Refers(m, o, node) == Merge({node}, {<<Manifest(m, o), "refers", node>>})
Has(u, node) == Merge({node}, {<<Repository(u), "has", node>>})

KasQueries(m, o, u) ==
    {Contained(m, o)} \cup UNION {
        {Merge({Repository(v)}, {}) : v \in r.url}
            \cup UNION {LET node == Reference(n, KasUrl(r, u))
                        IN  {Has(KasUrl(r, u), node), Refers(m, o, node)} : n \in r.refspec}
        : r \in m.repos}

BitbakeQueries(m, o) ==
    {Contained(m, o)} \cup {Refers(m, o, Repository(s.url)) : s \in ToSet(SrcUris(m))}

ProjectQueries(m, p, o, u) ==
    LET v == GitUrl(m, p, u)
        dest == DestBranch(m, p)
        node == CASE IsCommit(dest) -> Commit(dest.name)
                  [] IsTag(dest) -> Tag(dest.name, v)
                  [] OTHER -> Reference(dest.name, v)
    IN  {Merge({Repository(v)}, {}), Refers(m, o, node)}
            \cup (IF IsCommit(dest) THEN {} ELSE {Has(v, node)})
RepoQueries(m, o, u) ==
    {Contained(m, o)} \cup UNION {ProjectQueries(m, p, o, u) : p \in ToSet(m.projects)}

(* The tree that is checked out for a name: that of the remote-tracking    *)
(* branch, for a tag too, and none without it.                             *)
Tree(n) == IF n \in DOMAIN tracking THEN {tracking[n]} ELSE {}

(* Everything found on a name that the remote lists at commit o.           *)
HeadQueries(o, c) ==
    Merge({Person(c), Message(c)},
          {<<Commit(o), "authored_by", Person(c)>>, <<Commit(o), "has_message", Message(c)>>})
TreeQueries(o, c) ==
    (UNION {KasQueries(m, o, url) : m \in Found(c, "kas")})
        \cup (UNION {BitbakeQueries(m, o) : m \in Found(c, "bitbake")})
        \cup UNION {RepoQueries(m, o, url) : m \in Found(c, "repo")}
NodeQueries(node, n, o) ==
    MergeAll(Together(
        {Has(url, node), Merge({Commit(o)}, {<<Commit(o), "links_to", node>>})}
            \cup UNION {{HeadQueries(o, c)} \cup TreeQueries(o, c) : c \in Tree(n)}))

(* The commits a branch was at are cut off from everything.                *)
NothingMoved(n, o) == {}                                                \* mutant
AllMoved(n, o) == CommitsInDb(n, url)                                   \* mutant
MovedAway(n, o) == CommitsInDb(n, url) \ {o}
BranchQueries(n, o) ==
    <<DeleteReferences({Commit(c) : c \in MovedAway(n, o)}),
      NodeQueries(Reference(n, url), n, o)>>
TagQueries(n, o) == <<NodeQueries(Tag(n, url), n, o)>>

(* A remote's list has its names in their order.                           *)
QueriesFor(kind, refs, n) ==
    IF n \notin DOMAIN refs THEN << >>
    ELSE IF kind = "branch" THEN BranchQueries(n, refs[n]) ELSE TagQueries(n, refs[n])
ListQueries(kind, refs) ==
    FlattenSeq([i \in DOMAIN Names |-> QueriesFor(kind, refs, Names[i])])

(* The orders in which the repositories named on a list's trees arrive.    *)
Arriving(refs, n) ==
    SetToSeqs(IF n \in DOMAIN refs THEN UNION {NamedIn(c, url) : c \in Tree(n)} ELSE {})
Arrivals(refs) ==
    FoldLeft(LAMBDA orders, n : {s \o t : s \in orders, t \in Arriving(refs, n)}, {<< >>}, Names)

-----------------------------------------------------------------------------
(* The program.                                                            *)
Start ==
    /\ queue' = Add(NewQueue, <<Root>>)
    /\ iteration_queue' = NewQueue
    /\ current_depth' = 0

GitGraphInit ==
    /\ heads = Heads /\ tags = Tags /\ pushes = 0
    /\ database = [nodes |-> {}, links |-> {}]
    /\ max_depth \in MaxDepths
    /\ queue = Add(NewQueue, <<Root>>) /\ iteration_queue = NewQueue /\ current_depth = 0
    /\ phase = "take" /\ crawls = 1 /\ collector = << >>
    /\ url = Root /\ tracking = << >> /\ objects = {}
    /\ reported = << >> /\ reporting = << >> /\ visited = << >>
    /\ found = {} /\ written = {} /\ left = {} /\ raced = {}

WithinDepth == max_depth < 0 \/ current_depth <= max_depth
Stored(u) ==
    UNION {Ancestry[c] : c \in {heads[u][n] : n \in DOMAIN heads[u]}
                                \cup {tags[u][n] : n \in DOMAIN tags[u]}}

(* The next repository is cloned, which is tried until it succeeds.        *)
Open ==
    /\ phase = "take" /\ queue.items # << >> /\ WithinDepth
    /\ phase' = "opened"
    /\ url' = Head(queue.items)
    /\ queue' = [queue EXCEPT !.items = Tail(@)]
    /\ tracking' = heads[url'] /\ objects' = Stored(url')
    /\ collector' = << >>
    /\ UNCHANGED <<world, iteration_queue, current_depth, memory, database, max_depth, crawls,
                   reporting, found, raced>>

ForgetNothing ==                                                        \* mutant
    /\ phase = "take" /\ queue.items # << >> /\ ~WithinDepth
    /\ NextLevel(queue, iteration_queue)
    /\ UNCHANGED <<world, clone, memory, database, max_depth, phase, collector, crawls,
                   reporting, found, raced>>
(* Beyond the depth an entry is taken and forgotten.                       *)
Forget ==
    /\ phase = "take" /\ queue.items # << >> /\ ~WithinDepth
    /\ NextLevel([queue EXCEPT !.items = Tail(@)], iteration_queue)
    /\ UNCHANGED <<world, clone, memory, database, max_depth, phase, collector, crawls,
                   reporting, found, raced>>

(* What the remote has now is downloaded; the references stay.             *)
UpdateFromRemote ==
    /\ phase = "opened"
    /\ phase' = "updated"
    /\ objects' = objects \cup Stored(url)
    /\ UNCHANGED <<world, url, tracking, levels, memory, database, max_depth, collector,
                   crawls, reporting, found, raced>>

(* Each branch the remote lists must have its commit in the store.         *)
MapRemoteBranchesLocal ==
    /\ phase = "updated"
    /\ phase' = IF \A n \in DOMAIN heads[url] : heads[url][n] \in objects
                THEN "mapped" ELSE "crashed"
    /\ UNCHANGED <<world, clone, levels, memory, database, max_depth, collector, crawls,
                   reporting, found, raced>>

(* The names of a list, with what their trees name, enter the next level.  *)
Discover(refs) ==
    /\ \E us \in Arrivals(refs) :
           /\ iteration_queue' = Add(iteration_queue, us)
           /\ found' = found \cup {<<url, u>> : u \in ToSet(us)}
    /\ raced' = raced \cup {refs[n] : n \in {x \in DOMAIN refs \cap DOMAIN tracking :
                                                 refs[x] # tracking[x]}}

IterateThroughBranches ==
    /\ phase = "mapped"
    /\ phase' = "branches"
    /\ Discover(heads[url])
    /\ reporting' = heads[url]
    /\ collector' =
           <<MergeAll(Merge({Repository(url)}, {}))>>
               \o ListQueries("branch", heads[url])
               \o <<DeleteNodes({Reference(n, url) : n \in
                                     BranchesInDb(url) \ DOMAIN heads[url]})>>
    /\ UNCHANGED <<world, clone, queue, current_depth, memory, database, max_depth, crawls>>

IterateThroughTags ==
    /\ phase = "branches"
    /\ phase' = "tags"
    /\ Discover(tags[url])
    /\ collector' = collector \o ListQueries("tag", tags[url])
    /\ UNCHANGED <<world, clone, queue, current_depth, memory, database, max_depth, crawls,
                   reporting>>

Before(u) == IF u \in DOMAIN reported THEN reported[u] ELSE << >>
(* All queries in one transaction.                                         *)
TxnRunQueries ==
    /\ phase = "tags"
    /\ phase' = "take"
    /\ database' = RunQueries(database, collector)
    /\ NextLevel(queue, iteration_queue)
    /\ visited' = Append(visited, url)
    /\ written' = written \cup UNION {q.merged.links : q \in ToSet(collector)}
    /\ left' = left \cup {Before(url)[n] : n \in
                   {x \in DOMAIN Before(url) \cap DOMAIN reporting :
                        Before(url)[x] # reporting[x]}}
    /\ reported' = [u \in DOMAIN reported \cup {url} |->
                       IF u = url THEN reporting ELSE reported[u]]
    /\ UNCHANGED <<world, clone, max_depth, collector, crawls, reporting, found, raced>>

Finish ==
    /\ phase = "take" /\ queue.items = << >>
    /\ phase' = "done"
    /\ UNCHANGED <<world, clone, levels, memory, database, max_depth, collector, crawls,
                   reporting, found, raced>>

(* A connection that fails, to the remote or to the database, is a panic.  *)
Fail ==
    /\ phase \in {"opened", "updated", "mapped", "branches", "tags"}
    /\ phase' = "crashed"
    /\ UNCHANGED <<world, clone, levels, memory, database, max_depth, collector, crawls,
                   reporting, found, raced>>

(* The program is run again, over the same database.                       *)
RunAgain ==
    /\ phase \in {"done", "crashed"} /\ crawls < MaxCrawls
    /\ crawls' = crawls + 1
    /\ phase' = "take"
    /\ Start
    /\ visited' = << >> /\ found' = {} /\ written' = {} /\ left' = {}
    /\ UNCHANGED <<world, clone, database, max_depth, collector, reported, reporting, raced>>

(* The repositories move on: a branch or a tag is set or deleted.          *)
Moved(refs, m) ==
    [refs EXCEPT ![m.url] =
        [n \in (DOMAIN @ \ {m.name}) \cup (IF m.to = {} THEN {} ELSE {m.name}) |->
            IF n = m.name THEN CHOOSE c \in m.to : TRUE ELSE @[n]]]
Push ==
    /\ pushes < MaxPushes
    /\ pushes' = pushes + 1
    /\ \E m \in Moves :
           IF m.kind = "branch"
           THEN heads' = Moved(heads, m) /\ heads' # heads /\ tags' = tags
           ELSE tags' = Moved(tags, m) /\ tags' # tags /\ heads' = heads
    /\ UNCHANGED <<clone, levels, memory, database, max_depth, phase, collector, crawls,
                   reporting, found, raced>>

Crawl == \/ Open \/ Forget \/ UpdateFromRemote \/ MapRemoteBranchesLocal
         \/ IterateThroughBranches \/ IterateThroughTags \/ TxnRunQueries \/ Finish
GitGraphNext == Crawl \/ Fail \/ RunAgain \/ Push

(* A clone that is retried for ever is the network's: it succeeds at last. *)
GitGraphSpec == GitGraphInit /\ [][GitGraphNext]_crawlVars /\ WF_crawlVars(Crawl)

-----------------------------------------------------------------------------
GraphTypeOK ==
    /\ \A l \in database.links : {l[1], l[3]} \subseteq database.nodes
    /\ phase \in {"take", "opened", "updated", "mapped", "branches", "tags", "done", "crashed"}
    /\ queue.dict \subseteq Urls /\ iteration_queue.dict \subseteq Urls
    /\ objects \subseteq Commits /\ url \in Urls

(* A branch is linked to no commit but the one it was at when its          *)
(* repository was last entered; a branch that was gone by then to none.    *)
(* What this hangs on: find_and_remove_reference_between_commit_and_       *)
(* reference and remove_branches_from_database.                            *)
ReferencesCurrent ==
    \A u \in DOMAIN reported : \A n \in ToSet(Names) :
        CommitsInDb(n, u) \subseteq
            (IF n \in DOMAIN reported[u] THEN {reported[u][n]} ELSE {})

(* The manifests of a commit are of its tree.  Not so where the remote     *)
(* moved between the clone and its list, or a tag has a branch's name: the *)
(* tree checked out for a name is that of the cloned branch.               *)
ManifestsOfCommit ==
    \A c \in Commits \ raced : \A l \in database.links :
        (l[1] = Commit(c) /\ l[2] = "contains") =>
            \E m \in Manifests[c] : l[3] = Manifest(m, c)

(* The two of them, over a well-formed graph.                              *)
GraphSound == GraphTypeOK /\ ReferencesCurrent /\ ManifestsOfCommit

(* The repositories k levels of manifests away from the command line's.    *)
Reached(edges, k) ==
    LET within[i \in 0..k] ==
            IF i = 0 THEN {Root}
            ELSE within[i - 1] \cup {e[2] : e \in {f \in edges : f[1] \in within[i - 1]}}
    IN  within[k]

(* A crawl that comes to its end has entered each repository that the      *)
(* manifests lead to within the depth asked for, each one once, and no     *)
(* other (the loop of application()).                                      *)
CrawlComplete ==
    phase = "done" =>
        /\ Cardinality(ToSet(visited)) = Len(visited)
        /\ ToSet(visited) =
               Reached(found, IF max_depth < 0 THEN Cardinality(Urls) ELSE max_depth)

(* At the end of a crawl the graph holds every link that the crawl wrote.  *)
(* Two kinds get lost: the links of a commit that a branch left, which are *)
(* cut even where another branch, tag or repository is still at it; and    *)
(* the links of a reference that some manifest refers to and that is no    *)
(* branch of its repository, when that repository is entered.              *)
LinksKept ==
    phase = "done" =>
        \A l \in written \ database.links :
            \/ \E c \in left : Touches(l, Commit(c))
            \/ \E u \in ToSet(visited) : \E n \in ToSet(Names) \ DOMAIN reported[u] :
                   Touches(l, Reference(n, u))

(* A crawl comes to its end, whatever the circles in the manifests.        *)
CrawlEnds == (phase = "take") ~> (phase \in {"done", "crashed"})
=============================================================================
