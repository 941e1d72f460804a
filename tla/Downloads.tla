----------------------------- MODULE Downloads -----------------------------
(***************************************************************************)
(* The directories that sources are fetched to, which outlive the process. *)
(* fetch_source (fetch_handler.rs) has wget, curl or fs::copy write a file *)
(* under the last component of its URL, unless there is one.  A repository *)
(* is cloned once; then fetch_git brings it up to date, while the          *)
(* RepositoryManager of kas (repository_manager.rs, async_git.rs) only     *)
(* opens it.  Commits are numbered along the one branch of the remote.     *)
(***************************************************************************)
EXTENDS Naturals

CONSTANTS
    Fetchers,       \* the tasks, of this process or another, that fetch files
    Urls,
    FileName,       \* extract_filename
    MaxCommits      \* bound: commits of the remote

ASSUME NoneIsNoUrl == "none" \notin Urls
ASSUME MaxCommitsPositive == MaxCommits \in Nat \ {0}

VARIABLES
    file,           \* what is under each name: url, writer, whole; or NoFile
    transfer,       \* what each fetcher is doing: url, at
    fetched,        \* how its last fetch returned
    spoiled,        \* history: names where a transfer was cut, met another,
                    \*   or that two URLs have used
    client,         \* whose the repository is: "fetcher" or "kas"
    remote,         \* the last commit of the remote
    repo,           \* the local repository
    git,            \* the call in progress, or the last one
    loose,          \* history: the repository was asked for without a revision
    cut             \* history: a clone was killed

fileVars == <<file, transfer, fetched, spoiled>>
gitVars == <<client, remote, repo, git, loose, cut>>
downloadVars == <<fileVars, gitVars>>

Names == {FileName[u] : u \in Urls}
NoFile == [url |-> "none", writer |-> "none", whole |-> FALSE]
NoTransfer == [url |-> "none", at |-> "idle"]
NotFetched == [url |-> "none", outcome |-> "none", right |-> FALSE, excused |-> FALSE]

FilesInit ==
    /\ file = [n \in Names |-> NoFile]
    /\ transfer = [f \in Fetchers |-> NoTransfer]
    /\ fetched = [f \in Fetchers |-> NotFetched]
    /\ spoiled = {}

(* Another fetcher is between the look at the name and its return.         *)
Meets(f, n) ==
    \E g \in Fetchers \ {f} : transfer[g] # NoTransfer /\ FileName[transfer[g].url] = n

(* Files of other URLs have been under the name, or are being written.     *)
Foreign(u) == file[FileName[u]] # NoFile /\ file[FileName[u]].url # u

Returned(f, u, how, content) ==
    fetched' = [fetched EXCEPT ![f] =
        [url |-> u, outcome |-> how, right |-> content.url = u /\ content.whole,
         excused |-> FileName[u] \in spoiled \/ Foreign(u) \/ Meets(f, FileName[u])]]

(* "File already exists": it is taken for the one asked for.               *)
TakeExisting(f, u) ==
    /\ transfer[f] = NoTransfer
    /\ file[FileName[u]] # NoFile
    /\ Returned(f, u, "ok", file[FileName[u]])
    /\ spoiled' = IF Foreign(u) THEN spoiled \cup {FileName[u]} ELSE spoiled
    /\ UNCHANGED <<file, transfer>>

BeginTransfer(f, u) ==
    /\ transfer[f] = NoTransfer
    /\ file[FileName[u]] = NoFile
    /\ transfer' = [transfer EXCEPT ![f] = [url |-> u, at |-> "starting"]]
    /\ UNCHANGED <<file, fetched, spoiled>>

(* The tool creates the file, or empties the one that has appeared since.  *)
CreateFile(f) ==
    LET u == transfer[f].url
        n == FileName[u]
    IN
    /\ transfer[f].at = "starting"
    /\ file' = [file EXCEPT ![n] = [url |-> u, writer |-> f, whole |-> FALSE]]
    /\ transfer' = [transfer EXCEPT ![f].at = "writing"]
    /\ spoiled' = IF file[n] # NoFile THEN spoiled \cup {n} ELSE spoiled
    /\ UNCHANGED fetched

(* The one that emptied the file last has written all of it; an earlier    *)
(* one leaves a gap at its start, which the last one has yet to fill.      *)
EndTransfer(f) ==
    LET u == transfer[f].url
        n == FileName[u]
        content == [file[n] EXCEPT !.whole = @ \/ file[n].writer = f]
    IN
    /\ transfer[f].at = "writing"
    /\ file' = [file EXCEPT ![n] = content]
    /\ transfer' = [transfer EXCEPT ![f] = NoTransfer]
    /\ Returned(f, u, "ok", content)
    /\ UNCHANGED spoiled

LeftPartial(f) == IF transfer[f].at = "writing" THEN {FileName[transfer[f].url]} ELSE {}

(* Mutant: the exit status of the tool is not looked at.                   *)
TransferFailsUnseen(f) ==
    LET u == transfer[f].url IN
    /\ transfer[f] # NoTransfer
    /\ transfer' = [transfer EXCEPT ![f] = NoTransfer]
    /\ Returned(f, u, "ok", file[FileName[u]])
    /\ spoiled' = spoiled \cup LeftPartial(f)
    /\ UNCHANGED file

(* HttpDownloadFailed, FileCopyFailed: the file stays as it is.            *)
TransferFails(f) ==
    LET u == transfer[f].url IN
    /\ transfer[f] # NoTransfer
    /\ transfer' = [transfer EXCEPT ![f] = NoTransfer]
    /\ Returned(f, u, "failed", file[FileName[u]])
    /\ spoiled' = spoiled \cup LeftPartial(f)
    /\ UNCHANGED file

(* The process is killed.                                                  *)
KillFetcher(f) ==
    /\ transfer[f] # NoTransfer
    /\ transfer' = [transfer EXCEPT ![f] = NoTransfer]
    /\ spoiled' = spoiled \cup LeftPartial(f)
    /\ UNCHANGED <<file, fetched>>

FilesStep ==
    \E f \in Fetchers :
        \/ \E u \in Urls : TakeExisting(f, u) \/ BeginTransfer(f, u)
        \/ CreateFile(f)
        \/ EndTransfer(f)
        \/ TransferFails(f)
        \/ KillFetcher(f)

-----------------------------------------------------------------------------
(* The repository.  What is asked for is a revision (a commit or a tag),   *)
(* the branch, or nothing in particular.                                   *)
Pins == {[kind |-> "revision", commit |-> c] : c \in 1 .. MaxCommits}
            \cup {[kind |-> k, commit |-> 0] : k \in {"branch", "nothing"}}

NoRepo == [there |-> FALSE, has |-> {}, origin |-> 0, tree |-> 0]

GitInit ==
    /\ client \in {"fetcher", "kas"}
    /\ remote = 1
    /\ repo = NoRepo
    /\ git = [pin |-> [kind |-> "nothing", commit |-> 0], at |-> "none",
              current |-> FALSE, head |-> 0]
    /\ loose = FALSE
    /\ cut = FALSE

GitIdle == git.at \in {"none", "ok", "failed"}

AskFor(pin, at) ==
    /\ GitIdle
    /\ git' = [pin |-> pin, current |-> FALSE, head |-> remote, at |-> at]
    /\ loose' = (loose \/ pin.kind # "revision")
    /\ UNCHANGED <<client, remote, repo, cut>>

(* fetch_git: a repository that is there is brought up to date.            *)
FetchGit(pin) ==
    /\ client = "fetcher"
    /\ AskFor(pin, IF repo.there THEN "fetching" ELSE "cloning")

(* setup_repository of kas: it is opened, and used as it is.               *)
SetupRepository(pin) ==
    /\ client = "kas"
    /\ AskFor(pin, IF repo.there THEN "checkout" ELSE "cloning")

(* fetch_git asks for one commit, if it is not for a revision.             *)
GitClone ==
    /\ git.at = "cloning"
    /\ client = "fetcher"
    /\ repo' = [there |-> TRUE, origin |-> remote, tree |-> remote,
                has |-> IF git.pin.kind = "revision" THEN 1 .. remote ELSE {remote}]
    /\ git' = [git EXCEPT !.at = "checkout", !.current = TRUE]
    /\ UNCHANGED <<client, remote, loose, cut>>

(* clone_or_open asks for all.                                             *)
CloneAll ==
    /\ git.at = "cloning"
    /\ client = "kas"
    /\ repo' = [there |-> TRUE, origin |-> remote, tree |-> remote, has |-> 1 .. remote]
    /\ git' = [git EXCEPT !.at = "checkout", !.current = TRUE]
    /\ UNCHANGED <<client, remote, loose, cut>>

(* GitCloneFailed, CloneFailed; git takes away what it has made.           *)
CloneFails ==
    /\ git.at = "cloning"
    /\ git' = [git EXCEPT !.at = "failed"]
    /\ UNCHANGED <<client, remote, repo, loose, cut>>

(* A shallow repository gets the commits since, not those before.          *)
FetchUpdates ==
    /\ git.at = "fetching"
    /\ repo' = [repo EXCEPT !.origin = remote,
                            !.has = {c \in 1 .. remote : \A h \in repo.has : c > h} \cup @]
    /\ git' = [git EXCEPT !.at = "checkout", !.current = TRUE]
    /\ UNCHANGED <<client, remote, loose, cut>>

(* "Git fetch failed" is a warning.                                        *)
FetchFails ==
    /\ git.at = "fetching"
    /\ git' = [git EXCEPT !.at = "checkout"]
    /\ UNCHANGED <<client, remote, repo, loose, cut>>

(* The commit to check out; 0 if the reference is not there.               *)
Wanted ==
    CASE git.pin.kind = "revision" -> git.pin.commit
      [] git.pin.kind = "branch"   -> repo.origin
      [] git.pin.kind = "nothing"  -> repo.tree

(* checkout_git_revision and AsyncGitRepository::checkout.                 *)
Checkout ==
    /\ git.at = "checkout"
    /\ git.pin.kind = "nothing" \/ Wanted \in repo.has
    /\ repo' = [repo EXCEPT !.tree = Wanted]
    /\ git' = [git EXCEPT !.at = "ok"]
    /\ UNCHANGED <<client, remote, loose, cut>>

CheckoutFails ==
    /\ git.at = "checkout"
    /\ git.pin.kind # "nothing"
    /\ Wanted \notin repo.has
    /\ git' = [git EXCEPT !.at = "failed"]
    /\ UNCHANGED <<client, remote, repo, loose, cut>>

(* The process is killed; of a clone a directory may be left that passes   *)
(* for a repository.                                                       *)
KillGit ==
    /\ ~GitIdle
    /\ git' = [git EXCEPT !.at = "none"]
    /\ \/ UNCHANGED <<repo, cut>>
       \/ /\ git.at = "cloning"
          /\ repo' = [NoRepo EXCEPT !.there = TRUE]
          /\ cut' = TRUE
    /\ UNCHANGED <<client, remote, loose>>

Commit ==
    /\ remote < MaxCommits
    /\ remote' = remote + 1
    /\ UNCHANGED <<client, repo, git, loose, cut>>

GitStep ==
    \/ \E pin \in Pins : FetchGit(pin) \/ SetupRepository(pin)
    \/ GitClone \/ CloneAll \/ CloneFails \/ FetchUpdates \/ FetchFails
    \/ Checkout \/ CheckoutFails
    \/ KillGit \/ Commit

-----------------------------------------------------------------------------
DownloadsInit == FilesInit /\ GitInit

(* Types of the files and of the repository.                               *)
DownloadsTypeOK ==
    /\ DOMAIN file = Names
    /\ \A f \in Fetchers : transfer[f] # NoTransfer => transfer[f].at \in {"starting", "writing"}
    /\ spoiled \subseteq Names
    /\ remote \in 1 .. MaxCommits
    /\ repo.has \subseteq 1 .. remote
    /\ repo.origin \in 0 .. remote /\ repo.tree \in 0 .. remote
    /\ git.at \in {"none", "cloning", "fetching", "checkout", "ok", "failed"}

(* A fetch that returns Ok has all of the file asked for, as long as the   *)
(* name belongs to one URL, one fetcher at a time is at it, and no transfer*)
(* to it ever failed or was killed: the next fetch takes what that left.   *)
FetchedWhole ==
    \A f \in Fetchers : fetched[f].outcome = "ok" => fetched[f].right \/ fetched[f].excused

(* Whatever was asked for before, failed or was killed: with a revision Ok *)
(* means that it is checked out; and the branch is as new as the call, if  *)
(* the update was successful.  Without either there is a tree at least, if *)
(* no clone was killed.                                                    *)
CheckedOut ==
    git.at = "ok" =>
        /\ git.pin.kind = "revision" => repo.tree = git.pin.commit
        /\ git.pin.kind = "branch" /\ git.current => repo.tree >= git.head
        /\ repo.tree # 0 \/ cut

(* A revision that the remote has is refused after an update only if the   *)
(* repository was once asked for without one: then it is shallow, and no   *)
(* later update of it gets the commits before.                             *)
RefusedOnlyIfShallow ==
    git.at = "failed" /\ git.current /\ git.pin.kind = "revision" /\ git.pin.commit <= git.head
        => loose

(* A fetch that returns Ok has fetched what was asked for.                 *)
DownloadsSound ==
    /\ DownloadsTypeOK
    /\ FetchedWhole
    /\ CheckedOut
    /\ RefusedOnlyIfShallow
=============================================================================
