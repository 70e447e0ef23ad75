------------------------------- MODULE Release -------------------------------
(* Publication of one version of the coordinated packages: scripts/npm-release  *)
(* .mjs gives the tarballs to npm in dependency order, scripts/                 *)
(* npm-announcement.mjs puts the tag on the source commit and announces the     *)
(* version on GitHub. Nothing of it is one transaction: a publisher may be      *)
(* cancelled anywhere and rerun, and publishers of other commits that carry the *)
(* same version may run beside it. npm and GitHub are external.                 *)
(*                                                                              *)
(* The verified files and the commit of a publisher are constants: a rerun uses *)
(* the same artifact (publish-ci.mjs:26, local-release.mjs:152). Two publishers *)
(* may agree on the bytes of some packages and differ on others.                *)
EXTENDS Naturals

CONSTANTS
  Publishers,   \* release runs, each with the files it verified
  FromCi,       \* those the release workflow starts; the others run locally
  Commits,      \* source commits
  None,         \* no tag, no release, no bytes
  Size,         \* number of packages, in dependency order
  CommitOf,     \* CommitOf[u]: the commit publisher u releases
  Bytes         \* Bytes[u][k]: its tarball of package k

Packages == 1..Size
Contents == UNION {{Bytes[u][k] : k \in Packages} : u \in Publishers}

ASSUME ReleaseAssumption ==
  /\ Size \in Nat \ {0}
  /\ Publishers # {}
  /\ CommitOf \in [Publishers -> Commits]
  /\ Bytes \in [Publishers -> [Packages -> Contents]]
  /\ None \notin Commits
  /\ None \notin Contents

VARIABLES
  registry,     \* the bytes npm accepted for each package, None before
  visible,      \* the packages npm has scanned and shows
  tag,          \* the commit the version's tag points to
  release,      \* the commit of the GitHub Release
  at,           \* where each publisher is
  announcing,   \* publishers past publishNpmRelease, in publishNpmAnnouncement
  index,        \* the package each looks at
  planned,      \* packages its plan found published with its own bytes
  sawTag,       \* the tag planNpmAnnouncement read
  sawRelease    \* publishers whose planNpmAnnouncement found a Release

npm    == <<registry, visible>>
github == <<tag, release>>
plan   == <<index, planned>>
saw    == <<sawTag, sawRelease>>
vars   == <<npm, github, at, announcing, plan, saw>>

Places == {"idle", "tag", "release", "check", "publish", "confirm",
           "ref", "verify", "announce", "last"}

Init ==
  /\ registry = [k \in Packages |-> None]
  /\ visible = {}
  /\ tag = None
  /\ release = None
  /\ at = [u \in Publishers |-> "idle"]
  /\ announcing = {}
  /\ index = [u \in Publishers |-> 1]
  /\ planned = [u \in Publishers |-> {}]
  /\ sawTag = [u \in Publishers |-> None]
  /\ sawRelease = {}

TypeOK ==
  /\ registry \in [Packages -> Contents \union {None}]
  /\ visible \subseteq Packages
  /\ tag \in Commits \union {None}
  /\ release \in Commits \union {None}
  /\ at \in [Publishers -> Places]
  /\ announcing \subseteq Publishers
  /\ index \in [Publishers -> 1..(Size + 1)]
  /\ planned \in [Publishers -> SUBSET Packages]
  /\ sawTag \in [Publishers -> Commits \union {None}]
  /\ sawRelease \subseteq Publishers

Go(u, place) == at' = [at EXCEPT ![u] = place]

\* An assertion fails, a request fails, or the process is cancelled: the
\* publisher is gone with what it knew, and only a rerun goes on.
Stop(u) ==
  /\ Go(u, "idle")
  /\ announcing' = announcing \ {u}
  /\ index' = [index EXCEPT ![u] = 1]
  /\ planned' = [planned EXCEPT ![u] = {}]
  /\ sawTag' = [sawTag EXCEPT ![u] = None]
  /\ sawRelease' = sawRelease \ {u}
  /\ UNCHANGED <<npm, github>>

(* ---- planNpmAnnouncement ------------------------------------------------- *)

\* The release workflow starts from a pushed tag and checks that it names the
\* commit whose artifact it publishes.
Triggered(u) == u \in FromCi => tag = CommitOf[u]

\* Only a local run may repeat the announcement alone, from retained files.
AnnounceOnly(u) == IF u \in FromCi THEN {FALSE} ELSE BOOLEAN

\* publishNpmAndAnnounce. The planNpmAnnouncement of releaseLocally, before the
\* build, could only stop earlier.
Begin(u) ==
  /\ at[u] = "idle"
  /\ Triggered(u)
  /\ Go(u, "tag")
  /\ UNCHANGED <<npm, github, announcing, plan, saw>>

\* Tags are never moved: a tag elsewhere stops the publisher.
ReadTag(u) ==
  /\ at[u] = "tag"
  /\ IF tag \in {None, CommitOf[u]}
     THEN /\ sawTag' = [sawTag EXCEPT ![u] = tag]
          /\ Go(u, "release")
          /\ UNCHANGED <<npm, github, announcing, plan, sawRelease>>
     ELSE Stop(u)

StartCheck(u) ==
  /\ Go(u, "check")
  /\ index' = [index EXCEPT ![u] = 1]
  /\ planned' = [planned EXCEPT ![u] = {}]

\* A Release is accepted only together with the tag read before it. The first
\* plan leads to the packages (announceOnly skips their publication, not their
\* check), the second one to the tag.
ReadRelease(u, announceOnly) ==
  /\ at[u] = "release"
  /\ IF release # None /\ sawTag[u] # CommitOf[u]
     THEN Stop(u)
     ELSE /\ sawRelease' = IF release # None THEN sawRelease \union {u} ELSE sawRelease \ {u}
          /\ IF u \in announcing
             THEN Go(u, "ref") /\ UNCHANGED <<announcing, plan>>
             ELSE /\ announcing' = IF announceOnly THEN announcing \union {u} ELSE announcing
                  /\ StartCheck(u)
          /\ UNCHANGED <<npm, github, sawTag>>

(* ---- planNpmRelease and publishNpmRelease -------------------------------- *)

\* matchesPublished
Matches(u, k) == registry[k] = Bytes[u][k]

\* Fault: nobody looks whether all of them were published.
Announceable_Unchecked(u) == TRUE

\* The announcement goes on only if every package was published before.
Announceable(u) == planned[u] = Packages

\* Every package is compared before anything is written, one request each.
Check(u) ==
  LET k == index[u] IN
  /\ at[u] = "check"
  /\ k \in Packages
  /\ IF k \in visible /\ ~Matches(u, k)
     THEN Stop(u)
     ELSE /\ planned' = [planned EXCEPT ![u] = IF k \in visible THEN @ \union {k} ELSE @]
          /\ index' = [index EXCEPT ![u] = k + 1]
          /\ UNCHANGED <<npm, github, at, announcing, saw>>

Checked(u) ==
  /\ at[u] = "check"
  /\ index[u] = Size + 1
  /\ IF u \notin announcing
     THEN /\ Go(u, "publish")
          /\ index' = [index EXCEPT ![u] = 1]
          /\ UNCHANGED <<npm, github, announcing, planned, saw>>
     ELSE IF Announceable(u)
     THEN Go(u, "tag") /\ UNCHANGED <<npm, github, announcing, plan, saw>>
     ELSE Stop(u)

Skip(u) ==
  /\ at[u] = "publish"
  /\ index[u] \in planned[u]
  /\ index' = [index EXCEPT ![u] = @ + 1]
  /\ UNCHANGED <<npm, github, at, announcing, planned, saw>>

\* Fault: the next package is published without waiting for this one to show.
Publish_Unconfirmed(u) ==
  LET k == index[u] IN
  /\ at[u] = "publish"
  /\ k \in Packages \ planned[u]
  /\ IF registry[k] # None
     THEN Stop(u)
     ELSE /\ registry' = [registry EXCEPT ![k] = Bytes[u][k]]
          /\ index' = [index EXCEPT ![u] = @ + 1]
          /\ UNCHANGED <<visible, github, at, announcing, planned, saw>>

\* client.publish. npm refuses a version it already has, whatever its bytes and
\* whether or not it shows it yet.
Publish(u) ==
  LET k == index[u] IN
  /\ at[u] = "publish"
  /\ k \in Packages \ planned[u]
  /\ IF registry[k] # None
     THEN Stop(u)
     ELSE /\ registry' = [registry EXCEPT ![k] = Bytes[u][k]]
          /\ Go(u, "confirm")
          /\ UNCHANGED <<visible, github, announcing, plan, saw>>

\* client.confirm polls until the version shows; giving up is Cancel.
Confirm(u) ==
  LET k == index[u] IN
  /\ at[u] = "confirm"
  /\ k \in visible
  /\ IF Matches(u, k)
     THEN /\ Go(u, "publish")
          /\ index' = [index EXCEPT ![u] = k + 1]
          /\ UNCHANGED <<npm, github, announcing, planned, saw>>
     ELSE Stop(u)

\* publishNpmAnnouncement begins with a plan of its own.
Published(u) ==
  /\ at[u] = "publish"
  /\ index[u] = Size + 1
  /\ announcing' = announcing \union {u}
  /\ StartCheck(u)
  /\ UNCHANGED <<npm, github, saw>>

(* ---- publishNpmAnnouncement ---------------------------------------------- *)

\* POST git/refs, unless the plan saw the tag; GitHub refuses a tag that exists,
\* and the refusal is accepted only if the tag is on the same commit.
CreateTag(u) ==
  /\ at[u] = "ref"
  /\ IF sawTag[u] = None /\ tag \notin {None, CommitOf[u]}
     THEN Stop(u)
     ELSE /\ tag' = IF sawTag[u] = None THEN CommitOf[u] ELSE tag
          /\ Go(u, "verify")
          /\ UNCHANGED <<npm, release, announcing, plan, saw>>

VerifyTag(u) ==
  /\ at[u] = "verify"
  /\ IF tag = CommitOf[u]
     THEN Go(u, "announce") /\ UNCHANGED <<npm, github, announcing, plan, saw>>
     ELSE Stop(u)

\* PATCH of the Release the plan saw, or POST of a new one, which GitHub refuses
\* when another publisher was first.
Announce(u) ==
  /\ at[u] = "announce"
  /\ IF u \notin sawRelease /\ release # None
     THEN Stop(u)
     ELSE /\ release' = CommitOf[u]
          /\ Go(u, "last")
          /\ UNCHANGED <<npm, tag, announcing, plan, saw>>

\* The tag is read once more; then the run ends, well or with an error.
Finish(u) == at[u] = "last" /\ Stop(u)

\* A failed request, a confirmation given up after 121 attempts, SIGINT, or the
\* end of the process. What was written stays.
Cancel(u) == at[u] # "idle" /\ Stop(u)

(* ---- External ------------------------------------------------------------ *)

\* npm has scanned an accepted version, in whatever order.
Expose(k) ==
  /\ registry[k] # None
  /\ k \notin visible
  /\ visible' = visible \union {k}
  /\ UNCHANGED <<registry, github, at, announcing, plan, saw>>

\* Somebody pushes the version's tag, which is how the release workflow starts.
PushTag(c) ==
  /\ tag = None
  /\ tag' = c
  /\ UNCHANGED <<npm, release, at, announcing, plan, saw>>

PublisherStep(u) ==
  \/ Begin(u)
  \/ ReadTag(u)
  \/ \E announceOnly \in AnnounceOnly(u) : ReadRelease(u, announceOnly)
  \/ Check(u)
  \/ Checked(u)
  \/ Skip(u)
  \/ Publish(u)
  \/ Confirm(u)
  \/ Published(u)
  \/ CreateTag(u)
  \/ VerifyTag(u)
  \/ Announce(u)
  \/ Finish(u)
  \/ Cancel(u)

Next ==
  \/ \E u \in Publishers : PublisherStep(u)
  \/ \E k \in Packages : Expose(k)
  \/ \E c \in Commits : PushTag(c)

Spec == Init /\ [][Next]_vars

(* ---- Properties ------------------------------------------------------------ *)

\* Package k shows on npm with the bytes of publisher u.
Good(u, k) == k \in visible /\ Matches(u, k)


\* Whatever runs beside it and wherever it is cut, a package is given to npm only
\* when everything it depends on shows there, and all packages of the version
\* come from the files of one publisher: a user never installs a mixture, or a
\* package whose dependencies are missing (npm-release.mjs:68 and :86).
InstallableWhole ==
  \E u \in Publishers : \A k \in Packages :
    registry[k] # None => Matches(u, k) /\ \A j \in 1..(k - 1) : Good(u, j)

\* A version is announced only if all its packages show on npm with the bytes
\* verified for the commit that the Release names, and the tag is on that commit
\* (npm-announcement.mjs:46 and :55, docs/releases.md:213).
AnnouncedWhole ==
  release # None =>
    /\ tag = release
    /\ \E u \in Publishers :
         CommitOf[u] = release /\ \A k \in Packages : Good(u, k)
=============================================================================
