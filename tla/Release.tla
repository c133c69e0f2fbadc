------------------------------ MODULE Release ------------------------------
(***************************************************************************)
(* cargo run -p xtask -- ci (xtask/src/main.rs, .github/workflows): the    *)
(* program that tests once_cell under every toolchain it supports and      *)
(* releases it.  Several jobs run it at the same time, on the same or on   *)
(* different commits; any command of a job may fail, and a job that failed *)
(* is started again.  crates.io, git and rustup are external.              *)
(***************************************************************************)
CONSTANTS
  Commits,
  Jobs,
  VersionOf,  \* the version in the Cargo.toml of each commit
  Fresh,      \* the commits whose Cargo.lock.msrv is up to date
  Null        \* "no commit"

ASSUME CommitsAssumption ==
  Fresh \subseteq Commits /\ DOMAIN VersionOf = Commits /\ Null \notin Commits

VARIABLES
  job,        \* one run of the program for each job
  crates,     \* the commit that crates.io has under each version, or Null
  origin      \* the commit that is tagged with each version at GitHub, or Null

vars == <<job, crates, origin>>

Versions == {VersionOf[c] : c \in Commits}

(* The scopes of main(), in their order.                                   *)
After == [BUILD |-> "TEST", TEST |-> "TEST_BETA", TEST_BETA |-> "TEST_MSRV",
          TEST_MSRV |-> "TEST_MIRI", TEST_MIRI |-> "PUBLISH"]

(* The variables that the guards `let _e = ...` of a section set until the *)
(* section ends; the second _e shadows the first, and both live on.        *)
Guards(s) ==
  CASE s = "TEST_BETA" -> [RUSTUP_TOOLCHAIN |-> "beta", RUSTFLAGS |-> "-A unreachable_patterns"]
    [] s = "TEST_MSRV" -> [RUSTUP_TOOLCHAIN |-> "msrv"]
    [] s = "TEST_MIRI" -> [RUSTUP_TOOLCHAIN |-> "nightly"]
    [] OTHER -> [x \in {} |-> ""]

(* The environment when main() enters BUILD; the workflow sets RUSTFLAGS.  *)
Base == [RUSTUP_TOOLCHAIN |-> "stable", RUSTFLAGS |-> "-D warnings"]

Ended == {"green", "red"}

NoJob == [at |-> "red", env |-> Base, commit |-> Null, branch |-> "other", ci |-> FALSE,
          tags |-> {}, ran |-> {}, dry |-> TRUE]

Init ==
  /\ job = [j \in Jobs |-> NoJob]
  /\ crates = [v \in Versions |-> Null]
  /\ origin = [v \in Versions |-> Null]

(* An ended job says green or red, and what it was about.                  *)
Finish(j, at) ==
  job' = [job EXCEPT ![j] = [NoJob EXCEPT !.at = at, !.commit = job[j].commit,
                                          !.branch = job[j].branch, !.ci = job[j].ci]]

(* The workflow checks the commit out with the tags of that moment, or a   *)
(* developer runs the program, with no CI in the environment.              *)
Checkout(j) ==
  /\ job[j].at \in Ended
  /\ \E c \in Commits, ci \in BOOLEAN, branch \in {"master", "other"} :
       job' = [job EXCEPT ![j] =
                 [NoJob EXCEPT !.at = "BUILD", !.commit = c, !.ci = ci,
                               !.branch = branch, !.tags = {v \in Versions : origin[v] # Null}]]
  /\ UNCHANGED <<crates, origin>>

(* The mutant that writes `let _ = push_toolchain(..)`: the guards are     *)
(* dropped on the line that makes them.                                    *)
WrongEnter(env, s) == env

(* push_toolchain and push_env at the start of a section.                  *)
Enter(env, s) ==
  [x \in DOMAIN env |-> IF x \in DOMAIN Guards(s) THEN Guards(s)[x] ELSE env[x]]

(* The end of a section drops its guards, each of which puts back what it  *)
(* found.                                                                  *)
Leave(inside, outside) == outside

(* A section whose commands all succeed.  TEST_MSRV copies Cargo.lock.msrv *)
(* over Cargo.lock, and `cargo update --locked` refuses it out of date.    *)
Test(j) ==
  LET s == job[j].at
      env == Enter(job[j].env, s)
  IN  /\ s \in DOMAIN After
      /\ s = "TEST_MSRV" => job[j].commit \in Fresh
      /\ job' = [job EXCEPT ![j].at = After[s],
                            ![j].env = Leave(env, job[j].env),
                            ![j].ran = @ \cup {<<s, env.RUSTUP_TOOLCHAIN>>}]
      /\ UNCHANGED <<crates, origin>>

(* A command fails, or the job is cancelled: `?` leaves main().  A stale   *)
(* Cargo.lock.msrv is rewritten, but the error is returned all the same.   *)
Fail(j) ==
  /\ job[j].at \notin Ended
  /\ Finish(j, "red")
  /\ UNCHANGED <<crates, origin>>

(* sh.var("CI").is_err() || has_tag || current_branch != "master"          *)
DryRun(j) ==
  \/ ~ job[j].ci
  \/ VersionOf[job[j].commit] \in job[j].tags
  \/ job[j].branch # "master"

Decide(j) ==
  /\ job[j].at = "PUBLISH"
  /\ job' = [job EXCEPT ![j].at = "cargo publish", ![j].dry = DryRun(j)]
  /\ UNCHANGED <<crates, origin>>

(* The mutant of CargoPublish without the `?`: the job goes on to the tag  *)
(* when crates.io has refused the version.                                 *)
WrongCargoPublish(j) ==
  LET v == VersionOf[job[j].commit]
  IN  /\ job[j].at = "cargo publish"
      /\ \/ job[j].dry /\ Finish(j, "green") /\ UNCHANGED crates
         \/ ~ job[j].dry /\ job' = [job EXCEPT ![j].at = "git tag"]
              /\ crates' = [crates EXCEPT ![v] = IF @ = Null THEN job[j].commit ELSE @]
      /\ UNCHANGED origin

(* crates.io takes a version once, and its answer can be lost on the way   *)
(* back.  With --dry-run nothing is uploaded, and git is not run.          *)
CargoPublish(j) ==
  LET v == VersionOf[job[j].commit]
  IN  /\ job[j].at = "cargo publish"
      /\ \/ job[j].dry /\ Finish(j, "green") /\ UNCHANGED crates
         \/ /\ ~ job[j].dry /\ crates[v] = Null
            /\ crates' = [crates EXCEPT ![v] = job[j].commit]
            /\ job' = [job EXCEPT ![j].at = "git tag"] \/ Finish(j, "red")
      /\ UNCHANGED origin

(* git tag: there is no such tag here, or this had been a dry run.         *)
GitTag(j) ==
  /\ job[j].at = "git tag"
  /\ VersionOf[job[j].commit] \notin job[j].tags
  /\ job' = [job EXCEPT ![j].at = "git push", ![j].tags = @ \cup {VersionOf[job[j].commit]}]
  /\ UNCHANGED <<crates, origin>>

(* git push --tags refuses to move a tag that is there; and again the      *)
(* answer may be lost.                                                     *)
GitPush(j) ==
  LET v == VersionOf[job[j].commit]
  IN  /\ job[j].at = "git push"
      /\ origin[v] \in {Null, job[j].commit}
      /\ origin' = [origin EXCEPT ![v] = job[j].commit]
      /\ Finish(j, "green") \/ Finish(j, "red")
      /\ UNCHANGED crates

Next ==
  \E j \in Jobs :
    Checkout(j) \/ Test(j) \/ Fail(j) \/ Decide(j) \/ CargoPublish(j) \/ GitTag(j) \/ GitPush(j)

Spec == Init /\ [][Next]_vars

-----------------------------------------------------------------------------
(* What a release must have passed: every section under its own toolchain. *)
Suites == {<<"BUILD", "stable">>, <<"TEST", "stable">>, <<"TEST_BETA", "beta">>,
           <<"TEST_MSRV", "msrv">>, <<"TEST_MIRI", "nightly">>}

(* Only a commit of master is uploaded, by a job that ran every suite on   *)
(* it under the right toolchain, that is back at stable and at the         *)
(* workflow's own flags, and whose Cargo.lock.msrv was up to date.         *)
TestedBeforePublished ==
  [][\A v \in Versions :
       crates'[v] # crates[v] =>
         \E j \in Jobs :
           /\ crates'[v] = job[j].commit /\ VersionOf[job[j].commit] = v
           /\ job[j].ci /\ job[j].branch = "master"
           /\ job[j].ran = Suites /\ job[j].commit \in Fresh
           /\ job[j].env.RUSTUP_TOOLCHAIN = "stable"
           /\ job[j].env.RUSTFLAGS = "-D warnings"]_vars

(* A tag at GitHub names the commit that crates.io has: with several jobs  *)
(* on commits of one version, the one that tags is the one that published. *)
TagIsOfPublished ==
  \A v \in Versions : origin[v] # Null => crates[v] = origin[v]

(* A green job on master has released its version, or found it released:   *)
(* the tag, pushed last, stands for both, and a job that published and     *)
(* could not tag leaves every later one red.                               *)
GreenMeansReleased ==
  \A j \in Jobs :
    job[j].at = "green" /\ job[j].ci /\ job[j].branch = "master" =>
      LET v == VersionOf[job[j].commit]
      IN  crates[v] # Null /\ origin[v] = crates[v]

=============================================================================
