--------------------------- MODULE ReleaseProofs ---------------------------
(***************************************************************************)
(* What a release was tested with, and what a tag and a green job stand    *)
(* for, with any number of jobs and commits.  None of it is inductive as   *)
(* it stands: it has to be known what a job in the middle of a release     *)
(* has done to crates.io, and that the tags it was checked out with are    *)
(* still there.                                                            *)
(***************************************************************************)
EXTENDS Release, TLAPS

Steps == DOMAIN After \cup {"PUBLISH", "cargo publish", "git tag", "git push"} \cup Ended

(* Between two sections the environment is main()'s own.                   *)
JobRecords ==
  [at : Steps, env : {Base}, commit : Commits \cup {Null}, branch : {"master", "other"},
   ci : BOOLEAN, tags : SUBSET Versions, ran : SUBSET Suites, dry : BOOLEAN]

TypeOK ==
  /\ job \in [Jobs -> JobRecords]
  /\ crates \in [Versions -> Commits \cup {Null}]
  /\ origin \in [Versions -> Commits \cup {Null}]

(* The suites that a job has passed when it stands before s.               *)
Passed(s) ==
  CASE s \in Ended \cup {"BUILD"} -> {}
    [] s = "TEST" -> {<<"BUILD", "stable">>}
    [] s = "TEST_BETA" -> {<<"BUILD", "stable">>, <<"TEST", "stable">>}
    [] s = "TEST_MSRV" -> {<<"BUILD", "stable">>, <<"TEST", "stable">>, <<"TEST_BETA", "beta">>}
    [] s = "TEST_MIRI" -> Suites \ {<<"TEST_MIRI", "nightly">>}
    [] OTHER -> Suites

(* How far a job has come with its tests.                                  *)
Tested(j) ==
  /\ job[j].ran = Passed(job[j].at)
  /\ job[j].at # "red" => job[j].commit \in Commits
  /\ job[j].at \in {"TEST_MIRI", "PUBLISH", "cargo publish", "git tag", "git push"} =>
       job[j].commit \in Fresh

(* How far it has come with its release.                                   *)
Releasing(j) ==
  LET v == VersionOf[job[j].commit]
  IN  /\ job[j].at = "cargo publish" => (job[j].dry <=> DryRun(j))
      /\ job[j].at \in {"git tag", "git push"} => crates[v] = job[j].commit
      /\ \A w \in job[j].tags :
           origin[w] # Null \/ (job[j].at = "git push" /\ w = v)

Inv ==
  /\ TypeOK
  /\ \A j \in Jobs : Tested(j) /\ Releasing(j)
  /\ TagIsOfPublished
  /\ GreenMeansReleased

-----------------------------------------------------------------------------
(* A section's suite runs under the toolchain that the section has pushed. *)
LEMMA SectionToolchain ==
  ASSUME NEW s \in DOMAIN After
  PROVE  Passed(After[s]) = Passed(s) \cup {<<s, Enter(Base, s).RUSTUP_TOOLCHAIN>>}
<1>1. s \in {"BUILD", "TEST", "TEST_BETA", "TEST_MSRV", "TEST_MIRI"}
  BY DEF After
<1>2. CASE s = "BUILD"
  BY <1>2 DEF Passed, After, Enter, Guards, Base, Ended
<1>3. CASE s = "TEST"
  BY <1>3 DEF Passed, After, Enter, Guards, Base, Ended
<1>4. CASE s = "TEST_BETA"
  BY <1>4 DEF Passed, After, Enter, Guards, Base, Ended, Suites
<1>5. CASE s = "TEST_MSRV"
  BY <1>5 DEF Passed, After, Enter, Guards, Base, Ended, Suites
<1>6. CASE s = "TEST_MIRI"
  BY <1>6 DEF Passed, After, Enter, Guards, Base, Ended, Suites
<1> QED BY <1>1, <1>2, <1>3, <1>4, <1>5, <1>6

(* No job has begun.                                                       *)
LEMMA InvInit == Init => Inv
<1> SUFFICES ASSUME Init PROVE Inv
  OBVIOUS
<1>1. TypeOK
  BY DEF Init, TypeOK, JobRecords, Steps, Ended, NoJob
<1>2. ASSUME NEW j \in Jobs PROVE Tested(j) /\ Releasing(j)
  BY <1>2 DEF Init, NoJob, Tested, Passed, Ended, Releasing
<1>3. TagIsOfPublished /\ GreenMeansReleased
  BY DEF Init, NoJob, TagIsOfPublished, GreenMeansReleased
<1> QED BY <1>1, <1>2, <1>3 DEF Inv

(* What an action of job j leaves alone: the other jobs, which stay right  *)
(* when no version leaves crates.io and no tag leaves GitHub.              *)
Keeps(j) ==
  /\ \A i \in Jobs \ {j} : job'[i] = job[i]
  /\ \A v \in Versions :
       /\ crates[v] # Null => crates'[v] = crates[v]
       /\ origin[v] # Null => origin'[v] = origin[v]

LEMMA OthersStayRight ==
  ASSUME Inv, TypeOK', NEW j \in Jobs, Keeps(j), NEW i \in Jobs \ {j}
  PROVE  /\ (Tested(i) /\ Releasing(i))'
         /\ job'[i].at = "green" /\ job'[i].ci /\ job'[i].branch = "master" =>
              LET v == VersionOf[job'[i].commit]
              IN  crates'[v] # Null /\ origin'[v] = crates'[v]
<1>1. job'[i] = job[i] /\ Tested(i) /\ Releasing(i) /\ job[i] \in JobRecords
  BY DEF Keeps, Inv, TypeOK
<1> DEFINE v == VersionOf[job[i].commit]
<1>2. Tested(i)'
  BY <1>1 DEF Tested
<1>3. job[i].commit \in Commits => v \in Versions
  BY DEF Versions
<1>4. Releasing(i)'
  <2>1. job'[i].at \in {"git tag", "git push"} => crates'[v] = job'[i].commit
    <3> SUFFICES ASSUME job[i].at \in {"git tag", "git push"}
                 PROVE  crates'[v] = job[i].commit
      BY <1>1
    <3>1. crates[v] = job[i].commit
      BY <1>1 DEF Releasing
    <3>2. job[i].commit \in Commits
      BY <1>1 DEF Tested
    <3> QED BY <1>3, <3>1, <3>2, CommitsAssumption DEF Keeps
  <2>2. \A w \in job'[i].tags : origin'[w] # Null \/ (job'[i].at = "git push" /\ w = v)
    <3>1. job[i].tags \subseteq Versions
      BY <1>1 DEF JobRecords
    <3>2. \A w \in job[i].tags : origin[w] # Null \/ (job[i].at = "git push" /\ w = v)
      BY <1>1 DEF Releasing
    <3> QED BY <1>1, <3>1, <3>2 DEF Keeps
  <2> QED BY <1>1, <2>1, <2>2 DEF Releasing, DryRun
<1>5. ASSUME job[i].at = "green", job[i].ci, job[i].branch = "master"
      PROVE  crates'[v] # Null /\ origin'[v] = crates'[v]
  <2>1. crates[v] # Null /\ origin[v] = crates[v]
    BY <1>5 DEF Inv, GreenMeansReleased
  <2>2. v \in Versions
    BY <1>1, <1>3, <1>5 DEF Tested
  <2> QED BY <2>1, <2>2 DEF Keeps
<1> QED BY <1>1, <1>2, <1>4, <1>5

(* An action of job j that keeps Inv for j, and takes nothing back.        *)
LEMMA StepOfOne ==
  ASSUME Inv, TypeOK', NEW j \in Jobs, Keeps(j), (Tested(j) /\ Releasing(j))', TagIsOfPublished',
         job'[j].at = "green" /\ job'[j].ci /\ job'[j].branch = "master" =>
           LET v == VersionOf[job'[j].commit]
           IN  crates'[v] # Null /\ origin'[v] = crates'[v]
  PROVE  Inv'
BY OthersStayRight DEF Inv, GreenMeansReleased

LEMMA CheckoutKeepsInv ==
  ASSUME Inv, NEW j \in Jobs, Checkout(j)
  PROVE  Inv'
<1>1. PICK c \in Commits, ci \in BOOLEAN, branch \in {"master", "other"} :
        job' = [job EXCEPT ![j] =
                 [NoJob EXCEPT !.at = "BUILD", !.commit = c, !.ci = ci,
                               !.branch = branch, !.tags = {v \in Versions : origin[v] # Null}]]
  BY DEF Checkout
<1>2. job'[j] = [NoJob EXCEPT !.at = "BUILD", !.commit = c, !.ci = ci,
                              !.branch = branch, !.tags = {v \in Versions : origin[v] # Null}]
  BY <1>1 DEF Inv, TypeOK
<1>3. job'[j] \in JobRecords
  BY <1>2 DEF NoJob, JobRecords, Steps, After
<1>4. TypeOK' /\ Keeps(j) /\ TagIsOfPublished'
  BY <1>1, <1>2, <1>3 DEF Checkout, Inv, TypeOK, Keeps, TagIsOfPublished
<1>5. (Tested(j) /\ Releasing(j))'
  <2>1. /\ job'[j].at = "BUILD" /\ job'[j].commit = c /\ job'[j].ran = {}
        /\ job'[j].tags = {v \in Versions : origin[v] # Null}
    BY <1>2 DEF NoJob
  <2>2. origin' = origin
    BY DEF Checkout
  <2>3. Tested(j)'
    BY <2>1 DEF Tested, Passed, Ended
  <2>4. \A w \in job'[j].tags : origin'[w] # Null
    BY <2>1, <2>2
  <2>5. Releasing(j)'
    BY <2>1, <2>4 DEF Releasing
  <2> QED BY <2>3, <2>5
<1>6. job'[j].at # "green"
  BY <1>2 DEF NoJob
<1> QED BY <1>4, <1>5, <1>6, StepOfOne

LEMMA TestKeepsInv ==
  ASSUME Inv, NEW j \in Jobs, Test(j)
  PROVE  Inv'
<1> DEFINE s == job[j].at
<1>1. /\ s \in DOMAIN After
      /\ s = "TEST_MSRV" => job[j].commit \in Fresh
      /\ job' = [job EXCEPT ![j].at = After[s], ![j].env = job[j].env,
                            ![j].ran = @ \cup {<<s, Enter(job[j].env, s).RUSTUP_TOOLCHAIN>>}]
      /\ UNCHANGED <<crates, origin>>
  BY DEF Test, Leave
<1>2. job \in [Jobs -> JobRecords] /\ job[j] \in JobRecords /\ Tested(j) /\ Releasing(j)
  BY DEF Inv, TypeOK
<1>3. job[j].env = Base
  BY <1>2 DEF JobRecords
<1>4. job'[j] = [job[j] EXCEPT !.at = After[s], !.ran = Passed(After[s])]
  BY <1>1, <1>2, <1>3, SectionToolchain DEF Tested, JobRecords
<1>5. Passed(After[s]) \subseteq Suites /\ After[s] \in DOMAIN After \cup {"PUBLISH"}
  BY <1>1 DEF After, Passed, Suites, Ended
<1>6. job'[j] \in JobRecords
  BY <1>2, <1>4, <1>5 DEF JobRecords, Steps
<1>7. TypeOK' /\ Keeps(j) /\ TagIsOfPublished'
  BY <1>1, <1>2, <1>6 DEF Inv, TypeOK, Keeps, TagIsOfPublished
<1>8. Tested(j)'
  <2>1. /\ job'[j].at = After[s] /\ job'[j].ran = Passed(After[s])
        /\ job'[j].commit = job[j].commit
    BY <1>2, <1>4 DEF JobRecords
  <2>2. s \in {"TEST_MSRV", "TEST_MIRI"} => job[j].commit \in Fresh
    BY <1>1, <1>2 DEF Tested
  <2>3. After[s] \in {"TEST_MIRI", "PUBLISH"} => s \in {"TEST_MSRV", "TEST_MIRI"}
    BY <1>1 DEF After
  <2>4. job[j].commit \in Commits
    BY <1>1, <1>2 DEF Tested, After
  <2> QED BY <1>5, <2>1, <2>2, <2>3, <2>4 DEF Tested, After
<1>9. Releasing(j)'
  BY <1>1, <1>2, <1>4, <1>5 DEF Releasing, After, JobRecords
<1>10. job'[j].at # "green"
  BY <1>4, <1>5, <1>2 DEF JobRecords, After
<1> QED BY <1>7, <1>8, <1>9, <1>10, StepOfOne

(* What Finish leaves of a job.                                            *)
LEMMA FinishKeepsTypes ==
  ASSUME Inv, NEW j \in Jobs, NEW at \in Ended, Finish(j, at),
         at = "green" => job[j].commit \in Commits
  PROVE  /\ job' \in [Jobs -> JobRecords]
         /\ \A i \in Jobs \ {j} : job'[i] = job[i]
         /\ (Tested(j) /\ Releasing(j))'
         /\ job'[j].at = at /\ job'[j].commit = job[j].commit
         /\ job'[j].ci = job[j].ci /\ job'[j].branch = job[j].branch
<1>1. job \in [Jobs -> JobRecords] /\ job[j] \in JobRecords
  BY DEF Inv, TypeOK
<1>2. job'[j] = [NoJob EXCEPT !.at = at, !.commit = job[j].commit,
                              !.branch = job[j].branch, !.ci = job[j].ci]
  BY <1>1 DEF Finish
<1>3. job'[j] \in JobRecords
  BY <1>1, <1>2 DEF NoJob, JobRecords, Steps
<1>4. /\ job'[j].at = at /\ job'[j].commit = job[j].commit
      /\ job'[j].ci = job[j].ci /\ job'[j].branch = job[j].branch
      /\ job'[j].ran = {} /\ job'[j].tags = {}
  BY <1>2 DEF NoJob
<1>5. Tested(j)'
  BY <1>4 DEF Tested, Passed, Ended
<1>6. Releasing(j)'
  BY <1>4 DEF Releasing, Ended
<1> QED BY <1>1, <1>3, <1>4, <1>5, <1>6 DEF Finish

LEMMA FailKeepsInv ==
  ASSUME Inv, NEW j \in Jobs, Fail(j)
  PROVE  Inv'
<1>1. Finish(j, "red") /\ UNCHANGED <<crates, origin>> /\ "red" \in Ended
  BY DEF Fail, Ended
<1>2. /\ job' \in [Jobs -> JobRecords]
      /\ \A i \in Jobs \ {j} : job'[i] = job[i]
      /\ (Tested(j) /\ Releasing(j))' /\ job'[j].at = "red"
  BY <1>1, FinishKeepsTypes
<1>3. TypeOK' /\ Keeps(j) /\ TagIsOfPublished'
  BY <1>1, <1>2 DEF Inv, TypeOK, Keeps, TagIsOfPublished
<1> QED BY <1>2, <1>3, StepOfOne

LEMMA DecideKeepsInv ==
  ASSUME Inv, NEW j \in Jobs, Decide(j)
  PROVE  Inv'
<1>1. /\ job[j].at = "PUBLISH"
      /\ job' = [job EXCEPT ![j].at = "cargo publish", ![j].dry = DryRun(j)]
      /\ UNCHANGED <<crates, origin>>
  BY DEF Decide
<1>2. job \in [Jobs -> JobRecords] /\ job[j] \in JobRecords /\ Tested(j) /\ Releasing(j)
  BY DEF Inv, TypeOK
<1>3. DryRun(j) \in BOOLEAN
  BY <1>2 DEF DryRun, JobRecords
<1>4. job'[j] = [job[j] EXCEPT !.at = "cargo publish", !.dry = DryRun(j)]
  BY <1>1, <1>2
<1>5. job'[j] \in JobRecords
  BY <1>2, <1>3, <1>4 DEF JobRecords, Steps
<1>6. TypeOK' /\ Keeps(j) /\ TagIsOfPublished'
  BY <1>1, <1>2, <1>5 DEF Inv, TypeOK, Keeps, TagIsOfPublished
<1>7. (Tested(j) /\ Releasing(j))' /\ job'[j].at # "green"
  <2>1. /\ job'[j].at = "cargo publish" /\ job'[j].dry = DryRun(j)
        /\ job'[j].commit = job[j].commit /\ job'[j].ran = job[j].ran
        /\ job'[j].tags = job[j].tags /\ job'[j].ci = job[j].ci
        /\ job'[j].branch = job[j].branch
    BY <1>2, <1>4 DEF JobRecords
  <2>2. Tested(j)'
    BY <1>1, <1>2, <2>1 DEF Tested, Passed, Ended
  <2>3. DryRun(j)' = DryRun(j)
    BY <2>1 DEF DryRun
  <2>4. \A w \in job'[j].tags : origin'[w] # Null
    BY <1>1, <1>2, <2>1 DEF Releasing
  <2>5. Releasing(j)'
    BY <2>1, <2>3, <2>4 DEF Releasing
  <2> QED BY <2>1, <2>2, <2>5
<1> QED BY <1>6, <1>7, StepOfOne

(* A dry run that ends green on master saw the tag, which is pushed last.  *)
LEMMA CargoPublishKeepsInv ==
  ASSUME Inv, NEW j \in Jobs, CargoPublish(j)
  PROVE  Inv'
<1> DEFINE v == VersionOf[job[j].commit]
<1>1. job \in [Jobs -> JobRecords] /\ job[j] \in JobRecords /\ Tested(j) /\ Releasing(j)
  BY DEF Inv, TypeOK
<1>2. job[j].at = "cargo publish" /\ UNCHANGED origin
  BY DEF CargoPublish
<1>3. job[j].commit \in Commits /\ v \in Versions /\ job[j].commit # Null
  BY <1>1, <1>2, CommitsAssumption DEF Tested, Versions
<1>4. CASE job[j].dry /\ Finish(j, "green") /\ UNCHANGED crates
  <2>1. /\ job' \in [Jobs -> JobRecords]
        /\ \A i \in Jobs \ {j} : job'[i] = job[i]
        /\ (Tested(j) /\ Releasing(j))'
        /\ job'[j].commit = job[j].commit
        /\ job'[j].ci = job[j].ci /\ job'[j].branch = job[j].branch
    BY <1>3, <1>4, FinishKeepsTypes DEF Ended
  <2>2. TypeOK' /\ Keeps(j) /\ TagIsOfPublished'
    BY <1>2, <1>4, <2>1 DEF Inv, TypeOK, Keeps, TagIsOfPublished
  <2>3. ASSUME job[j].ci, job[j].branch = "master"
        PROVE  crates'[v] # Null /\ origin'[v] = crates'[v]
    <3>1. v \in job[j].tags
      BY <1>1, <1>2, <1>4, <2>3 DEF Releasing, DryRun
    <3>2. origin[v] # Null
      BY <1>1, <1>2, <3>1 DEF Releasing
    <3> QED BY <1>2, <1>3, <1>4, <3>2 DEF Inv, TagIsOfPublished
  <2> QED BY <2>1, <2>2, <2>3, StepOfOne
<1>5. CASE /\ ~ job[j].dry /\ crates[v] = Null
           /\ crates' = [crates EXCEPT ![v] = job[j].commit]
           /\ job' = [job EXCEPT ![j].at = "git tag"] \/ Finish(j, "red")
  <2>1. crates' \in [Versions -> Commits \cup {Null}] /\ crates'[v] = job[j].commit
    BY <1>3, <1>5 DEF Inv, TypeOK
  <2>2. /\ job' \in [Jobs -> JobRecords]
        /\ \A i \in Jobs \ {j} : job'[i] = job[i]
        /\ (Tested(j) /\ Releasing(j))' /\ job'[j].at # "green"
    <3>1. CASE Finish(j, "red")
      <4> DEFINE at == "red"
      <4>1. at \in Ended /\ at # "green"
        BY DEF Ended
      <4> QED BY <3>1, <4>1, FinishKeepsTypes
    <3>2. CASE job' = [job EXCEPT ![j].at = "git tag"]
      <4>1. job'[j] = [job[j] EXCEPT !.at = "git tag"]
        BY <1>1, <3>2
      <4>2. job'[j] \in JobRecords
        BY <1>1, <4>1 DEF JobRecords, Steps
      <4>3. /\ job'[j].at = "git tag" /\ job'[j].commit = job[j].commit
            /\ job'[j].ran = job[j].ran /\ job'[j].tags = job[j].tags
        BY <1>1, <4>1 DEF JobRecords
      <4>4. Tested(j)'
        BY <1>1, <1>2, <4>3 DEF Tested, Passed, Ended
      <4>5. Releasing(j)'
        BY <1>1, <1>2, <2>1, <4>3 DEF Releasing
      <4> QED BY <1>1, <3>2, <4>2, <4>3, <4>4, <4>5
    <3> QED BY <1>5, <3>1, <3>2
  <2>3. Keeps(j)
    BY <1>2, <1>3, <1>5, <2>2 DEF Inv, TypeOK, Keeps
  <2>4. TypeOK' /\ TagIsOfPublished'
    BY <1>2, <1>3, <1>5, <2>1, <2>2 DEF Inv, TypeOK, TagIsOfPublished
  <2> QED BY <2>2, <2>3, <2>4, StepOfOne
<1> QED BY <1>4, <1>5 DEF CargoPublish

LEMMA GitTagKeepsInv ==
  ASSUME Inv, NEW j \in Jobs, GitTag(j)
  PROVE  Inv'
<1> DEFINE v == VersionOf[job[j].commit]
<1>1. job \in [Jobs -> JobRecords] /\ job[j] \in JobRecords /\ Tested(j) /\ Releasing(j)
  BY DEF Inv, TypeOK
<1>2. /\ job[j].at = "git tag" /\ UNCHANGED <<crates, origin>>
      /\ job' = [job EXCEPT ![j].at = "git push", ![j].tags = @ \cup {v}]
  BY DEF GitTag
<1>3. v \in Versions
  BY <1>1, <1>2 DEF Tested, Versions
<1>4. job'[j] = [job[j] EXCEPT !.at = "git push", !.tags = @ \cup {v}]
  BY <1>1, <1>2
<1>5. job'[j] \in JobRecords
  <2>1. job[j].tags \cup {v} \subseteq Versions
    BY <1>1, <1>3 DEF JobRecords
  <2> QED BY <1>1, <1>4, <2>1 DEF JobRecords, Steps
<1>6. TypeOK' /\ Keeps(j) /\ TagIsOfPublished'
  BY <1>1, <1>2, <1>5 DEF Inv, TypeOK, Keeps, TagIsOfPublished
<1>7. /\ job'[j].at = "git push" /\ job'[j].commit = job[j].commit
      /\ job'[j].ran = job[j].ran /\ job'[j].tags = job[j].tags \cup {v}
  BY <1>1, <1>4 DEF JobRecords
<1>8. Tested(j)'
  BY <1>1, <1>2, <1>7 DEF Tested, Passed, Ended
<1>9. Releasing(j)'
  <2>1. \A w \in job'[j].tags : origin'[w] # Null \/ w = v
    BY <1>1, <1>2, <1>7 DEF Releasing
  <2>2. crates'[v] = job'[j].commit
    BY <1>1, <1>2, <1>7 DEF Releasing
  <2> QED BY <1>7, <2>1, <2>2 DEF Releasing
<1> QED BY <1>6, <1>7, <1>8, <1>9, StepOfOne

LEMMA GitPushKeepsInv ==
  ASSUME Inv, NEW j \in Jobs, GitPush(j)
  PROVE  Inv'
<1> DEFINE v == VersionOf[job[j].commit]
<1>1. job \in [Jobs -> JobRecords] /\ job[j] \in JobRecords /\ Tested(j) /\ Releasing(j)
  BY DEF Inv, TypeOK
<1>2. /\ job[j].at = "git push" /\ UNCHANGED crates
      /\ origin[v] \in {Null, job[j].commit}
      /\ origin' = [origin EXCEPT ![v] = job[j].commit]
  BY DEF GitPush
<1>3. PICK at \in Ended : Finish(j, at)
  BY DEF GitPush, Ended
<1>4. job[j].commit \in Commits /\ v \in Versions /\ job[j].commit # Null
  BY <1>1, <1>2, CommitsAssumption DEF Tested, Versions
<1>5. /\ job' \in [Jobs -> JobRecords]
      /\ \A i \in Jobs \ {j} : job'[i] = job[i]
      /\ (Tested(j) /\ Releasing(j))' /\ job'[j].commit = job[j].commit
  BY <1>3, <1>4, FinishKeepsTypes
<1>6. /\ origin' \in [Versions -> Commits \cup {Null}]
      /\ origin'[v] = job[j].commit
      /\ \A w \in Versions \ {v} : origin'[w] = origin[w]
  BY <1>2, <1>4 DEF Inv, TypeOK
<1>7. crates[v] = job[j].commit
  BY <1>1, <1>2 DEF Releasing
<1>8. TypeOK' /\ TagIsOfPublished'
  BY <1>2, <1>5, <1>6, <1>7 DEF Inv, TypeOK, TagIsOfPublished
<1>9. Keeps(j)
  BY <1>2, <1>5, <1>6 DEF Keeps
<1> QED BY <1>2, <1>4, <1>5, <1>6, <1>7, <1>8, <1>9, StepOfOne

LEMMA InvNext == Inv /\ [Next]_vars => Inv'
<1> SUFFICES ASSUME Inv, [Next]_vars PROVE Inv'
  OBVIOUS
<1>1. CASE UNCHANGED vars
  BY <1>1 DEF vars, Inv, TypeOK, Tested, Releasing, DryRun, TagIsOfPublished, GreenMeansReleased
<1>2. CASE Next
  <2>1. PICK j \in Jobs : \/ Checkout(j) \/ Test(j) \/ Fail(j) \/ Decide(j)
                         \/ CargoPublish(j) \/ GitTag(j) \/ GitPush(j)
    BY <1>2 DEF Next
  <2> QED BY <2>1, CheckoutKeepsInv, TestKeepsInv, FailKeepsInv, DecideKeepsInv,
             CargoPublishKeepsInv, GitTagKeepsInv, GitPushKeepsInv
<1> QED BY <1>1, <1>2

LEMMA AlwaysInv == Spec => []Inv
BY InvInit, InvNext, PTL DEF Spec

-----------------------------------------------------------------------------
(* The tag of a version is on the commit that crates.io has under it.      *)
THEOREM TagsAreOfPublished == Spec => []TagIsOfPublished
<1>1. Inv => TagIsOfPublished
  BY DEF Inv
<1> QED BY <1>1, AlwaysInv, PTL

(* A green job on master has released its version or found it released.    *)
THEOREM GreenIsReleased == Spec => []GreenMeansReleased
<1>1. Inv => GreenMeansReleased
  BY DEF Inv
<1> QED BY <1>1, AlwaysInv, PTL

(* What is uploaded is a commit of master that passed every suite, each    *)
(* under its toolchain, by a job that is back in its own environment.      *)
THEOREM PublishedIsTested == Spec => TestedBeforePublished
<1> DEFINE Uploads ==
      \A v \in Versions :
        crates'[v] # crates[v] =>
          \E j \in Jobs :
            /\ crates'[v] = job[j].commit /\ VersionOf[job[j].commit] = v
            /\ job[j].ci /\ job[j].branch = "master"
            /\ job[j].ran = Suites /\ job[j].commit \in Fresh
            /\ job[j].env.RUSTUP_TOOLCHAIN = "stable"
            /\ job[j].env.RUSTFLAGS = "-D warnings"
<1>1. Inv /\ [Next]_vars => [Uploads]_vars
  <2> SUFFICES ASSUME Inv, Next, NEW v \in Versions, crates'[v] # crates[v]
               PROVE  \E j \in Jobs :
                        /\ crates'[v] = job[j].commit /\ VersionOf[job[j].commit] = v
                        /\ job[j].ci /\ job[j].branch = "master"
                        /\ job[j].ran = Suites /\ job[j].commit \in Fresh
                        /\ job[j].env.RUSTUP_TOOLCHAIN = "stable"
                        /\ job[j].env.RUSTFLAGS = "-D warnings"
    OBVIOUS
  <2>1. PICK j \in Jobs : CargoPublish(j) /\ ~ job[j].dry
                         /\ crates' = [crates EXCEPT ![VersionOf[job[j].commit]] = job[j].commit]
    BY DEF Next, Checkout, Test, Fail, Decide, CargoPublish, GitTag, GitPush
  <2>2. job[j] \in JobRecords /\ Tested(j) /\ Releasing(j) /\ job[j].at = "cargo publish"
    BY <2>1 DEF Inv, TypeOK, CargoPublish
  <2>3. crates'[v] = job[j].commit /\ VersionOf[job[j].commit] = v
    BY <2>1 DEF Inv, TypeOK
  <2>4. job[j].ci /\ job[j].branch = "master"
    BY <2>1, <2>2 DEF Releasing, DryRun, JobRecords
  <2>5. job[j].ran = Suites /\ job[j].commit \in Fresh
    BY <2>2 DEF Tested, Passed, Ended
  <2>6. job[j].env = Base
    BY <2>2 DEF JobRecords
  <2>7. job[j].env.RUSTUP_TOOLCHAIN = "stable" /\ job[j].env.RUSTFLAGS = "-D warnings"
    <3>1. Base.RUSTUP_TOOLCHAIN = "stable" /\ Base.RUSTFLAGS = "-D warnings"
      BY DEF Base
    <3> QED BY <2>6, <3>1
  <2> QED BY <2>3, <2>4, <2>5, <2>7
<1> QED BY <1>1, AlwaysInv, PTL DEF Spec, TestedBeforePublished

=============================================================================
