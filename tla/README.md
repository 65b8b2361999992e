# A verification of the agentic protocol engine

TLA+ modules, TLC runs and TLAPS proofs for the engine in
`.github/agent-factory/engine/` and the workflows that drive it. Paths below
are relative to the root of the repository; `engine/` stands for
`.github/agent-factory/engine/`.

The engine runs *protocols*: trees of agents, fan-outs, joins, gates and merges
written in `protocol.json`. It has no server. Its memory is a few YAML files per
instance on the orphan branch `agentic-state`; its processes are workflow runs
that clone the branch, edit the clone, push it back and send a
`repository_dispatch` that starts the next run. What can go wrong is therefore
what goes wrong in any distributed system: lost updates, lost wake-ups,
decisions taken on old snapshots, messages delivered twice, processes that die
between two steps. Those are what the models are about.

## 1. Inventory

| Component | State it keeps | Operations | Hard behaviours | What makes it correct |
|---|---|---|---|---|
| **State branch** (`engine/lib.py` `state_checkout`, `cas_push`) | the branch on origin; each job's clone and commit | clone or create the branch; commit everything, push fast-forward, rebase, give up after 5 rejections | several jobs push on one tip; two jobs create the branch; a runner dies between git commands | no lost update; success means written; a conflict or exhaustion has a real cause; snapshot isolation |
| **Fan-out and join** (`engine/advance.py`, `engine/join.py`, `protocol-join.yml`) | the legs' files, `joined`, the join jobs of a group | retry loop, terminal leg, `protocol-join`, evaluation on a clone | joins are coalesced by the concurrency group; a join may read an old clone; runners die | the barrier closes once, after the last leg, with the policy's outcome; the wake-up is not lost; what follows is entered once; the retry loop is bounded |
| **Tree paths** (`engine/paths.py`) | none | kinds, children, siblings, enclosing fan-out | nesting, `each` templates | used by every script; faithful to the code |
| **Planner** (`engine/next.py`) | instance record, units, cursors, gates, markers, manifests | start/reset, continue onto each kind of node, override, approve / request changes / reject, merges, `/answer` | commands in wrong places; a `continue` on a unit in flight; expanders | a phase is passed only when finished; in-flight units are preserved; manifest and legs agree |
| **Advance** (`engine/advance.py`) | a unit's iteration and history, a cursor, the instance | decide, iterate, done, failed, blocked gate | iteration bound across runs; dispatch after push | retries bounded; terminal stays terminal |
| **Join** (`engine/join.py`) | nested `__join.yaml`, `joined` | nested join, top join | nested barriers that move a sub-pipeline and wake the outer barrier | nested barriers sound |
| **Workflow runs** (`agentic-orchestrator.yml`, `agentic-engine.yml`, `protocol-join.yml`) | running and pending runs per concurrency group, the aggregate check-run, the shared comment | route, plan, dispatch legs, checks, advance, join | one pending event per group; check-run set before the push; two pushes in a plan job; restart of a run in flight | green is earned; a quiet run is settled; one writer per leg; one comment |
| **Data gates** (`next.py` `do_answer`, `advance.py`, `mm-interactive-resume.yml`) | the gate's questions and state, the answers file | open with questions, find the open gate, record partial answers, resume the leg | answers in pieces and at once; gates at any depth; on a ref, answers in runs of no concurrency group | no recorded answer is lost; no gate is passed unanswered; the gate a leg waits at can be answered |
| **Routing** (`lib.py` `match_trigger`, `route`) | none | the protocol and command of an event | all protocols share one router; prefixes overlap | prefixes that exclude each other are enough: a comment reaches its protocol |
| **Check runner** (`run-checks.py`, `lib.py` `decide`, `resolve_executable`, the conclude hook) | the verdicts file of a job | find and run each check, fold the verdicts, tell the hook | checks that are missing, ambiguous, crash, print something else or claim another severity | done means checked; a blocking failure is heard |
| **Inputs and outputs** (`lib.py` `resolve_inputs`, `collect_fanout_evidence`, `advance.py` `persist_output`) | evidence and answers files | name an output, find an input, rows of a merge | writers and readers agree by names only, at any depth, with ids that repeat in every leg | an input is read where its producer wrote it, never from another leg |
| **Validation** (`lib.py` `validate_protocol`, `check_depth`, `protocol-lint.py`) | none | accept or reject a protocol | what every other part assumes of a tree | an accepted nested fan-out is closed by its own join |
| **Visibility API** (`api/state_reader.py`) | none, reads the branch | status, phases, branches, statistics of an instance | knows no protocol: guesses from file names and contents | what it says agrees with the engine's label; its counts never fall |
| **Rendering and labels**, **installer** (`dist/`), **`*.lock.yml`** | text, generated files | | | not modelled (section 8) |

Interactions. A comment or a dispatch starts the orchestrator, one running and
one pending run per *(instance, path)* group. The run's plan job executes
`next.py`; for an agent or a fan-out the same run then waits for the agents,
checks them and executes `advance.py` per leg. `advance.py` and `join.py` write
files and dispatch `protocol-continue` (back to the orchestrator) or
`protocol-join` (a workflow with groups of its own). All of them share the state
branch, the aggregate check-run of the head commit and one status comment.

`PROJECT.json` lists the hazards with the lines at which they bite.

## 2. Modules

| Module | Models | Uses |
|---|---|---|
| `SnapshotStore` | *abstract*: a store of files under snapshot isolation, first committer wins | |
| `StateBranch` | `state_checkout` and `cas_push`, one action per git command | refines `SnapshotStore` |
| `StateBranchProofs` | its theorems | `StateBranch` |
| `JoinPolicy` | `join_policy_satisfied` | |
| `Barrier` | *abstract*: legs end, the barrier closes once, what follows is entered once | |
| `FanOut` | one fan-out: the legs' retry loops, coalesced join jobs, `join.py` on a clone | refines `Barrier` |
| `FanOutProofs` | its theorems | `FanOut` |
| `ProtocolTree` | `paths.py` over an arbitrary tree | |
| `EngineState` | the files of an instance; what a script leaves (edited clone, push, check-run, dispatch) | `ProtocolTree`, `JoinPolicy` |
| `Planner`, `Advance`, `JoinScript` | `next.py` with `/answer`, `advance.py`, `join.py` as functions of a clone | `EngineState` |
| `Engine` | the workflow runs that execute these scripts concurrently | all three |
| `ScriptProofs`, `EngineProofs`, `ControlProofs`, `ThreadProofs`, `CourseProofs` | lemmas about the tree's operators and what each script makes of a well-formed clone; the theorems about `Engine` under every circumstance; the shared comment; the threads of control of a run started once; the order in which they pass their nodes, the check-run, and the gates of legs | `Engine` |
| `StatusView` | what `api/state_reader.py` makes of the instance's files | `Engine` |
| `Routing` | `match_trigger` and `route` over triggers of any number of protocols | |
| `CheckRunner` | a node's checks from their files to `decide` and the conclude hook | |
| `Inputs` | the names of outputs and inputs, over an arbitrary tree | `ProtocolTree` |
| `Validation` | `validate_protocol`, `check_depth` and the lint's verdict, over trees as their author wrote them | `ProtocolTree` |
| `QuestionProofs` | the theorems about these functions | `Routing`, `CheckRunner`, `Validation`, `Inputs` |
| `MCStateBranch`, `MCFanOut`, `MCCodeReview`, `MCOcr`, `MCGates`, `MCScripts` | instances for TLC: the repository's protocols and fixtures as trees; questions to the scripts that keep no state | |

The two small modules answer, for any number of jobs and legs, what the large
one then relies on. `Engine` pushes in one atomic step that succeeds exactly
when no file conflicts: that is `SnapshotStore`'s `Commit`, which `StateBranch`
is proved to implement. `Engine` evaluates joins on clones like `FanOut`, but in
a tree of nested fan-outs and with everything that happens around them.
`StatusView` only adds definitions to `Engine`, so the API is observed in every
state of a run. `Routing`, `CheckRunner`, `Inputs` and `Validation` are
functions: `Engine` leaves what they return a free choice, and `MCScripts` asks
them questions, each an initial state.

### How the models correspond to the code

*Files.* A file is named by its kind and the tree path of its node
(`EngineState`); `lib.state_path` drops the leading id in a single-phase
protocol, which is one to one. Records keep the fields the control depends on:
`state`, `iteration`, the length of `history`, `sub_state`, the gate's state,
`joined`, `failed`, the manifest's legs, and of the instance `phase`, `joined`,
`phase_label`, `halted`, `overrides` and `status_comment_id`. Evidence, texts,
shas and run ids are left out. One field is not in the code: a unit's `last`
names the run that appended the last history entry. It stands for the
`agent_run_id` of that entry, so that attempts of two runs are different
contents and conflict, as they do in git.

*Conflicts.* git merges lines; the models merge files. An engine file is a
handful of adjacent lines, so two different edits of one file conflict, while
equal edits merge into nothing.

*Scripts.* An execution is three or four atomic steps in `Engine`: `Execute`
(clone, edit; the shared comment is created here if no id is recorded), `Report`
(the aggregate check-run, set before the push), `Push` or `FailPush`, and
`Finish` (the dispatch). A plan job that runs agents goes on to
`MarkInProgress` and `StartLegs` / `StartLegsWithComment` / `FailComment`, its
second push. Everything may interleave between them. Creating the comment and pushing
its id are one step of that second push: that a job dies between them, which leaves a
comment nobody recorded and a run whose legs are not started, is not modelled. In `Engine`
hooks, expanders, agents and checks are nondeterministic choices of their verdicts; a
leg whose checks print nothing is one that dies.

*Gates.* A gate's file has its state, the questions it was opened with and a
history; an answers file has what was answered. A question is a model value and a
comment the set of questions it answers (`Sayings`), with the branch it names, if
any. `open_gate` is called with questions by `advance.py`, and without them, and
without the gate's path, by a `continue` that comes to the gate: `RootGateFile`.

*Scheduling.* `Schedule` is GitHub's rule for `concurrency` with
`cancel-in-progress: false`: one run per group, one pending, the newest.
`Busy` holds from the plan job to the last leg's `advance.py`, because the run
lasts that long. On a ref (`PullRequest` is false) an answer is a comment on an
issue, and its run is in no group (`Alone`).

*Environment.* Comments, redelivered `continue`s and deaths of runners are
actions, each with a bound in `Limit`.

## 3. Runs

Passing runs (`PROJECT.json` names the properties and a plausible bug in the code
that breaks each of them):

| Run | Instance | Shows |
|---|---|---|
| `StateBranch` | 3 jobs, 2 files, 2 contents, 2 attempts, deaths | no lost update, success means written, conflicts and exhaustion have causes, refinement of `SnapshotStore`, every push loop ends |
| `FanOut` | 3 legs, 2 iterations, quorum of 2, deaths | the barrier, its refinement, no lost wake-up; the join happens unless a runner died |
| `CodeReview_run` | `code-review` with one retry, every command of reviewers in any place (two of them), one death | cursor, units, gate and check-run agree, and so does what the API reports; retries bounded; one run works on a leg at a time; a quiet run is settled |
| `Ocr_run` | `code-review-ocr`, two files with at most one finding each, any expansion, one unit that may be tried twice | dynamic fan-outs in each other, reduce and merge, policy `any`; the run comes to rest |
| `Flat_replay` | `dyn-fanout-stub`, started twice, one `continue` redelivered anywhere | racing writers of manifest and legs; nothing a replaced run pushes makes the new one done |
| `Gates_run` | a gate that ends a flat leg beside one in the fan-out of a sub-pipeline, on a ref; two comments, one death | no gate is passed unanswered, each can be reached by an answer, recorded answers stay, no leg stays behind |
| `Scripts_run` | 91598 questions to the router, the check runner, the names of inputs in two protocols, the lint on a protocol with slips of its author | a comment reaches its protocol; done means checked; a block is heard; inputs are read where they were written, in the own leg; nested joins close their own fan-out |

Runs that must find a violation, each of a sentence in the documentation or an
evident intention of the code:

| Run | The sentence | What the code does |
|---|---|---|
| `Flat_zero_legs` | "the run advances to `join.next`" with zero legs | nothing fires the join: the run stalls with the state of a fan-out in progress |
| `Flat_stale_green` | "A missing review is *always* a red gate" | a join of the replaced run sets the check-run green, then its push conflicts; the new run's legs work under a green check |
| `Flat_finished` | "so a finished run isn't reported as a statusless, seemingly-stuck head" | the manifest of a dynamic fan-out passes for a branch without a state: phase and head of a completed run are shown as running |
| `CodeReview_restart` | "there is never a two-writer race on a single file" | after a restart the retry of the replaced run, in the group of the leg's path, and the new run's leg, in the group of the fan-out, are both about to push the leg's file |
| `Interactive_twice` | "a stray re-dispatch can never resurrect a finished instance" | two comments with the same answers, each in a run without a group: the rebase drops the second's identical commit, both pushes succeed, both dispatch `continue`, and the second starts a unit that is done afresh |

Also met while modelling, without a run of their own.

In the engine: a redelivered `continue` onto a terminal agent of the root seeds it
afresh, like `Interactive_twice`; so does the retry of a run that a restart has
replaced, whose queued `continue` may come when the new run is done (`DoneIsEarned`
is therefore stated for one start, or for units that are not tried twice);
re-entering a dynamic fan-out runs the expander again, though
`docs/PROTOCOL-DSL.md`:221 says it reads the manifest; `start` on a run in flight
wipes it although `docs/HOW-IT-WORKS.md` 7 says it halts; two plan jobs that both
find no recorded comment both create one, and the loser starts no leg; six or
more writers with a file each can exhaust `cas_push`'s five attempts without any
conflict (`ExhaustionHasCause` is tight); the publish hook of a leg directly
under a fan-out is unreachable (`advance.py` 546-553 returns before 636); a
second top-level fan-out would inherit `joined: true` from the first (`join.py`
287-290 says that such a pipeline is not supported yet); any
comment on the pull request, a command or not, takes part in the concurrency
group and can replace a pending command; re-running a finished terminal merge
ends in `cas_push`'s refusal of an empty commit; an expander that fails just ends
the plan job, where `docs/PROTOCOL-DSL.md`:210 has the fan-out `failed`; a conclude hook that cannot be run does not block; an agent without
checks can never be done (`CheckRunner`, the last disjunct of `Decide`), while the
comment at `run-checks.py` 60-62 has no results count as all passed; when the checks
job prints nothing there is no artifact, and the advance job fails at its download,
before the verdict that `agentic-engine.yml` 579-582 holds ready for that case: the
unit stays in flight.

In gates: a `continue` at the path of a gate of a leg opens, in `enter_node`, the
file of a gate of the root of that name and without questions, where
`next.py` 653-655 has it open the next sibling, so no answer finds the gate and the leg stays before it.
It takes a gate after a gate or after a join, which validation accepts and no
protocol of the repository has. `/answer B q1: v` on one line records nothing although `next.py`:577
describes it, and `/answer q1 : v` takes `q1` for a branch; an answer in a nested
leg never closes the gate's issue, which `lib.py`:622 promises; after "request
changes" a gate takes decisions but is no longer among the API's open gates.

In the API: the manifest of a dynamic fan-out is listed as a branch `__manifest`
that never ends (`Flat_finished`), neither when its phase is over nor when the run
is. `StatusAgrees` therefore leaves out the phases that show one. The statistics
count the transitions of units only; those of gates are kept elsewhere.

In inputs: `resolve_inputs` says it looks in the outermost scope first and looks
in the innermost one; a leg that ends in a gate reads as one without evidence;
the output of a lone root agent is not found by a merge of the root; a leg that
is a sub-pipeline, named inside another leg, resolves to the file of its cursor;
a node that shares its name with what it wants finds itself (`shadowed` in
`Meant`).

In validation: what strands the engine is accepted. A second fan-out of the root,
a gate after a gate or after a join, a sub-pipeline that starts with a fan-out or
a gate, two nodes of one name, a join before its fan-out, a nested fan-out without
a join, and a leg of kind `fanout` are all valid.

### Bounds, and why they are enough

- *Jobs and legs.* Conflicts and coalescing involve two writers, or a running
  and a pending join; a third party shows what happens to what they leave. The
  proofs cover all numbers.
- *Iterations.* One retry reaches both ends of the comparison
  `iteration < max_iterations`, and the proof in `FanOutProofs` has no bound. Only
  one unit retries in `CodeReview_run` and in `Ocr_run`, to keep the product small.
- *Commands.* Two replies suffice for an override or decision in the wrong place
  followed by one in the right place.
- *One death* anywhere: a second one only stops more of the run.
- *Answers.* Two questions are the smallest gate that can be answered in part, and
  two comments the smallest race. With two, `Gates_run` answers one gate in pieces or
  the gates at both depths in one run, up to its end. Nobody answers before a gate has asked
  something (`GateAsked`): such an answer finds no gate and leaves nothing.
- *Questions to scripts.* Two protocols, of which one has up to two triggers, and
  comments and prefixes of up to two letters tell a prefix, an equal text and a
  different one; up to two checks show one verdict beside another; the two trees
  have every kind of node at two depths of fan-outs, in a single-phase and a
  multi-phase protocol; the author of a protocol makes at most one slip outside
  the names of the joins, which vary freely. No dynamic leg in the two trees ends in a
  gate, and no merge reads a static fan-out, for which `collect_fanout_evidence`
  finds no manifest and so no row, against `docs/PROTOCOL-DSL.md`:245.
- *Expansions* are free subsets of the listed items, the empty set included.
- `FewJobs` in `Flat_replay`: after the redelivery, two jobs at a time. Two
  writers are what mixes two expansions; restarts without redelivery are not
  bounded by it.
- `Spec` in these runs may really stop (a run that is done, halted or stranded by
  a death), so deadlock is checked only in `StateBranch` and, where a question is only
  answered, trivially in `Scripts_run`.

### Fairness

`StateBranch`: weak fairness of each job's own steps; git commands return.
`FanOut`: of each leg and of the join workflow. `Engine` (in `Ocr_run`):
weak fairness of
"some job takes a step". GitHub starts queued jobs and a job's time limit ends it,
so a job that can step does; no fairness is assumed of people, of redelivery or
of deaths. Verdicts are never assumed to become good: the bounded retry loop has
to end by itself. `RunSettles` leaves out runs of a fan-out without legs, which
stall (`Flat_zero_legs`).

## 4. What is proved

For every set of jobs, files and contents, every `MayWrite` and any number of
attempts (`StateBranchProofs`): type correctness, `SuccessMeansWritten`,
`ConflictHasCause`, `ExhaustionHasCause`, `FirstCommitterWins` and that
`StateBranch` implements `SnapshotStore`. Assumptions: the set of jobs is
finite, attempts are positive, `Absent` is a content.

The invariants are not inductive: a job that is about to push knows only its own
base. `IInv` adds that whatever differs between that base and origin's tip was
put there by commits of others above the base (`TipExplained`), that the changes
still in a job's commit sit on the content it cloned while the dropped ones were
made by others (`OnWhatWasRead`), and that commits belong to jobs whose push
succeeded (`CommitsAreDone`). A fast-forward push then has the tip as its base,
and a rebase that finds a difference finds a commit to blame.

For every finite set of legs, every positive bound on iterations and every
policy (`FanOutProofs`): type correctness, `JoinSound`, `EnteredOnce`,
`AttemptsBounded`, `NoLostJoin` and that `FanOut` implements `Barrier`.
`IInv` adds that a leg's file, counters and run move together (`LegInv`), that a
clone held by a join under-approximates the legs that have ended
(`SnapshotTrue`), and that at most one join goes on after recording an outcome
(`JoinOnce`). A join that sees all legs ended has therefore seen their final
states.

For any number of protocols, triggers and letters (`QuestionProofs`):
`CommentsAreRouted`. Two prefixes of one text are comparable, so two takers of a
comment break the rule of exclusion; a single taker is what `route` returns.

For any number of checks and any hook (`QuestionProofs`): `DoneIsChecked` and
`BlockIsHeard`. A verdict carries the severity the protocol declares and passes
exactly if the check ran and passed (`VerdictIsFaithful`), so `decide` sees the
failures of each severity as they are. No assumption is made on the checks but
that they are records of the form the module's head describes.

For every protocol the lint accepts (`QuestionProofs.JoinsAreBeside`): with different
ids for its fan-outs, the join `_nested_join` finds for a nested one is beside it,
though it looks among the joins of the root first: such a join would be `of` a
fan-out of the root with that id. The hypothesis `IsProtocol` says what JSON gives:
there is a root, children are nodes, ids are not empty. This is what
`NamesAssumption` below takes for granted of a nested join.

For every tree (`QuestionProofs`), about the names of inputs: `KnownInputsAreOwn`,
`MergesReadEveryLeg` and `InputsAreFound`, which state `ReadsOwnLeg`,
`MergesWhatLegsWrote` and `ReadsWhatIsWritten`. All three follow a path back to the
nodes it belongs to; in a protocol of a single phase it lacks the first of their
ids, and two paths of different root fan-outs could coincide, but then there were
two phases (`PathsCoincide`, `TwoPhases`). Their hypotheses are what the code needs,
and hold of every input in the trees of `Scripts_run` that means a unit, except for
merges of the root:

| Theorem | Hypothesis | Otherwise |
|---|---|---|
| `KnownInputsAreOwn` | some scope around the consumer knows the name | the bare name is the file's, and a leg may have it |
| `MergesReadEveryLeg` | no leg is a fan-out or ends in a gate (`EndsInEvidence`) | its answers are sought as evidence |
| `InputsAreFound` | no two things in one scope have the name; a leg that has it is over by then, is not called like its fan-out and ends in no gate (`OneMeaning`); the consumer is no merge of the root | another file is found, or none |

For every protocol and every bound on starts, replies, redeliveries and deaths
(`EngineProofs`): type correctness (`TypeCorrect`, in which a unit's iteration
never exceeds its `max_iterations`), the concurrency groups (`OneRunPerGroup`),
`AnswersStay`, and `ManifestSeeded` as long as the instance is started once. What
is assumed of a protocol is named where its constant is declared:

| Assumption | Says | The code |
|---|---|---|
| `TreeAssumption` | nodes and their parents list each other, leaves have no children, ids are not empty | how `paths.py` walks the JSON |
| `ProtocolAssumption` | `max_iterations` is positive; no node is called `done` or `failed` | a `state` holds an id or one of these words |
| `LegAssumption` | a leg is an agent, or a sub-pipeline that starts with one | `_seed_child` gives the first child the file of an agent |
| `NamesAssumption` | a nested join leads to a sibling or nowhere, no gate of a leg has the name of a root agent, there is a first phase | `join.next` is looked up beside the join; `enter_node` opens every gate in the file of a gate of the root |

Validation accepts protocols that break the last three (section 3, "In
validation"), so they are stated, and TLC evaluates them on every tree of the runs.

Each script is a function of the clone it reads, and `ScriptProofs` has a lemma
for every one of its branches. `ResultOK(S, r)` collects what they have in common
on any well-formed clone `S`: the edited files are well-formed, at most one event
is dispatched, no recorded answer is lost unless its file is wiped
(`AnswersKept`), and a manifest that changes comes with a file for each of its
legs (`ManifestsFilled`); all but `start` also remove nothing.

`TypeOK` is not inductive, because what a job pushes later is a result it
computed earlier. `EngineInv` therefore says of every job what its script knew
(`JobOK`): clone and result are well-formed and related as above. It also needs
`UntilStarted`: before the instance record is on the branch nothing else is, and
only `start` and replies are on their way. Otherwise `advance.py` or `join.py`
could come to an instance that is not there, and the files they would seed
have no phase to be in. `GroupsExclusive` is the part about the workflows' groups.

`AnswersStay` then follows at the one place where it can fail, the push: a push
that edits an answers file has read the version that is on the branch, or the same
text is there already, so the answers it extends are those that are recorded.

`ManifestSeeded` cannot be had this way alone: between the expansion and the push a
restart may remove the legs' files. `OneStart` says why this cannot happen with one
start: the `start` that creates the instance is the only one under way
(`StartsOnce`), so no file a clone has read is ever removed (`ClonesKept`). A
manifest that lands comes with its legs' files, or those were there before. With
two starts and two redeliveries it does fail: the manifest a stale expansion read
can be on the branch again.

`CommentCreatedOnce` is proved of a run that is started once and whose events are not
sent again by hand (`ControlProofs.CommentOnce`), whoever comments and whatever dies
meanwhile. A second `continue` into the first phase, while the start is about to
record the comment, does create another. `CommentInv` is a disjunction.
Until the comment is created (`Untold`) the start is the only run with something to
do: every other job is a reply that finds no gate, no phase that blocked and no
question, and the start's result is an instance that has just started. Once it is
(`Told`) every instance anywhere, on the branch, in a clone or in a result about to
be pushed, has its number, so `ensure_status_comment` finds it. The two meet where the
start records it or dies: nobody else's push can come between its clone and
the second push, so the step that creates the comment is the one that records it.

#### Threads of control

`SingleFlight` and `AttemptsBounded` (`ThreadProofs`: `OneFlight`,
`AttemptsAreBounded`) hold because the engine, which has no locks but the
concurrency groups, passes control along the tree like a token. The root and every
leg of a fan-out are a *thread*; a node belongs to the leg around it or to the root
(`Thread`). `ThreadInv` says where a thread may be:

- It is *at* a node if a `continue` to it waits, a run has it in hand and has
  not pushed, or a push has landed whose dispatch is still to come (`At`). It
  *waits* at a node if the branch says so: an open barrier, an open gate, a phase
  that halted (`Waits`, `Places`).
- One job or event is at a node (`Sole`), and two nodes that threads are at or
  wait at are `Far` from each other, that is of two threads neither of which is
  around the other; only a fan-out whose barrier is open may have others inside it
  (`Spaced`, `Over`).
- Every such node is of the current phase and in legs that are expected and not over
  (`AllInside`); a unit whose agent is about to run has the state that says so
  (`RunningUnits`); a join is called for a fan-out that was entered (`ProbesOK`).
- A history counts the attempts that are over (`Histories`): `iteration - 1` of
  them while one is under way, `iteration` afterwards, and all a leg has when it
  failed. `AttemptsBounded` is this together with `TypeOK`.
- A result that waits to be pushed was made for the thread its job works for, at
  whose nodes the branch still is what the clone was (`WorksAt`, `Synced`), and leaves
  that thread at one node again, or enters a fan-out of it, with all files of
  others untouched (`Moves`).

The last part carries the proof, because scripts and pushes are different steps. It is
shown per script and branch of it that its result `Moves`: advance.py passes the
thread of a leg on, retries in it, or ends it and calls the join; a `continue`
enters what it finds; a join whose legs are all over ends the wait at a barrier
and goes on in the thread around it; a reply ends the wait where it may. Clones can be
old only in files of other threads, or because another run of the same group moved
the thread first; then the barrier, the gate or the halted phase is gone from the
branch, the two edits touch one file, and the push conflicts. `Far` is what makes the
edits of two threads disjoint.

The theorems are about `Calm`: one start, every event delivered once, on a pull
request, no gate of a leg named like a gate of the root. `SingleFlight` and
`DoneIsEarned` have the conditions on starts and redelivery in their own text. None of
these conditions is idle: a second
`continue` or start is a second token (`CodeReview_restart` shows two writers after a
restart, and `AttemptsBounded` fails in the instance of `Flat_replay`); on a ref
answers are in no group, which `Interactive_twice` shows; and `enter_node` opens a
leg's gate in the file of a root gate of that name, so that the root would wait at
two places. No protocol of the repository has such a gate. Deaths, coalesced joins
and replies in any place are all included.

TLC evaluated `ThreadInv` as an invariant of `CodeReview_run`, `Ocr_run`,
`Flat_replay` and `Gates_run` before it was proved.

#### What a thread has passed

`PhaseExplained`, `DoneIsEarned`, `GatesAnswered`, `NestedJoinSound` and the action
property `TerminalStays` (`CourseProofs`) say that control passes a node only when
what was to be done there is done. With `ThreadInv` it is known where each thread
is; `CourseInv` adds what is behind and ahead of it:

- A child of a thread that its cursor has passed, or any child once the thread is
  complete, is `Finished`: an agent done or overridden, a fan-out with all its legs
  over and its policy met, a gate approved or its questions answered. A child ahead
  of the cursor is `Untouched`: no file at or below it exists (`InOrder`).
- The barrier of a nested fan-out is closed after its last leg with the outcome of
  its policy; closed as failed its leg is over, otherwise its leg has gone on; while
  it is open its leg stays there (`Barred`).
- A thread that is at a node has come to it, and it is there for the first time: the
  unit is not over, or the node is untouched (`Arrived`).
- A result that waits to be pushed keeps all this and changes no unit that is over
  (`InCourse`).

`Untouched` is why the invariant is inductive: a thread that steps on enters a node
with no history, so nothing that an earlier visit left can count as finished or
join a barrier. As in `ThreadProofs` each branch of each script is shown to keep the
order on the clone it reads, and a push brings it to the branch because the thread of
the job still is where the clone had it; threads at nodes apart do not disturb each
other (`CourseAside`), nor do those inside an open fan-out the thread around it.

The theorems are about `Calm` instances of protocols that are `Straight`: the nodes
of a sequence have different names, joins lead forward and skip no agent, fan-out or
gate, every fan-out of the root has a join, and a merge comes last. Every tree in
the runs is. Validation accepts others: with `join.next` leading backwards a
fan-out is entered again with the files of the first visit, with a gate skipped
`GatesAnswered` is false, and what follows a merge is never entered.

TLC evaluated `CourseInv` as an invariant of the passing runs of `Engine` before it was
proved.

#### The check-run

`GreenIsEarned` (`GreenIsDeserved`) needs more, because every script concludes the
check-run before it pushes: green may be shown for a result that conflicts or dies.
It still holds because of what the script has read. `Won` says of a store that every
agent and fan-out of the root is passed, but for one fan-out the root may still be at,
entered, with its barrier over and its policy met (`Reviewed`). `Greens` is inductive
together with `ThreadInv` and `CourseInv`:

- whoever shows success, or has a result that will, has read a store that is `Won`:
  the join that clears the last fan-out, the decision that approves the last gate, the
  merge (`Earns`); the branch still is `Won`;
- no result takes it back: no node is left where a thread could be but the root's
  own (`WonAt`), and from there a script only leads on (`WonGoesOn`). So no agent, nested
  join, answer or override has anything to push, and a push of the root finds the
  branch as its clone was.

TLC evaluated `Greens` in `CodeReview_run`, `Ocr_run` and `Gates_run` before it was proved.

The theorem is about protocols whose root does not end in an agent (`NoAgentLast`), which is
every protocol of the repository but `impl-feature-auto`. There advance.py reports
success before the agent's own `done` is on the branch, and if its push is lost the check
stays green without it.

#### The gates

`GateOpened` (`GatesAreOpen`): a gate that a leg has come to is one an answer finds,
also with jobs on their way. The inductive invariant `Gates` says it of the branch and
of each result that waits to be pushed: where the cursor of a leg that goes on names a
gate, the file of the gate is open. Its cursor and its gate are two files; each
branch of each script is shown to edit both or to leave the leg, and a push lands both or
neither because one thread pushes (`ThreadProofs`), whose files are all its own. The
theorem assumes no more of a protocol than the code does: what a leg goes on to from
a gate or a barrier is no gate (`GatesAttended`; next.py opens such a gate in another
file, section 3, "In gates"), and `_find_open_gate` does not look into
dynamic fan-outs (`GatesStatic`). The tree of `Gates_run` satisfies both, and
TLC evaluated `Gates` in that run.

### What is only model-checked

`StatusAgrees`, which compares what the API guesses from names and contents of files;
`TransitionsGrow` likewise. What a merge of the root reads (`ReadsWhatIsWritten` for
the older cases of `resolve_inputs`). `SettledWhenQuiet` says that no wake-up is lost, for
which one would have to follow every dispatch to the run that takes it. All liveness (`EveryJobEnds`, `JoinHappens`, `RunSettles`) is out of the
prover's reach.

## 5. Reading order

`SnapshotStore`, `StateBranch`; `JoinPolicy`, `Barrier`, `FanOut`;
`ProtocolTree`, `EngineState`, `Planner`, `Advance`, `JoinScript`, `Engine`,
`StatusView`; `Routing`, `CheckRunner`, `Inputs`, `Validation`; then the `MC`
modules and the proofs.

## 6. Plan

Done, in this order: the state branch with its store and proofs; the fan-out
with its barrier and proofs; the tree, the three scripts and the engine with four
of the repository's protocols; data gates and answers; the API's view; routing and
the check runner with proofs; names of inputs; validation; the lemmas about the
tree and the scripts, the theorems about the engine that hold whatever is
delivered, those about the comment and the threads of control of a run started
once, about what a thread has passed, and about the check-run; the joins that
validation accepts.

Left:

1. That no wake-up is lost (`SettledWhenQuiet`): a thread is at a node
   or waits at one until the instance is over.
2. An abstract specification of an instance (phases passed in order, each once
   finished) that `Engine` implements.
3. Trees that validation accepts although the engine strands them, as instances:
   a second fan-out of the root, a missing join.

## 7. Running

`tlc -config CodeReview_run.cfg MCCodeReview` and so on, with the module named in
`PROJECT.json`; `tlapm` on each `*Proofs.tla`. The larger runs of
`Engine` take minutes.

## 8. Not modelled

- Texts: the parsing of an answer into questions, the prefix of a command, what
  evidence and staged items contain, rendering, labels as GitHub objects. The
  label recorded in the instance file and the creation of the shared comment are
  modelled, because a push or a wake-up depends on them.
- The JSON schema of a protocol (a free choice in `Lint`) and the lint's drawing
  of trees and diagrams.
- Per-leg check-runs and the publish hook, which nothing reads back.
- What expanders, merge hooks and conclude hooks compute: free choices.
- The status comment of a lone root agent, which lies in that agent's own file.
- Head resolution: one head commit; `reset` behaves as `start` and has no trigger.
- Authorization of commenters and the sandboxing of agents.
- The API's lists of instances, run minutes, gate view and HTTP, which read the
  branch or GitHub and change nothing; the installer; the generated agent
  workflows.
