# Verification of the MSG-CTF backend

This directory holds TLA+ models of the backend in `src/`, the TLC
configurations that check them on small instances, and TLAPS proofs for every
instance. The backend is a Django application: a CTF played on a board of 36 cells,
with container instances rented from a scheduler, king-of-the-hill rounds and
uploaded executables judged by a checker.

## 1. Inventory

| Component | State | Operations | Hard behaviour | Correct when |
| --- | --- | --- | --- | --- |
| Board of a team (`apps/board/services.py`, `models.py`, `line_rules.py`) | position, consumed cells (`TeamCellConsumption`), dice, airport flag, active challenge, `PendingDiceRoll`, `TeamChanceCard`, `TeamCellCandidate`, `TeamChallengeAccess`, roulette receipts | throw, confirm, airport, roulette, list candidates, open and solve a challenge, draw/discard/use a card, confirm a choice | long sequences of legal calls across two dozen handlers; throws held between requests; candidates that outlive an opening; lap and end of the board | every die lands once; a held move stays valid; the board can be completed; completion is final |
| Operators' corrections (`apps/adminpanel/views.py`) | the same rows | force a move, set the status of a cell, hide a challenge, adjust dice | run between any two requests of the team | a correction never leaves a team that cannot go on |
| Dice recharge clock (`services.py` 248-317) | `dice_rolls_left`, `next_dice_reset_at`, `recharge_paused_seconds`; two `AdminSetting` values | evaluated lazily at every read and write; pause, resume, settings | no job runs when a die falls due; settings change under running clocks | exactly the dice that an eager clock would have paid |
| Request recovery (`idempotency.py`, `DiceRollRequest`, `PendingDiceRoll`) | open request key, saved result, pending confirm key, `IdempotencyRequest` rows, Redis cache | prepare, throw, acknowledge, confirm, replay | lost replies, retries from several tabs, cached answers written after the commit, records cleaned up | a key spends one die and every retry gets the same answer |
| Flag submission and access (`apps/challenge/views.py`, `services.py`, `apps/board/services.py`) | `TeamCellCandidate`, `TeamChallengeAccess`, `Solve`, `FlagSubmissionLock` | offer, open, submit, lock out; operators withdraw, reset, mark, hide, change the flag | checks before the lock; a candidate that outlives its challenge; corrections in any order | what is solved is cleared, a die per challenge once, solves only for the flag of the moment |
| Scoring and ranking (`apps/ranking`, `challenge/services.py`) | dynamic scores, team scores, mileage, line monopolies | recompute on submission, withdrawal, rescoring, deletion of a team | transactions that rewrite rows of other teams and lock in orders of their own; decimal rounding | stored scores equal a recomputation from the solves |
| Instance write journal (`apps/instances/services.py`, `write_recovery.py`, `views.py`) | `InstanceWriteOperation`, `Instance` | begin, call the scheduler, commit, record failure, recover, review | crash or time-out between journal, remote call and commit | one remote request per operation; one active instance per user |
| Instance reconciliation (`reconciliation.py`, `observations.py`) | `Instance` rows, cursor | apply snapshots | snapshots older than local changes | terminal states stay |
| Image preparation and automatic publication (`image_preparations.py`, `automatic_publications.py`, `admin_views.py`) | runtime config with current release and generation, `ImagePreparationRequest`, `AutomaticPublication` | activate, retry, refresh, claim, call the Runtime, settle, carry | leases that end under a call, answers that come late, three parties that switch one release | the latest decision wins; a verified publication is not lost |
| Release poller (`poller.py`, `releases.py`, `published_challenges.py`) | releases, observations | poll, validate, register | re-delivery, restarts | releases are immutable |
| Publication dispatch (`publication_dispatch.py`) | publication requests | dispatch a workflow once, look it up | a lost reply | one workflow run per request |
| Executable submissions (`exe_submissions.py`, `checker_dispatch.py`, `checker_events.py`) | `ExeSubmission`, its file, `ExeExecutionEvent` | accept, dispatch, apply event, close, purge | dispatch of unknown fate; duplicated, reordered events; the outcome of a commit that is lost | one program per team at a time, one POST, one verdict |
| King of the hill (`apps/koth`) | periods, scores, team keys, previews | poll a period, award, rotate keys | two pollers, retries of a period | a period is awarded once |
| Payments (`teams/views.py`, `adminpanel/views.py` 868-1060) | `PaymentToken`, `MileageHistory`, the team's mileage | issue, check out, refund | a token that is replaced while it is scanned | a token pays once |
| Signatures, teams, accounts, timer, service keys, the rest of the admin panel | rows of their own | CRUD with a few protocols (drafts, key lifecycle) | operators against participants | one locked transaction each |

Interaction. Every handler is one request thread; what two of them share is
the database. Handlers that change a board first lock its `TeamBoardState` row
(`board_state_for_update`), so one action of a model is one locked transaction,
and interleaving is the order of transactions. A correct flag calls
`complete_challenge_from_submission` under that lock. Operators' views take the
same lock. Work outside a transaction (scheduler and checker calls, cache
writes after a commit) is a step of its own. `PROJECT.json` lists the hazards
of this code with the line where each bites.

## 2. What is modelled

| Module | Models | Correspondence |
| --- | --- | --- |
| `Movement` | where a walk ends and how often it crosses START (`compute_movement`) | the code's loop is replaced by a ranking of the free cells, which says in closed form what the loop computes |
| `MovementLoop` | the loop of `compute_movement`, cell by cell | a recursive function of the rounds of the loop, inside it another of the cells that are skipped; proved equal to `Movement` on every board, and compared with it by TLC |
| `Board` | every board handler of a team | one action per handler; `TeamCellConsumption` is `consumed`, `PendingDiceRoll` is `pending`, a `TeamChanceCard` row is `cards[cell]`, the `TeamCellCandidate` rows are `candidate[cell]`, a `TeamChallengeAccess` row is `access[challenge]` with its `source_cell`, `active_challenge_access` is `active`, `is_published` is `published`, roulette receipts are `spun`. `Ready` is what `board_readiness` reports. `spent`, `landings`, `relanded` are history variables |
| `Tour` | the abstract promise: the piece tours the cells and strays onto a visited one at most once | refined by `Board` (`IsATour`) |
| `BoardOperator` | `Board` with `board_position`, `board_cell_status`, `board_dice` and `challenge_visibility` | each correction takes the row lock that the team's handler takes, so it is one action |
| `DiceRecharge` | the lazy clock and each of its callers | `clock` is the three dice columns; time is relative to now, so the state space is finite |
| `EagerRecharge` | the abstract clock that pays each die at the moment it is due | refined by `DiceRecharge` (`PaysOnTime`) |
| `DiceRequest` | keys, receipts, retry records and cache around a throw and its confirmation | `records` is `IdempotencyRequest`, `cache` the Redis entries, `late` the cache writes that wait for their commit hook, `request`/`receipt` are `DiceRollRequest`, `held` is `PendingDiceRoll` |
| `InstanceWrites` | the journal, request threads and recovery of one user's instance writes, with the scheduler and the other writers of instance rows | `journal` is `InstanceWriteOperation` (`bound`: the remote id is known), `rows` are `Instance` rows, `thread` is where a request handler stands, `recovering` the write that `recover_write` replays under the user's lock, `wire` the requests that may still reach the scheduler; write `o` creates instance `o`. `forsaken` is a history variable |
| `ChallengePlay` | what the cells of one team offer, what it opens and solves, the extra die and the bonus of a line, and six corrections of operators | `candidate` is `TeamCellCandidate`, `access` is `TeamChallengeAccess`, `lock` is `FlagSubmissionLock`; `request[u]` holds what a submission read before its transaction. `Travel` stands for every way of `Board` to get from cell to cell. `paid` and `touched` are history variables |
| `DynamicScore` | `calculate_dynamic_score` in rounded decimals | `Rounded` is Python's decimal context; `ExactScore` is the reference it is compared with |
| `ScoreTransactions` | every transaction that moves the standings, row lock by row lock | `tx[p]` is the transaction of a process: `held` are the rows it has locked, `want` those it still asks for, one after another in the order of the code (`Before`), `new` what it computed and has not committed |
| `ExeSubmission` | one checker, its jobs, and the rows, dispatches and events of all submissions | `row` is `ExeSubmission` with its file and its recorded events, `calls` the processes between the two transactions of `dispatch_submission`, `job` and `sent` the checker's side. `posts` is a history variable |
| `Verdicts` | the abstract promise: a register per submission that is written once | refined by `ExeSubmission` (`WritesOneVerdict`) |
| `ReleaseActivation` | the switches of one challenge's current release | `current` and `generation` are the runtime config, `pub` is `AutomaticPublication`, `prep` is `ImagePreparationRequest`, `calls` the workers that wait for the Runtime under a lease, `retry` a retry that has read the config. `asked` and `decisions` are history |
| `BoardProofs`, `DiceRechargeProofs`, `DiceRequestProofs`, `InstanceWritesProofs`, `ChallengePlayProofs`, `ScoreTransactionsProofs`, `ExeSubmissionProofs`, `ReleaseActivationProofs` | theorems of these modules; those of `BoardOperator` are in `BoardProofs` | section 4 |
| `MCBoard`, `MCBoardOperator`, `MCDiceRecharge`, `MCChallengePlay`, `MCScoreTransactions` | constants, symmetry and assumptions for TLC | |

Operators named `...Only`, `...Again`, `...Freely` and the like, under a comment
that says "Mutant", are wrong variants of the definition that follows them: each
property is known to be violated when its definition is replaced by the variant.

What is abstracted.

- `Board`: dice totals, drawn cards, offsets and whether an answer is in time are
  choices of the environment. Mileage that no handler reads is left out. A
  recharge may happen at any time below capacity; `DiceRecharge` says when it
  does. Every challenge cell has a difficulty, and the difficulties of cells and
  challenges stay as they are. How a flag comes to be accepted is in
  `ChallengePlay`: here any opened challenge may be solved at any time, and a
  cleared one again, which then only gives up the timer. Of `board_readiness`,
  `Ready` is the comparison per difficulty; its other checks (published
  challenges that are not enrolled, cells without a difficulty) are excluded by
  the assumptions on the constants. A withdrawn solve is in `ChallengePlay` too.
- `ChallengePlay`: one difficulty; whether a submission is in time for the extra
  die is a choice.
- `ScoreTransactions`: mileage is counted in rewards of a solve. Locks that only
  keep a row alive (`KEY SHARE`), the row of the flag lock, a user's or a KOTH
  solve, the refusals of a team's deletion and the `InstanceLock` rows are left
  out. The database may choose any transaction of a cycle as its victim.
- `InstanceWrites`: one user with a fixed team; every active status is RUNNING;
  ages are two thresholds: the cut-off after which a `STARTED` write may be
  recovered (left open) and the wait after which a missing result goes to review
  (`overdue`). The scheduler is external: it carries a request out once, possibly
  long after the caller gave up, holds one running instance per user, and answers
  a lookup by request id truthfully.
- `ExeSubmission`: the four ways to end are one status. Private QA submissions,
  the rate limit, the pins of versions, the expiry of tokens and rows of the
  former assignment mode are left out. The checker is external: it runs a job at
  most once, and after a restart may not know what became of one.
- `ReleaseActivation`: releases come from the poller and are named by their
  revision. The gate of the participants' files and the reasons to hold a
  publication are choices. Requests that only prepare images, the choice of nodes
  and what becomes of a preparation whose intent was superseded are left out. A
  refresh of a row that failed is `Refresh`; that of a row which is still pending
  only resets its count of failures and is left out too. The Runtime is external.

## 3. Runs

| Run | Question | Bounds and why they are enough |
| --- | --- | --- |
| `board_play` | Is any throw lost, doubled or moved by another, and can players always finish a board that is ready? | seven cells with two chance and two challenge cells: two cards held at once (the discard rule), an airport, START, a roulette; the two challenge cells offer the same two challenges, so that the board is only just ready and what one cell offered and did not open is all that the other has to offer; one die, so that rewards and recharges meet capacity; totals 1 and 2, offsets of one either way; all five kinds of cards. `MCBoard` also compares the loop of the walk with `Movement` on all 2^7 sets of consumed cells of this board, every start, both directions and up to eight steps: a lap and one more |
| `board_start` | The documented "START is landed on exactly once" | violated, see below |
| `board_operated` | The same game with operators' corrections; does the walk agree with its closed form? | two corrections, so that one can follow up on the other: two forced moves are enough to list a candidate, open and solve it at another cell and come back to open it again, which the run reaches. Two challenge cells, two challenges of which a cell offers one. With forced moves and reset cells, `ClosedFormAgrees` meets sets of consumed cells that no game leads to. `PendingCanBeResolved` names the guards of the code (`MayConfirmRoll`, `ChoiceEnds`); what else the two actions contain are assignments, so that these guards are all that could keep them from being taken |
| `dice_clock` | Is the lazy clock an eager clock, and what do changed settings do to it? | capacities 1, 2 and 4, intervals 1 and 3, silence of up to 12 ticks (four intervals of three: every capacity is refilled in one silence), two changes of the settings: up and back. The comparison with the eager clock ends at the first change |
| `dice_retry` | Do retries spend or show anything twice, and can an open request lock a team out? | two server keys and one legacy key, three throws, one clean-up of the retry records |
| `instance_writes` | Can an instance run that the backend forgot, and is every write with a request id and every ended row settled in the end? | two writes (a creation and what replaces or resets it), with and without request id; suspensions come and go freely; every thread and recovery may die at any point |
| `instance_replay` | The documented "It never POSTs create/reset" | violated, see below |
| `exe_runs` | Does a team ever run two programs, or one twice, and is every submission carried through? | two teams and one user who moves between them, two rows and two keys, two processes that dispatch at once, one fault: the smallest numbers with which a retry, a move, a takeover and a second submission meet |
| `challenge_play` | Do solves, cells, dice and line bonuses agree whatever is solved and corrected? | one line of two cells, two challenges with one offered, so that a candidate can be offered at both cells; two members at once; two wrong tries until the lock-out; two corrections |
| `score_transactions` | Do the stored scores follow from the stored solves, and which transactions deadlock? | two teams, two challenges, two processes, two sets of parameters; processes go on for ever, so that the effects of any number of transactions add up. `MCScoreTransactions` compares `calculate_dynamic_score` with exact arithmetic: rounding adds at most one point |
| `score_minimum` | The tested "reaches minimum at decay" | violated, see below; three digits of precision, and parameters for which 28 digits do the same |
| `release_activation` | Can anything late undo an operator, or a publication be lost? | three revisions, so that one publication can overtake another; two preparations, one switch or refresh of an operator, one fault, one attempt |

`CHECK_DEADLOCK FALSE` appears where the system really stops: a completed board
has nothing left to do, bounded throws, corrections or submissions are used up,
every publication is decided. Symmetry (of interchangeable challenges or
teams) is used in three safety runs only. The type
invariants were checked while the modules were written and are proved now, so no
run repeats them.

Fairness. `Board!KeepPlaying` assumes a game that goes on: as long as the team can
confirm what is pending, look at the candidates of a challenge cell, open one or
throw, or time can recharge its dice, one of these happens in the end (`GoOn`),
it is not said which. The code does not promise what the team does; the property
says that under this the rules let the team finish a board that stays ready,
whatever cards are drawn and used besides. Readiness is an assumption as well: `board_readiness` reports
it to the operators and nothing enforces it. With too few published challenges a
team may stand on a cell that has nothing to open, and is then refused every
throw (`CHALLENGE_NOT_SELECTED`). `DiceRecharge!FairSpec`
assumes that time passes and nothing else: nobody has to look at the board.
`DiceRequest!FairSpec` assumes a player who retries the open request, reads its
answer and confirms what is pending, which `docs/dice-request-recovery.md`
asks of the client.
`InstanceWrites!Fairness` assumes that threads go on or die, that the periodic
job (`reconcile_instances`, which also calls `recover_pending_writes_once`)
keeps coming back and finds the scheduler answering again, that it does not die
in every replay, and that a request on the wire arrives. Strong fairness is
asked where a lock is contended: PostgreSQL queues its waiters. Operators are
not assumed to do anything, so `REVIEW_REQUIRED` counts as settled.
`ExeSubmission!Fairness` assumes that the worker of `dispatch_exe_submissions`
closes what it can, that the checker gets on with its jobs and repeats its events
until they are accepted, and that the broker restores its VMs; nothing is assumed
of the calls of the backend, all of which may be lost.
`ReleaseActivation!Fairness` assumes that the timer runs the commands again and
again, that calls and leases end, that an automatic request grows old, and that
an operation of the Runtime that is asked for again and again is found to have
ended at last (strong fairness, because the claim comes and goes).

Limits of `ActiveIsOpened`. A candidate that was listed before its challenge was
opened at another cell can still be opened: `get_or_create` in
`open_current_cell_challenge` then returns the access of that other cell, which
may be `CLEARED`, and makes it the active one, while this cell stays without an
access and keeps the team (`ChallengeNotSelected`) until the candidates are
listed again and another one is opened. `ChallengePlay` has the same case.

Limits of `NeverStuck` (section 4). One sequence of corrections leaves a team on a
ready board with nothing to do: a stale candidate is selected as above, and an
operator resets the cell that the access belongs to. The candidate stays
`SELECTED`, is not offered any more and is not removed by a new listing either,
but takes up a place; with `CHALLENGE_CANDIDATE_COUNT` such candidates a cell
offers nothing until an operator resets that cell as well.

Limits of `NoLiveOrphan`. It speaks of writes in flight too: an entry that blocks
the user is no orphan, whoever works on it. It excepts two behaviours of the
code, neither of which contradicts a document (`forsaken`). A replay that finds the team
suspended rejects the write although the reset may still be on the wire. And a
request that waits for the user's lock past the recovery cut-off may find that
recovery has replayed its own write; it does not read the journal again, and
its refusal turns `RECOVERY_PENDING` into `REJECTED` while the replayed reset
runs, because `record_write_failure` spares `COMPLETED` only. In both cases the
next `GET /me` makes a row for the instance.

Limits of `SourceIsRetired`. The row of a source comes back to RUNNING when a read
of the scheduler without the user's lock saves an older answer (`snapshot`). One
more exception was found by the attempt to prove the property, and takes three
writes: a request waits for the lock past the cut-off and recovery completes its
write by a lookup; the request sends its own POST after all, holding the lock; a
third write already replaced its instance, and an unlocked read has revived the
replaced row, so that the late answer of the request is saved over it
(`thread[source] = "calling"`). The run has two writes; the theorem has any number.

Limits of `SubmissionsAreSettled`. A POST that never arrived is not sent again:
the row stays `ASSIGNED`, later dispatches only look it up, and the team's slot
is taken until an operator acts. So it is for a job whose fate the checker
forgot (`START_UNKNOWN`, or `RUNNING` with a lost end).
`docs/windows-remote-run.md:64` and `docs/windows-team-queue.md` ask for both.

Limits of `SolvedIsCleared` and `BonusFollowsLine`. They except what an operator
touched. A cell that was reset may offer a challenge that is solved already, and
opening it can then never clear the cell. A line whose last cell an operator
marked as cleared has no bonus, and gets none later unless one of its cells is
solved again.

Limits of `CyclesAreKnown`. Transactions deadlock in three ways, where the
database rolls one of them back and its request fails. The deletion of a team
holds the team and reaches its board state last, by a cascade, while a
submission, a withdrawal or an opening of that team holds the board state and
waits for the team; `adminpanel/views.py:2918` speaks of the order of challenge
and team only. A team that opens a challenge again, which needs an operator's
correction first, locks team before challenge, while whatever rescores the
challenge (another team's submission, a withdrawal, new parameters) and an
accepted executable lock challenge before team. And an opening for the first
time (`board/services.py` 888-917, team before challenge) can close a circle of
three: a poll of KOTH holds team 1 and waits for team 2, which the opening holds,
which waits for the challenge, which an accepted executable of team 1 holds, and
that waits for team 1. The third way was found while proving: the run has two
processes, the theorem any number.

Limits of `LaterDecisionWins`. An operator who asks for a release that is being
prepared automatically already adopts that request. Nothing is recorded: the
request stays automatic and the generation stays, so that a publication
verified before may still supersede it. A retry that read the config before an
automatic switch leaves a request with a lapsed intent; until it is processed it
counts as an operator's request in progress, and publications are held.

Finding (`instance_replay`). `docs/instance-write-recovery.md:28` and the help
of the command `recover_instance_writes` say that recovery never re-executes a
creation or reset. It does for resets: if the scheduler does not know the
request id, `replay_unaccepted_reset` sends the reset again.

Finding (`board_start`). `docs/board-api-spec-update.md:22` says that START can
be landed on exactly once. A team on the airport may hold a throw whose
candidate is START, move to START with the airport, which consumes it, and then
confirm the throw: neither handler compares its destination with the other, and
START is finalised a second time. This is why `RelandsOnceAtMost` and `Tour`
allow one exception, tied to the airport flag.

Finding (`score_minimum`). `test_reaches_minimum_at_decay` in
`ranking/tests.py` says that the score reaches the minimum at decay. With scores
from the database it may stay one point above: the decimal quotient is rounded
down, its product with the square falls short of the whole number by its last
digit, and `math.ceil` adds a point. With the model's defaults (1000, 100, 70)
the 70th solve leaves 101 points. The test passes integers.

## 4. Proofs

The theorems hold for every board, dice, card catalogue and capacity, and every
number of keys, rows, users, teams, challenges, writes, releases, processes and
faults, that satisfies the named assumptions of the modules:

| Module | Assumptions |
| --- | --- |
| `Movement`, `Board`, `BoardOperator` | `LastAssumption`, `BoardAssumption`, `NoRollAssumption`, `OperatorAssumption`: a board of cells with one START, dice that show positive numbers, finitely many challenges, at least one of them offered |
| `DiceRecharge` | `RechargeAssumption`: capacities and intervals are positive numbers |
| `DiceRequest` | `RequestAssumption` |
| `InstanceWrites` | `WriteAssumption`: at least one write, and None is none |
| `ChallengePlay` | `CellsAssumption`, `BoundsAssumption`: at least one challenge is offered, at least one wrong try allowed |
| `DynamicScore`, `ScoreTransactions` | `DigitsAssumption`, `SizesAssumption`, `ScoringsAssumption`: decays are positive, minima at most initial scores, and these have no more digits than the arithmetic (at most 12 against 28 in the code) |
| `ExeSubmission` | `BoundsAssumption`, `NoneAssumption` |
| `ReleaseActivation` | `ReleasesAssumption`, `BoundsAssumption`: releases are numbered by revision |

Every module of proofs has the same form: an inductive invariant (`IInv`), a lemma
per part that says what a step does to it, and theorems that follow. A step is
first reduced to the few things it may do to the part of the state in question
(`StepsByPlace`, `RowSteps`, `Isolates` and the like), so that an action is opened
once and not once for each part.

`BoardProofs`. None of the safety properties is inductive. `DieLandsOnce` counts
used free-travel cards, which only stays right when a card is used once;
`RelandsOnceAtMost` needs to know that a pending throw's candidate is a free
cell unless the airport flag is set (`PlaceInv`), and that the flag is set once
(`RelandInv`); `ChoiceOwnsPending` needs that the numbers of a card in use
differ from none (`ChoiceInv`). The invariant `IInv` is the conjunction of
`TypeOK`, `ChoiceInv`, `PlaceInv`, `RelandInv` and `DieLandsOnce`, proved one part
at a time. `StepsByPlace` reduces the actions of `Board` to five ways of moving
(land, hold, stay, confirm, airport); most later lemmas split on those five.
`PlayIsATour` is the refinement of `Tour`; `CompletionStays` needs no invariant
but types. `GamesAreShort` counts: a landing consumes a cell except for one
relanding, and a die buys a landing. With corrections, `BalanceStep` gives that
play keeps the balance of throws and landings, whatever it is, so that only a
forced move changes it, by the throw it drops (`ThrowsLandOrAreForfeited`); that
the card a forced move closes is no free-travel card is `ChoiceInv` again. `PendingThrowsEnd` follows from the
same invariant: a throw that cannot be confirmed has open numbers, and every
number leads to a free cell while one is left.

`TimersRunForOpened` is not inductive either: when a stale candidate makes the
access of another cell active, only the piece can end that, and it must not move.
`ActiveInv` adds that no throw is pending while the exception of `ActiveIsOpened`
holds, so that every handler that moves the piece is refused
(`UnopenedHoldsThePiece`).

`TeamsAreNeverStuck` says of a ready board that a team with nothing to answer may
throw or waits for a die, and on an unopened cell has a candidate to open once
it has looked. The last is a count. Each access belongs to a cell of its own
(`SlotInv`), so that the accesses to challenges of one difficulty are fewer than
its cells while one of these is unopened, and as many challenges are published:
one of them was not opened anywhere (`SpareChallenge`) and is among the kept
candidates or may be drawn (`ReadyOffers`). A candidate that was selected and yet
has no access would spoil this; there is none without corrections
(`SelectedInv`). With them `CorrectionsLeaveAMove` names it as the one way out
(`SelectionLost`, see the limits of `NeverStuck`).

`BoardProofs` begins with the walk itself. `WalkEndsAtItsRank` says that the loop
of `compute_movement` ends where `Movement` says, with as many passes of START,
for every size of the board, every set of consumed cells and every number of
steps. No induction theorem can be instantiated here, so the two rules it needs
are proved from the least counterexample (`LeastNumber`): what a function of the
rounds of a loop is (`RoundsExist`), and that an invariant of a round holds after
the last (`LoopRule`). One hop goes to the nearest free cell (`NextFreeIsNearest`,
`HopStep`), whose rank is one more (`NextRank`) or first again after a lap
(`FirstRank`, `Laps`). That the destination is unique (`OneDestination`) makes
the choice in `Board` a function.

`DiceRequestProofs`. `ThrowsOncePerKey` and `ResultKeptUntilSeen` hold together:
while a key can still throw it must be the open request with an empty receipt,
and then nothing was thrown under it (`OpenRequest`, `ThrowsAccounted`).
`OneResultPerKey` follows from `RecordsTruthful`: whatever a record, the cache
or a late cache write may answer was thrown under its key. `RequestsCanBeServed`
needs that a confirmation on record is one of an earlier throw (`Unconfirmed`):
otherwise the move in the way would be answered from its record and never end.

`ExeSubmissionProofs`. `OneRunPerTeam` speaks of the checker's jobs, of which the
backend sees only reports. The invariant therefore has one part for each link of
that chain: what the checker reports is true of the job (`ReportsTrue`); the row
believes nothing but reports, so that `ENDED` means that the job ended or never
ran (`RowsTrue`); at most one row of a team holds its slot (`SlotTaken`). A running
job then belongs to a row that is not `ENDED`, which is the holder.
`RequestsRunOnce` needs that a row that waits for its first dispatch was not POSTed
(`PostedOnce`). `RowSteps` reduces the actions to acceptance, start, result and
steps that leave the outcome of every row alone; most lemmas split on those.
`VerdictsAreFinal` is the refinement of `Verdicts`. `SubmissionsAreCarriedOn` adds
the converse of those parts: what the checker did has been reported
(`ReportsComplete`), and what a row recorded it has acted on
(`RowsFollowReports`).

`DiceRechargeProofs`. `ClockRunsWhenOwed` is not inductive: a clock that was
paused with no time left would be overdue the moment it is resumed. `Owed` says
that a clock runs exactly if dice are missing on a board not completed, and that a
paused one has some time left, because whoever pauses it has paid out first.
`ImplementsEagerClock` maps the dice of the lazy clock to those it would have paid
by now; the lemmas about division say that their number grows by one at the
moments a die is due and only there.

`InstanceWritesProofs`. To say that no instance is an orphan one has to say why a
rejected write is not running and never will be: it was given up knowingly, it
ended, its source has ended so that the reset will be refused, or it was never
sent (`Settled`). That rests on what a refusal means (`Refusals`), on what the
backend has heard being true of the scheduler (`Known`), and on the user's lock
keeping recovery and requests apart (`Lock`). `OpenWritesCanBeSettled` adds that a
remote id on record is one of the scheduler's (`Heard`): a write whose id the
scheduler did not know could be neither found nor missed.

`ChallengePlayProofs`. A solve clears its cell because the access that the
submission saw before its transaction is still there unless an operator removed it
(`RequestsHadAccess`); the die is paid once because a challenge that earned it
stays with its access and is active again only while the piece is on another
cell (`PaidHadAccess`, `ActiveIsAway`).

`ScoreTransactionsProofs`. `Working` says of each transaction, by its kind and
step, which rows it has locked and that what it computed is what it would compute
now; a row may also be one that a deletion removed (`Secured`). `Isolates(p)` says
what a step of `p` may change by the rows `p` holds. A step of another process then
leaves the computation right, because the rows it would need are taken
(`StayWorking`); its own step moves it on (`StepWorks`); and the commit writes what
follows from the solves (`CommitFollowsSolves`). `PeriodAwardedOnce` is the case
of a poll that read the status under the period's lock. `DeadlocksAreKnown` adds
that rows are locked in the order `Before` (`InOrder`): in a circle without
deletions and openings, the row each waits for would lie before the next one's,
and a least one would not; a pair with an opening is done by cases
(`OpeningInPair`).
Sums are left as they are: the theorem says that the stored numbers are these
functions of the stored solves. Of `calculate_dynamic_score` only its first value
is proved (`UnsolvedIsWorthInitial`): none of the roundings on the way loses a
digit of the initial score.

`ReleaseActivationProofs`. `Intents` says that an intent of the current generation
was formed after the last decision, which makes `LaterDecisions` a statement about
one switch; `Leases` and `Attempts` bound what workers that died or answered too
late may have left behind.
`NewestSurvives` needs that a publication that waits expects the present release
exactly if no operator decided since (`Waiting`), and `Newer`. `NothingHangs` adds
that a preparation is complete when it is created (`Served`) and that a
publication in progress has one (`Preparing`).

Halves of liveness. Liveness itself needs fairness and ENABLED, which the prover
does not reach, but half of each such property is safety: as long as something is
to be done, a step towards it is open. `TeamsAreNeverStuck` is that half of
`EventuallyCompleted`, `RequestsCanBeServed` of `RequestIsServed` (and
`RequestsOnlyAdvance` says that no step leads away from its end),
`SubmissionsAreCarriedOn` of `SubmissionsAreSettled`, `OpenWritesCanBeSettled` of
`TaggedSettles`, `NothingHangs` of `PublicationsAreDecided`, and `RunsWhenOwed` of
`RechargeArrives`. They name the guards of the actions that `Fairness` asks for.
What they leave to TLC is that these steps, taken fairly, also come to an end.

Only model-checked. Liveness under fairness (`EventuallyCompleted`,
`RechargeArrives`, `RequestIsServed`, `TaggedSettles`, `RowsFollow`,
`SubmissionsAreSettled`, `PublicationsAreDecided`) is out of the prover's reach, but
for the halves above. How far rounded scores are from exact ones (`RoundsUp`) is
compared by TLC on small numbers.

## 5. Plan

Modules in the order they are written, the most important behaviour first:

1. `Movement`, `Board`, `Tour`, `BoardOperator`, `BoardProofs`: done.
2. `DiceRecharge`, `EagerRecharge`, `DiceRechargeProofs`: done.
3. `DiceRequest`, `DiceRequestProofs`: done.
4. `InstanceWrites`, `InstanceWritesProofs`: done for one user.
5. `ExeSubmission`, `Verdicts`, `ExeSubmissionProofs`: done.
6. `ChallengePlay`, `ChallengePlayProofs`: done.
7. `DynamicScore`, `ScoreTransactions`, `ScoreTransactionsProofs`: done.
8. `ReleaseActivation`, `ReleaseActivationProofs`: done.
9. Payments (tokens, check-out, refund), publication dispatch, the cursor of the
   reconciliation, KOTH token keys, signatures: not begun.

Not modelled, and why: presentation (serialisers, leaderboard views, ranking
pages), storage of files and rendering of secrets and environments, discovery and
validation of bundles, authentication and cryptography, deployment scripts and
load tests keep little state, or none that two actors share. Payments and
signatures are transactions that lock, and read again, everything they use.
About half of the repository's Python is its tests. `PROJECT.json` lists every
component.
