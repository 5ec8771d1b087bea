# PeerPort in TLA+

A verification development kept beside PeerPort (`src/src/peerport`, paths
below are relative to it): a harbor town whose inhabitants ("peers") decide,
talk and write by calls of a language model, watched by one Keeper in a browser.
The program is one Python process with one asyncio event loop. There are no
threads, so everything between two `await`s is atomic, and everything that can
go wrong goes wrong at an `await`: a value read before it and used after it, two
tasks in the same place, a failure between two steps, a frame published later
than another one. The modules here are about those places.

- [Inventory](#inventory)
- [Modules](#modules)
- [Runs](#runs)
- [Disagreements found](#disagreements-found)
- [Theorems](#theorems)
- [Not modelled](#not-modelled)

## Inventory

| part | state it keeps | operations | talks to | what is hard | what makes it correct |
|---|---|---|---|---|---|
| Peer decisions, `peers/decide.py` | per peer a history of actions and a lock | `decide`, `trigger_redecision`, `run_peer`, `_route` | gateway; simulation (`assign_destination`); conversations (`on_talk`); board | a decision holds its lock across the model call *and* across the conversation and the target's own decision | one decision per peer; no fourth repetition; every call returns; a busy peer is left alone |
| Conversations, `peers/converse.py` | `busy` | `eligible`, `start` | gateway, memory, relationships, mail | failure at any of its many awaits; overlapping conversations | busy is exact; every conversation ends |
| LLM gateway, `llm/client.py` | none of its own, rows of `usage_log` | `call`, `call_with_tools`, `call_stream` | every service; budget; outage | retries, one re-ask, skips; the budget is read before and paid after | bounded overshoot; every call ends |
| Budget guard, `llm/budget.py` | `notice_active`; reads `usage_log` | `check_hard_cap`, `low_power` | `make_hard_cap_handler` | day rollover; a trip while paused | a hard stop is a pause |
| Outage tracker, `llm/outage.py` | failure streak, `active` | `report_success`, `report_failure` | `make_outage_handler` | frames published by tasks of their own | the page's fog settles on the tracker's state |
| World simulation, `world/sim.py` | peers with tile, path, destination, flags; pause, speed | `tick`, `assign_destination`, drifter spawn and despawn | map, state, decisions | peers planned without regard to each other; re-routes in mid-walk | no overlap, nobody stranded, walks stay walks |
| Port map, `world/worldmap.py` | none | A*, breadth-first search, loading | simulation | mist tiles for the drifter only | paths are shortest walks |
| World clock, `world/clock.py` | none | day, band of a second | simulation, mail, reflection | boundaries | bands partition the day |
| World state, broadcaster, `server/state.py` | broadcast bookkeeping, subscriber queues | `tick_state`, `snapshot`, `publish` | tick loop, pages | diffs against the last broadcast | pages converge to the state |
| WebSocket and page, `server/ws.py`, `js/net.js`, `js/world.js` | a queue per page; the page's copy | snapshot, then diffs; reconnect | broadcaster | subscription after the snapshot; reconnects | no lost update for ever |
| REST API, `server/api.py` | none of its own | board, mail, world, onboarding, settings, chat | all services | requests in any order, twice | the onboarding is done only when all of it is |
| Bridge, `js/bridge.js` | banners, chat stream, unread dots, `paused` | frames, buttons | REST, WebSocket | stale `paused`, missed frames | agrees with the server |
| Memory stream, `memory/stream.py` | rows of `memories` | `write`, `score_pending_importance` | all services | two scorings of one row; ids used long after the read | every row scored, the Keeper's bias kept, ids never given twice |
| Reflection, forgetting, `memory/reflect.py` | last reflection day; `reflected` marks | `maybe_reflect`, `forget_once` | memory, gateway | rows that change while the model is awaited; crash between summary and deletion | exactly what was read is marked; nothing is forgotten unsummarised |
| Friend mail, `friends/mail.py` | letters sent this session; a state per friend | `notify_event`, cadence, `reply` | conversations, memory | cap checked before the await; crashes between its transactions | the session cap is exceeded by what overlaps and no more; hearsay has its letter |
| Logbook, `logbook.py` | weekly day; event rows | absence report, weekly summary | memory, relationships | relaunch after a crash; a batch that is cut off | one report per absence but for a crash; weekly summaries an interval apart |
| Mate chat and notes, `mate/` | a lock; note files | `handle`, note tools | gateway, memory, pages | queueing; failure outside the guarded part; a page that loses its connection | nobody waits for ever; replies of requests that did not raise never share a bubble; notes are remembered |
| Database and boot, `db.py`, `__main__.py`, `server/app.py` | SQLite file, backups; tasks | open, back up, reset; start and stop | everything | crashes; a database log beside the file; failed tasks at shutdown | the chronicle runs back only after a crash; a backup is whole |
| Configuration, personas, prompts, scripts | none that changes | parsing, text, assets | boot | nothing concurrent | left out |

The parts meet in four places. A **decision** asks the gateway, then moves its
peer in the simulation, writes to the board or opens a conversation; the end of
a conversation triggers the decision of the peer spoken to, inside the decision
of the speaker. Every **model call** goes through the gateway, which asks the
budget guard, reports to the outage tracker and, through the handlers of
`__main__.py`, pauses the world and tells the pages. The **tick** moves the
peers every half second, whatever the decisions wait for, and sends a diff.
**Memory** is written by decisions, conversations, letters and the logbook, and
scored, reflected on and folded away by loops of their own.

`PROJECT.json` lists the hazards of this code at their lines, with the
properties that cover them or the reason why none does.

## Modules

| module | models | extends or uses |
|---|---|---|
| `PeerSociety` | `peers/decide.py`, `peers/converse.py`, `on_talk` and `is_busy` of `__main__.py`, `POST /api/board` | `ConversationBook` by INSTANCE |
| `ConversationBook` | what the conversation engine promises its callers | |
| `LlmGateway` | `llm/client.py`, `llm/budget.py`, `llm/outage.py`, two handlers of `__main__.py`, pause and resume of `POST /api/world`, the page's banners | |
| `WorldSim` | `world/sim.py`, the peers' half of `tick_state` | `HarborTraffic` by INSTANCE |
| `HarborTraffic` | what the simulation promises to whoever looks at the harbor | |
| `MemoryStore` | `memory/stream.py`, `memory/reflect.py`, `_summarize` of `mate/chat.py`, day and night of `world/clock.py`, stop and crash | |
| `FriendMail` | `friends/mail.py`, the `mails` table of `db.py`, `POST /api/mail`, stop and crash | |
| `Launches` | `boot` and `main` of `__main__.py`, `logbook.py`, the file side of `db.py`, the outcome of a conversation in `peers/converse.py` | |
| `MateLine` | `mate/chat.py`, `mate/notes.py`, `POST /api/chat`, `DELETE /api/notes`, `publish` of `server/state.py`, `server/ws.py`, `js/net.js`, the chat pane and fog line of `js/bridge.js` | |
| `Onboarding` | `_onboarding_step`, `_apply_locale`, `_write_seed_memories_once` and `POST /api/settings` of `server/api.py`, with restarts and crashes | |
| `MC...` | small instances for TLC | the module they are named for |
| `..._proofs` | theorems | the module they are named for, TLAPS |

In every module a step is what the code does between two suspensions of one
task. Operators called `...NoLock`, `...SpeakerOnly` and the like, each marked
"Mutant", are plausible bugs of the operation they stand beside; no action uses
them.

**PeerSociety.** A task is the scheduler loop of a peer or a board request. `pc`
says where it is suspended: queued for a lock, at the model, at an embedding, in
a turn, an outcome or a letter. Because `decide()` awaits `on_talk`, which awaits
the decision of the target, one task can be inside several decisions; `held` is
the set of locks it has taken on the way, `cur` the peer of the innermost call.
When that call returns all the others return without suspending, which is why
`Return` releases every lock at once. `waiters` is the FIFO of asyncio's lock.
`history` is kept as the latest action and the length of its run, which is all
`_excluded_action` looks at. The turn limit is any of `TurnLimits`, since it
depends on the day's spend. Distances are left open: `start()` may find the
target too far (`DecideTalkInVain`). A failed decision call falls back to `rest`
(`DecideRest`); a failure of any call inside a conversation ends the task
(`Raise`). `heading` records whether the simulation or a decision chose a
peer's course last.

**LlmGateway.** A call goes `idle -> dispatched -> (backoff -> dispatched)* ->
idle`. `Admit` is `check_hard_cap` letting it through, `Refuse` its raise. The
three entry points are `kind`: with a schema (which may be asked again once),
without one, and the stream (which is never retried). Costs are units; a reply
costs any number up to `MaxCost`. The handlers publish their frames by tasks of
their own (`pending`), the REST handler at once, and `banner` is what
`bridge.js` makes of the frames in the order they arrive. The services' guards
read one table and share the handlers; the model has one guard.

**WorldSim.** `tick()` never suspends. It is cut here into one step per peer
and phase, in the order of the dictionary, during which nothing else happens, so
that an invariant is checked after every single move too. `way` is
`path[path_index:]`. The map is a constant: `Routes` holds what `tile_path` may
return, and the module assumes of it what A* promises (walkable, connected).
`HarborTraffic` is the simulation seen from the page: pieces on a board that move
one at a time to a free neighboring square open to them, and visitors that come
and go; ticks, paths, destinations, pauses and speeds are gone.
The drifter's spawn and despawn are operations of the class that, at this
commit, only tests call.

**MemoryStore.** The table is a function from live row ids to rows; `NextId` is
what SQLite does with an `INTEGER PRIMARY KEY` that is not `AUTOINCREMENT`: one
more than the largest live id. A text is the set of ids of the memories whose
content it carries (`about`), so that a summary of summaries still tells the
first ones. Five kinds of tasks work on the table: writers, the exchange with
the Keeper, and the loops of scoring, reflection and forgetting. Each reads rows,
waits, and writes by id; `scorer`, `keeper`, `reflection` and `forgetting` hold
what it read. A scoring answer may be shorter than its listing (`Prefixes`).
`now` counts light bands, four to a day. `Crash` cuts every task where it waits;
`CrashWhileFolding` and `CrashWhileMarking` cut one between two transactions that
have no await between them.

**FriendMail.** A letter is three suspensions: `Ask` (after the check of the
cap), `Deliver` (the mail is inserted, its memory embedded), `Store` (memory,
friend state and count). `Writers` are the callers that overlap, and the one
cadence loop. A letter's and a state's content is the id of the mail it is about.

**Launches.** A launch opens the files (`Open`: backup or reset, rotation), then
runs the boot task of the logbook beside conversations until `Stop` or a crash.
`world` is what is committed; `file` says whether `peerport.db` itself has it
(`whole`) or the `-wal` beside it is needed (`behind`), which is all that matters
to a backup that copies one file. A batch of the logbook is told event by event
(`Tell`, `Told`), with the memories of its peers awaited in between. One pair of
peers stands for all.

**MateLine.** A message goes through the stages between the awaits of
`_handle_locked`; `line` is the lock and its queue. Every frame goes through
`queue` to the page, in order, while it is `live`; between the snapshot and the
subscription it is `greeted` and what is published passes it by. `pane` is what
the page shows: the open bubble as the set of messages whose text is in it, the
bubbles closed so far, and the fog line. A message ends in one of four ways: with
its `chat_done`, by one of the two exceptions that are caught, whose fallback is
a `chat_done` too (`Refused`), by any other exception before it (`Raises`;
`Untold` if it is the memory of a note that cannot be inserted), or after it,
in the summary (`Ends`). The third way is where the code is silent: `past.failed`
keeps these messages, and their bubble, if one is open, stays open.

**Onboarding.** `store` is the set of keys `POST /api/settings` has written;
`at[r]` is the seed memory request `r` waits to have embedded. A request with
several keys has no suspension before its `mate_name` and acts like one for each.

## Runs

| run | instance | checks | states |
|---|---|---|---|
| `society_safety` | two peers, a board request, four actions, exclusion after three | `TypeOK`, `BusyExact`, `OneDecisionPerPeer`, `AntiRepeat` | 0.86 million |
| `society_liveness` | the same with talk and rest only, under fairness | `ConversationsEnd`, `DecisionsResolveUnlessCycle`, `ImplementsBook` | 0.12 million |
| `gateway` | two call sites, two retries, a cap of two units, two pending frames, under fairness | `TypeOK`, `BoundedOvershoot`, `HardStopIsShown`, `FogSettles`, `CallsEnd` | 68 thousand |
| `world` | two residents and the drifter, six tiles, three nodes | `TypeOK`, `NoOverlap`, `NeverStranded`, `NoJump`, `ImplementsTraffic` | 1.9 million |
| `memory` | the Mate and one more peer, up to five rows, a night, two launches, under fairness | `TypeOK`, `NothingForgottenUnsummarised`, `ReflectedAsRead`, `KeeperBiasKept`, `IdsNeverReused`, `PendingNeverForgotten`, `EveryMemoryIsScored` | 0.24 million |
| `mail` | two friends, two callers and the cadence loop, a cap of two, five mails, two days, two launches | `TypeOK`, `CapOvershootBounded`, `HearsayHasLetter`, `ThreadsAreWhole`, `CadenceKept` | 8.1 million |
| `launches` | three launches, batches of up to two events, two days, two units of real time | `TypeOK`, `AbsenceToldOnce`, `SummariesSpaced`, `BondsFollowRows`, `ChronicleInOrder`, `StoppedWorldIsBackedUp` | 0.79 million |
| `line` | two messages, one title, two connections, one change of the outage, one crash, under fairness | `TypeOK`, `RepliesUnmixed`, `NotesRemembered`, `FogResyncs`, `EveryMessageSettled` | 0.76 million |

Four more runs, below, end in a counterexample.

*Bounds.* Two peers and a request are three tasks, enough for two of them to
compete for a lock that a third has, for a cycle of two, for a peer that talks to
itself and for a board request to run through both peers; a turn limit of two
lets both speak and both end early. `RepeatExclusionRun` is the code's 3 in the
safety run and 1 in the others, where histories do not matter; a run of equal
actions is counted one past the limit, which is what the property needs. Two
calls are enough for one to spend while the other waits in a backoff or before
its re-ask. `MaxPending` bounds the frames whose task has not run; a step that
would create more is not taken. The map is a bent lane one tile wide, so that
peers meet head on, with a mist tile that only the drifter may enter at its
corner; it is long enough that a resident behind the other one still walks three
steps, one more than `NoJump` allows. Paths are shortest ones, as A* returns.

In `memory`, writers stop after two ids and no reflection or folding starts
after three, which leaves room for a summary and an insight beside two memories:
the rows a loop has read are scored, marked or folded by another one meanwhile,
and the newest row can be in the cluster that is deleted. Thresholds are one and
two rows where the code has dozens, since only being above or below matters. In
`mail`, three writers for a cap of two overlap past the cap; five mails are one
letter more than `CapOvershootBounded` allows, and a reply with the answers of
several writers. A cadence of one day in two days lets a second routine letter
come due. In `launches`, three launches are a crash, the launch that tells
again, and one after it; an absence of one unit and summaries a day apart are
the code's thresholds in the units of the model. In `line`, two messages compete
for the lock, two connections allow a reply to be cut by a reconnect, and two
notes of one title are a name that is taken and freed again. Every bound is a
CONSTANT whose comment says "bound".

*Fairness.* `PeerSociety`: each timer of `run_peer` rings, and a task that can
go on does, because the loop runs every ready task and the gateway answers
every call (which `CallsEnd` shows). The Keeper is under no obligation to post.
`LlmGateway`: the SDK returns or raises, a sleep ends, a created task runs;
nobody has to call, to pause or to resume. `MemoryStore`: the scoring loop comes
to each peer again and again and, if it does so for ever, the model once answers
with a score for every memory it was given; strong fairness, because a listing
disappears when it is answered in part or the process restarts. That the model
answers in full at times is an assumption about the model, not about the code.
`MateLine`: a message that can go on does, because calls end (`CallsEnd`), a reply
has finitely many deltas and the loop runs what is ready; whether a step raises is
left open, and the Keeper, the page and its connection need not do anything. `WorldSim` has no liveness property:
under contention two peers may block each other and be re-routed for ever.

*What they show.* The busy set is the union of the running conversations, and
these are disjoint, also when one is cut short by an exception: a peer can
neither be left busy nor be freed by somebody else's conversation. `AntiRepeat`
depends on the lock: without it (its mutant) the schema of a pending request is
out of date. A conversation always ends, although decisions around it may not:
`DecisionsResolveUnlessCycle` says that waiting for each other is the only way a
decision can hang, `EveryDecisionResolves` that it happens. The gateway can
spend past its cap, but never more than two replies per call site, and a hard
stop is always shown once its frame is out. Peers never share a tile although no
path regards the others, and a page sees every resident move by at most two
tiles a tick. Whatever the plans, re-routes and pauses, the simulation implements
`HarborTraffic`: no step moves two peers, moves one through a wall or onto
another, or makes a resident appear.

Nothing that was remembered is lost: the order of `forget_once`, insert before
delete, is what keeps SQLite from giving the id of a deleted row to a new memory
(`IdsNeverReused`; its mutant deletes first), and with it every late score, mark
and deletion meets the row it was meant for. The Keeper's bias survives every
scoring whose listing was read after it; a listing read before may overwrite it.
A session can exceed its cap of letters by what overlaps, no more. What a peer
tells as hearsay always has its letter, because the state is written last. An
absence is reported twice only after a crash, and a backup is whole after every
clean end. Two replies of the Mate never share a bubble, although frames have no
request id: the lock does it, and the page's cut at a reconnect. The exception is
a reply whose request raised: its bubble is not closed, and the next reply goes
into it. No message waits for ever behind another, whatever that one raises
(the mutant lets go of the lock only at a normal end); whether it is answered is
another matter, see below.

## Disagreements found

Each of these is a run that TLC ends with a counterexample, and a finding in
`PROJECT.json` with the sentence it disagrees with.

- `EveryDecisionResolves`: two peers that talk to each other one after the
  other, or one that talks to itself, end in decisions that wait for each other
  for ever; a board request that meets them hangs too.
- `SchedulersSurvive`: an error in a conversation ends the scheduler of the
  speaker for good; nothing supervises it.
- `FreshArchivesWorld`: after a crash `--fresh` archives `peerport.db` without the
  log that holds the latest commits, and deletes the log.
- `SeedsOnce`: two overlapping requests that name the Mate, or one after a crash,
  write the seed memories twice.

The models show these too; they have no run of their own.

- `mate/chat.py` says that the Mate always answers, and its except clause that
  without it a message never gets its `chat_done`. The clause names two exceptions.
  A retrieval or a report that raises, both outside the `try`, a note call with
  arguments that are no object, a note file that cannot be written, the insertion
  of its memory or a stream error the client does not map ends the request
  without a `chat_done`, and the Keeper waits for an answer that does not come:
  `Raises` and `Untold` of `MateLine`. `EveryMessageSettled` is what holds.
- The bubble of such a reply stays open, and the deltas of the next reply are
  appended to it until its `chat_done` replaces the whole text (`bridge.js:201`).
  `RepliesUnmixed` excepts these replies.
- The letters of a session are "capped at `SESSION_MAIL_CAP`" (`mail.py:10`), "capped
  3/session" in the design. Letters that overlap all pass the check before one of
  them is counted (`mail.py:205`, `mail.py:260`), so a session can send more.
  `CapOvershootBounded` is how many more.
- A decision that waits for the model while its peer is drawn into a
  conversation moves the peer all the same (`decide.py:146` checks before the
  wait; `DecideMove` of `PeerSociety` has no check either).
- Retries and re-asks leave without another look at the budget (`client.py:361`),
  which is one of the two replies of `BoundedOvershoot`.
- The cap trips silently in a world the Keeper has paused (`__main__.py:147`);
  resuming it clears nothing and shows nothing.
- A `resumed` frame can overtake the `hard_stop` frame of the trip it answers: the
  banner then stays while the world runs. `HardStopIsShown` is the half that
  holds.
- The scoring loop can overwrite the biased score of an exchange with the Keeper,
  if it had listed the row before (`chat.py:231` has the exchange keep its bias).
- A reconnect in the middle of a reply closes its bubble because its `chat_done`
  "will never arrive" (`bridge.js:234`); it does, if the reply ends after the
  subscription. A `chat_done` that finds no open bubble shows nothing, and so the
  fallback line of a call that failed before the first delta is not displayed.
- A stream that breaks off after some deltas ends in a `chat_done` without text,
  which empties the bubble the page has filled.
- The chosen locale and the name of the Mate are stored, but not read back at the
  next launch (`Relaunch` of `Onboarding`).

Also read: the worker pool of `docs/design/architecture.md` with its "concurrency
cap 4" does not exist, every service calls the gateway directly; and a hard stop
is not cleared at midnight, although the docstring of `llm/budget.py` has both
caps' states cleared by the rollover.

## Theorems

All hold for every value of the constants that meets the named assumptions.

`PeerSociety_proofs`. `Inv` is the type invariant with `TaskShape`, which says
what a suspended task is about. Every action moves one task; `TaskStep`
describes such a step by six facts (about other tasks, locks, the record, the
busy set, the queues, the conversation) from which the invariants follow, so that
each action is analysed once. `OneDecisionAtATime` is inductive with it.
`NoFourthRepetition` needs `SchemaFresh`: the exclusion a request was built with
is still the one the record asks for, which holds because only the holder of the
lock writes the record. `BusySetExact` is the exactness of the busy set,
`KeepsTheBook` that each step is a step or a stutter of `ConversationBook`.

What the liveness properties of this module rest on is proved too. `Queued` says
that a task is in the queue of a lock exactly while it waits for it, once, and
`LocksInUse` that a lock is only kept inside a decision. From these: no wake-up
is lost (`WakeupsArrive`); while nobody waits in a cycle, some decision under way
can go on (`OnlyCyclesBlock`); a cycle has a task that waits inside another
decision (`CyclesAreNested`: in the queues alone, somebody is first); and nobody is
overtaken (`LocksAreFair`). Together they are the safety core of
`DecisionsResolveUnlessCycle`, and name the one place the deadlock of
`EveryDecisionResolves` comes from: the target's decision inside the speaker's.
`Left` counts the lines and the three waits a conversation has before it; it is at
most the turn limit and three (`ConversationsStayShort`, which needs that a growing
transcript is below its limit), and each step of the task lowers it
(`EveryLineCounts`).

`LlmGateway_proofs`. `HardStopShown` needs `HardStopOnItsWay`: the frame of a hard
stop that holds is in the queue or on the page. `FogAgrees` needs
`FogOnItsWay`: the last fog frame in the queue, or the page if there is none,
tells the tracker's state. `OvershootBounded` needs the commitment: the spend
and the replies that calls in flight may still have to pay for, counted as a
finite set, stay below the limit together; the spend alone is not inductive. The
same way as for conversations, `CallsStayShort` bounds the answers and sleeps a
call has before it by those of two requests, and `EveryAnswerCounts` has each of
them lower that number, the re-ask with its new attempts included.

`WorldSim_proofs`. `TypeCorrect` includes that whoever has tiles left to walk has
a destination; `WaysStayWalkable` comes from what A* promises; `NobodyStranded`
from the checks of `assign_destination` and `_decide`; `PeersApart` from the
occupancy check and from where peers are created: berths are apart and the
drifter comes out of a mist tile no resident may enter (`HomesAssumption`,
which the shipped map meets). `ResidentsNeverJump` needs `Trail`: within a tick a
resident is no more steps from where the last report had it than the movement
steps it has had, which holds because a movement step visits each resident once
(`PeersAssumption`: the residents of the dictionary are distinct).
`TrafficIsOrderly` is the refinement of `HarborTraffic`, from `PeersApart` and
`WaysStayWalkable`: every step of the simulation is a move, an entry or a leave of
one piece, or leaves the board alone. It is a safety specification, so the theorem
is all of `ImplementsTraffic`.

`MemoryStore_proofs`. `IdsStayUnique` and `NothingIsLost` are inductive together
with `TopRow` (the row with the largest id ever used is still there, which is why
one more than the largest live id is new) and `FoldingKept` (the cluster being
folded is still in the table, scored, and its summary tells all of it).
`MarksAreReadings` needs `Known`, that only ids that exist are read or marked: an
id given twice would inherit marks. `BiasIsKept` needs that the scoring loop
never holds a row the chat has scored after listing it.

`FriendMail_proofs`. `OvershootIsBounded` counts callers as finite sets: letters
delivered are counted or about to be, and no more callers are busy than were let
in below the cap (`Counting`). `HearsayIsGrounded` needs `LettersDelivered`,
`ThreadsStayWhole` needs `RepliesUnanswered`: a reply whose answer is under way
is answered by no other caller. `CadenceIsKept` needs `LastRoutine`: the day a
friend is measured by is not before its last routine letter, but while the loop
itself has yet to store that letter, and a routine letter being written is due.

`Launches_proofs`. A step is first reduced to what it does to the rows, the clocks
and the boot task (`StepKinds`); each part of the invariant is then proved over
those kinds. `ToldOnce` needs `Reports` (a report is about the last shutdown only
if it is of this launch or of one that crashed), `SummariesAreSpaced` needs
`Summaries` (an unmarked summary was cut off or is being told),
`ChronicleIsOrdered` needs `Clock`, `BackupsAreWhole` needs `Closed`.
`RowsMoveThePair` counts the rows about the pair: by `Ledger` they are those that
have moved it, the one being told (`Pending`) and at most one for each launch that
was cut off.

`MateLine_proofs`. `Locked`: only the head of the line is past waiting. `Ordered`
follows a reply over the wire: whatever of other replies comes after its first
delta, in the page and in the queue, comes after its end, and its end is on the
way or it is still going on, unless its request raised. With `Silent`, that an
unsubscribed page has no open bubble (the last part of `TypeOK`), this gives
`RepliesNeverMix` for any number of messages, exceptions and reconnects: of the
replies in a bubble at most one is of a request that did not raise.
`NotesAreRemembered` needs `Held`, `FogIsResynced` needs `Clouds`: the last fog
frame on its way, or the page, has the fog of the server. `InLine` and `Accounts`
follow the messages instead of the frames: the line has each message under way
once, and only its head at work; a message has its answer from the stage on at
which that was sent, and never if it raised before. From these,
`NobodyIsForgotten` (a message that waits has somebody at work before it; one that
is over was answered, or raised and was not, or died with the process) is the
safety half of `EveryMessageSettled`, and `AnswersComeInTurn` says that an
answer goes to the head of the line only, and once.

`Onboarding_proofs`. `DoneMeansSeeded` is the half of the promise that holds: a
request has written every seed before the one it waits for (`Followed`), so the
onboarding is done only with all of them, whatever overlaps and crashes. No run
checks `DoneIsComplete`; the run of this module is about `SeedsOnce`.

Only model-checked: `ConversationsEnd`, `DecisionsResolveUnlessCycle`, `CallsEnd`,
`EveryMemoryIsScored`, `EveryMessageSettled` and the fairness half of
`ImplementsBook`. They are liveness properties under fairness, which speaks of
ENABLED, and neither is within reach of the prover. The theorems above are what
most of them need besides fairness: what is left of a call or of a conversation
only shrinks, no wake-up is lost, nobody is dropped from a line.

## Not modelled

- Recall: a ranking of rows by floating-point scores, with no state.
- A* and `standable_tile`: sequential searches with tests of their own; `WorldSim`
  assumes what they promise.
- The frames of the clock and the drawing of the world: each frame replaces the
  one before.
- The unread dots, panels and the pause button of the page: flags of the page that
  no other part reads.
- The cancelling of tasks at shutdown one by one: the models stop every task where
  it waits, in any order.
- Prompts, wording, moods, parsing of configuration and personas, localisation,
  assets and scripts: no state that changes, or data no property tells apart.
- A database error that is not a crash. `MateLine` has it, where it decides who is
  answered; elsewhere a transaction succeeds or the process dies. In `Launches`,
  for one, an error between the bond and the mark of a batch leaves a process
  that runs on with the batch half told, which is the state a crash leaves there,
  but without the launch that follows one.
- The SDK and SQLite are external.

Times and costs are abstracted to what guards compare. The modules share no
state: where a service writes a memory, `MemoryStore` has it as a `Write` at any
moment, and where a service calls the model, the result is any of those
`LlmGateway` can give.
